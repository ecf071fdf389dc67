----------------------------- MODULE MCSession -----------------------------
(***************************************************************************)
(* XSession on small instances: the callers are interchangeable.           *)
(***************************************************************************)
EXTENDS XSession, TLC

CallerSymmetry == Permutations(Callers)
=============================================================================
