------------------------------ MODULE SyncCall ------------------------------
(***************************************************************************)
(* What the session layer promises the threads that call it, with no       *)
(* threads, locks or semaphores in it: a request is opened under a session *)
(* id, the device manager may answer it, and it is closed either without   *)
(* an answer or with what an answer brought whose session id is read as    *)
(* that of the request.  docs/architecture.md calls this a synchronous,    *)
(* blocking request and answer matched by session id.                      *)
(***************************************************************************)
EXTENDS XBasic

CONSTANTS
    MaxReq,     \* how many requests a behaviour may open
    Byte        \* the values of a byte

Reqs == 1 .. MaxReq

VARIABLES
    phase,      \* phase[r]: not yet opened, open, or closed
    session,    \* session[r]: the id the request was opened under
    answered,   \* the requests whose answer has come back
    result      \* result[r]: whose answer each output of the call was taken from

vars == <<phase, session, answered, result>>

NoResult == [m_errcode |-> 0, m_att_data |-> 0]

Init ==
    /\ phase = [r \in Reqs |-> "none"]
    /\ session = [r \in Reqs |-> 0]
    /\ answered = {}
    /\ result = [r \in Reqs |-> NoResult]

\* A caller is given a session id, which nothing promises to be a fresh one.
Open(r) ==
    /\ phase[r] = "none"
    /\ phase' = [phase EXCEPT ![r] = "open"]
    /\ session'[r] \in Nat
    /\ session' = [session EXCEPT ![r] = session'[r]]
    /\ UNCHANGED <<answered, result>>

\* The device manager answers a request, at most once, possibly too late.
Answer(r) ==
    /\ phase[r] # "none"
    /\ r \notin answered
    /\ answered' = answered \cup {r}
    /\ UNCHANGED <<phase, session, result>>

\* The requests whose answer may be handed to the caller of r: those that bear
\* its id, as an id is read back.
Matching(r) == {a \in answered : read_littleendian(session[a], Byte) = session[r]}

\* The call returns: with nothing, or with a matching answer.  The data may be
\* left out (some calls only want the error code), the error code may not.
Close(r) ==
    /\ phase[r] = "open"
    /\ phase' = [phase EXCEPT ![r] = "closed"]
    /\ \E e \in Matching(r) \cup {0}, d \in Matching(r) \cup {0} :
          /\ e = 0 => d = 0
          /\ result' = [result EXCEPT ![r] = [m_errcode |-> e, m_att_data |-> d]]
    /\ UNCHANGED <<session, answered>>

Next == \E r \in Reqs : Open(r) \/ Answer(r) \/ Close(r)

Spec == Init /\ [][Next]_vars

=============================================================================
