------------------------------- MODULE XBasic -------------------------------
(***************************************************************************)
(* Integers in a package, as xbasic (libusb/xbasic.hpp) reads them back    *)
(* from memory.                                                            *)
(***************************************************************************)
EXTENDS Integers

\* Four bytes, least significant first, that write_littleendian wrote as v: the
\* second of them is masked with 0xFF after it was moved up, where 0xFF00 belongs,
\* and does not come back.  A byte has that many values (256).
read_littleendian(v, byte) == v - byte * ((v \div byte) % byte)

=============================================================================
