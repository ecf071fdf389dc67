-------------------------- MODULE TcpClientProofs --------------------------
(***************************************************************************)
(* Theorems about TcpClient, for any number of handlers and connections.   *)
(***************************************************************************)
EXTENDS TcpClient, TLAPS

TypeInv == TypeOK

\* A socket without a connection has no read outstanding.
NoIdleReads == sock \in {"none", "down"} => reads = 0

\* The readers of the receive buffer, and what will become one: the connect
\* that is under way and the handler of one that has succeeded.
Readers ==
    reads + jobs["start"] + jobs["data"] + jobs["dispatch"] + jobs["bad"]
          + jobs["badset"] + jobs["badclose"] + jobs["again"]
          + (IF caller = "read" THEN 1 ELSE 0)

FutureReaders == jobs["ok"] + (IF sock = "opening" THEN 1 ELSE 0)

OneReaderInv == ~ crossed => Readers + FutureReaders <= 1

\* The caller reads, or is about to find CONNECTED in start_work, only if a
\* connection came up under its start_connect.
CallInv ==
    /\ caller = "read" => crossed
    /\ caller = "start" /\ m_connect_stat = "CONNECTED" => crossed

ClientInv ==
    /\ TypeInv
    /\ ConnectingHasOutcome
    /\ ConnectedIsRead
    /\ NoIdleReads
    /\ OneReaderInv
    /\ CallInv

\* Every step of a handler is a step.
LEMMA StepsAre ==
    Steps = {"ok", "err", "start", "begin", "async", "data", "dispatch", "bad", "badset",
             "badclose", "again", "fail", "failset", "failclose"}
BY DEF Steps, Receiving, Starting

LEMMA InitClient == Init => ClientInv
<1> SUFFICES ASSUME Init PROVE ClientInv
  OBVIOUS
<1>1. \A s \in Steps : jobs[s] = 0
  BY DEF Init
<1>2. TypeInv
  <2>1. jobs \in [Steps -> Nat] /\ jobs["dispatch"] <= 1
    BY <1>1, StepsAre DEF Init
  <2> QED
    BY <2>1 DEF Init, TypeInv, TypeOK
<1>3. Readers + FutureReaders = 0
  BY <1>1, StepsAre DEF Init, Readers, FutureReaders
<1> QED
  BY <1>2, <1>3 DEF Init, ClientInv, ConnectingHasOutcome, ConnectedIsRead, NoIdleReads,
                    OneReaderInv, CallInv

\* The sum of the readers is a natural number.
LEMMA ReadersAreNat ==
    ASSUME TypeInv
    PROVE  Readers \in Nat /\ FutureReaders \in Nat /\ \A s \in Steps : jobs[s] \in Nat
BY StepsAre DEF TypeInv, TypeOK, Readers, FutureReaders

-----------------------------------------------------------------------------
(* asio's operations on the socket.                                        *)

\* A connect that succeeds: its handler will become a reader.
LEMMA ConnectOkClient == ClientInv /\ ConnectOk => ClientInv'
<1> SUFFICES ASSUME ClientInv, ConnectOk PROVE ClientInv'
  OBVIOUS
<1> USE StepsAre DEF ConnectOk, Plus, ClientInv, TypeInv, TypeOK
<1>1. TypeInv'
  OBVIOUS
<1>2. ConnectingHasOutcome'
  BY DEF ConnectingHasOutcome
<1>3. ConnectedIsRead'
  BY DEF ConnectedIsRead, Receiving
<1>4. NoIdleReads'
  BY DEF NoIdleReads
<1>5. OneReaderInv'
  BY DEF OneReaderInv, Readers, FutureReaders, NoIdleReads, CallInv
<1>6. CallInv'
  BY DEF CallInv
<1> QED
  BY <1>1, <1>2, <1>3, <1>4, <1>5, <1>6

\* A connect that fails leaves the handler that reports it.
LEMMA ConnectFailsClient == ClientInv /\ ConnectFails => ClientInv'
<1> SUFFICES ASSUME ClientInv, ConnectFails PROVE ClientInv'
  OBVIOUS
<1> USE StepsAre DEF ConnectFails, Plus, Abort, ClientInv, TypeInv, TypeOK
<1>1. TypeInv'
  <2>1. mixed' \in BOOLEAN /\ crossed' \in BOOLEAN
    BY Zenon
  <2>2. jobs' \in [Steps -> Nat] /\ jobs'["dispatch"] <= 1
    OBVIOUS
  <2> QED
    BY <2>1, <2>2
<1>2. ConnectingHasOutcome'
  BY DEF ConnectingHasOutcome
<1>3. ConnectedIsRead'
  BY DEF ConnectedIsRead, Receiving
<1>4. NoIdleReads'
  BY DEF NoIdleReads
<1>5. OneReaderInv'
  BY DEF OneReaderInv, Readers, FutureReaders, NoIdleReads, CallInv
<1>6. CallInv'
  BY DEF CallInv
<1> QED
  BY <1>1, <1>2, <1>3, <1>4, <1>5, <1>6

\* When the peer goes, a read outstanding becomes a handler that reports it.
LEMMA PeerClosesClient == ClientInv /\ PeerCloses => ClientInv'
<1> SUFFICES ASSUME ClientInv, PeerCloses PROVE ClientInv'
  OBVIOUS
<1> USE StepsAre DEF PeerCloses, Plus, Abort, ClientInv, TypeInv, TypeOK
<1>1. TypeInv'
  OBVIOUS
<1>2. ConnectingHasOutcome'
  BY DEF ConnectingHasOutcome
<1>3. ConnectedIsRead'
  BY DEF ConnectedIsRead, Receiving
<1>4. NoIdleReads'
  BY DEF NoIdleReads
<1>5. OneReaderInv'
  BY DEF OneReaderInv, Readers, FutureReaders, NoIdleReads, CallInv
<1>6. CallInv'
  BY DEF CallInv
<1> QED
  BY <1>1, <1>2, <1>3, <1>4, <1>5, <1>6

\* A read that completes becomes a handler that reads again.
LEMMA ArriveClient == ClientInv /\ Arrive => ClientInv'
<1> SUFFICES ASSUME ClientInv, Arrive PROVE ClientInv'
  OBVIOUS
<1> USE StepsAre DEF Arrive, Plus, ClientInv, TypeInv, TypeOK
<1>1. TypeInv'
  OBVIOUS
<1>2. ConnectingHasOutcome'
  BY DEF ConnectingHasOutcome
<1>3. ConnectedIsRead'
  BY DEF ConnectedIsRead, Receiving
<1>4. NoIdleReads'
  BY DEF NoIdleReads
<1>5. OneReaderInv'
  BY DEF OneReaderInv, Readers, FutureReaders, NoIdleReads, CallInv
<1>6. CallInv'
  BY DEF CallInv
<1> QED
  BY <1>1, <1>2, <1>3, <1>4, <1>5, <1>6

-----------------------------------------------------------------------------
(* The handlers.                                                           *)

\* connected_handler after success: CONNECTED, and about to call start_work.
LEMMA ConnectedOkClient == ClientInv /\ ConnectedOk => ClientInv'
<1> SUFFICES ASSUME ClientInv, ConnectedOk PROVE ClientInv'
  OBVIOUS
<1> USE StepsAre DEF ConnectedOk, Plus, Finish, Move, ClientInv, TypeInv, TypeOK
<1>1. TypeInv'
  OBVIOUS
<1>2. ConnectingHasOutcome'
  BY DEF ConnectingHasOutcome
<1>3. ConnectedIsRead'
  BY DEF ConnectedIsRead, Receiving
<1>4. NoIdleReads'
  BY DEF NoIdleReads
<1>5. OneReaderInv'
  BY DEF OneReaderInv, Readers, FutureReaders, NoIdleReads, CallInv
<1>6. CallInv'
  BY DEF CallInv
<1> QED
  BY <1>1, <1>2, <1>3, <1>4, <1>5, <1>6

\* connected_handler after a failure: UNCONNECT.
LEMMA ConnectedErrClient == ClientInv /\ ConnectedErr => ClientInv'
<1> SUFFICES ASSUME ClientInv, ConnectedErr PROVE ClientInv'
  OBVIOUS
<1> USE StepsAre DEF ConnectedErr, Finish, StatAfterError, ClientInv, TypeInv, TypeOK
<1>1. TypeInv'
  OBVIOUS
<1>2. ConnectingHasOutcome'
  BY DEF ConnectingHasOutcome
<1>3. ConnectedIsRead'
  BY DEF ConnectedIsRead, Receiving
<1>4. NoIdleReads'
  BY DEF NoIdleReads
<1>5. OneReaderInv'
  BY DEF OneReaderInv, Readers, FutureReaders, NoIdleReads, CallInv
<1>6. CallInv'
  BY DEF CallInv
<1> QED
  BY <1>1, <1>2, <1>3, <1>4, <1>5, <1>6

\* start_work's test, in each of the three states.
LEMMA StartWorkClient == ClientInv /\ StartWork => ClientInv'
<1> SUFFICES ASSUME ClientInv, StartWork PROVE ClientInv'
  OBVIOUS
<1> USE StepsAre DEF StartWork, Plus, Finish, Move, ClientInv, TypeInv, TypeOK
<1>1. TypeInv'
  OBVIOUS
<1>2. ConnectingHasOutcome'
  BY DEF ConnectingHasOutcome
<1>3. ConnectedIsRead'
  BY DEF ConnectedIsRead, Receiving
<1>4. NoIdleReads'
  BY DEF NoIdleReads
<1>5. OneReaderInv'
  BY DEF OneReaderInv, Readers, FutureReaders, NoIdleReads, CallInv
<1>6. CallInv'
  BY DEF CallInv
<1> QED
  BY <1>1, <1>2, <1>3, <1>4, <1>5, <1>6

\* start_work says CONNECTING ...
LEMMA WorkBeginClient == ClientInv /\ WorkBegin => ClientInv'
<1> SUFFICES ASSUME ClientInv, WorkBegin PROVE ClientInv'
  OBVIOUS
<1> USE StepsAre DEF WorkBegin, Plus, Finish, Move, ClientInv, TypeInv, TypeOK
<1>1. TypeInv'
  OBVIOUS
<1>2. ConnectingHasOutcome'
  BY DEF ConnectingHasOutcome
<1>3. ConnectedIsRead'
  BY DEF ConnectedIsRead, Receiving
<1>4. NoIdleReads'
  BY DEF NoIdleReads
<1>5. OneReaderInv'
  BY DEF OneReaderInv, Readers, FutureReaders, NoIdleReads, CallInv
<1>6. CallInv'
  BY DEF CallInv
<1> QED
  BY <1>1, <1>2, <1>3, <1>4, <1>5, <1>6

\* ... and connects, in a handler.
LEMMA WorkConnectClient == ClientInv /\ WorkConnect => ClientInv'
<1> SUFFICES ASSUME ClientInv, WorkConnect PROVE ClientInv'
  OBVIOUS
<1> USE StepsAre DEF WorkConnect, Plus, Finish, AsyncConnect, ClientInv, TypeInv, TypeOK
<1>1. TypeInv'
  <2>1. mixed' \in BOOLEAN /\ crossed' \in BOOLEAN
    BY Zenon DEF Crossing
  <2>2. jobs' \in [Steps -> Nat] /\ jobs'["dispatch"] <= 1
    OBVIOUS
  <2> QED
    BY <2>1, <2>2
<1>2. ConnectingHasOutcome'
  BY DEF ConnectingHasOutcome
<1>3. ConnectedIsRead'
  BY DEF ConnectedIsRead, Receiving
<1>4. NoIdleReads'
  BY DEF NoIdleReads
<1>5. OneReaderInv'
  <2> SUFFICES ASSUME ~ crossed' PROVE (Readers + FutureReaders <= 1)'
    BY DEF OneReaderInv
  <2>1. CASE sock = "none"
    <3>1. \A s \in Receiving \cup Starting : ~ (Finish("async")[s] > 0)
      BY <2>1 DEF Crossing
    <3>2. \A s \in {"ok", "start", "data", "dispatch", "bad", "badset", "badclose", "again"} :
             jobs[s] = 0
      BY <3>1 DEF Receiving, Starting
    <3>3. reads = 0
      BY <2>1 DEF NoIdleReads
    <3>4. caller' # "read"
      BY <2>1 DEF CallInv, Crossing
    <3> QED
      BY <2>1, <3>2, <3>3, <3>4 DEF Readers, FutureReaders
  <2>2. CASE sock # "none"
    BY <2>2 DEF OneReaderInv, Readers, FutureReaders, CallInv
  <2> QED
    BY <2>1, <2>2
<1>6. CallInv'
  BY DEF CallInv, Crossing
<1> QED
  BY <1>1, <1>2, <1>3, <1>4, <1>5, <1>6

\* The lock is taken by the only handler that has it.
LEMMA DispatchClient == ClientInv /\ Dispatch => ClientInv'
<1> SUFFICES ASSUME ClientInv, Dispatch PROVE ClientInv'
  OBVIOUS
<1> USE StepsAre DEF Dispatch, Plus, Finish, Move, MutexFree, ClientInv, TypeInv, TypeOK
<1>1. TypeInv'
  OBVIOUS
<1>2. ConnectingHasOutcome'
  BY DEF ConnectingHasOutcome
<1>3. ConnectedIsRead'
  BY DEF ConnectedIsRead, Receiving
<1>4. NoIdleReads'
  BY DEF NoIdleReads
<1>5. OneReaderInv'
  BY DEF OneReaderInv, Readers, FutureReaders, NoIdleReads, CallInv
<1>6. CallInv'
  BY DEF CallInv
<1> QED
  BY <1>1, <1>2, <1>3, <1>4, <1>5, <1>6

\* The handler goes on to read, or to reset the socket first.
LEMMA DispatchedClient == ClientInv /\ Dispatched => ClientInv'
<1> SUFFICES ASSUME ClientInv, Dispatched PROVE ClientInv'
  OBVIOUS
<1> USE StepsAre DEF Dispatched, Plus, Finish, Move, ClientInv, TypeInv, TypeOK
<1>1. TypeInv'
  OBVIOUS
<1>2. ConnectingHasOutcome'
  BY DEF ConnectingHasOutcome
<1>3. ConnectedIsRead'
  BY DEF ConnectedIsRead, Receiving
<1>4. NoIdleReads'
  BY DEF NoIdleReads
<1>5. OneReaderInv'
  BY DEF OneReaderInv, Readers, FutureReaders, NoIdleReads, CallInv
<1>6. CallInv'
  BY DEF CallInv
<1> QED
  BY <1>1, <1>2, <1>3, <1>4, <1>5, <1>6

\* The handler becomes a read, or a handler that reports why not.
LEMMA ReadAgainClient == ClientInv /\ ReadAgain => ClientInv'
<1> SUFFICES ASSUME ClientInv, ReadAgain PROVE ClientInv'
  OBVIOUS
<1> USE StepsAre DEF ReadAgain, Plus, Finish, ReadOn, AsyncRead, ClientInv, TypeInv, TypeOK
<1>1. TypeInv'
  OBVIOUS
<1>2. ConnectingHasOutcome'
  BY DEF ConnectingHasOutcome
<1>3. ConnectedIsRead'
  BY DEF ConnectedIsRead, Receiving
<1>4. NoIdleReads'
  BY DEF NoIdleReads
<1>5. OneReaderInv'
  BY DEF OneReaderInv, Readers, FutureReaders, NoIdleReads, CallInv
<1>6. CallInv'
  BY DEF CallInv
<1> QED
  BY <1>1, <1>2, <1>3, <1>4, <1>5, <1>6

\* on_unpack_error: reset_socket's test, its assignment, and close_socket.
LEMMA UnpackErrorClient == ClientInv /\ UnpackError => ClientInv'
<1> SUFFICES ASSUME ClientInv, UnpackError PROVE ClientInv'
  OBVIOUS
<1> USE StepsAre DEF UnpackError, Plus, Finish, Move, Reset, ClientInv, TypeInv, TypeOK
<1>1. TypeInv'
  OBVIOUS
<1>2. ConnectingHasOutcome'
  BY DEF ConnectingHasOutcome
<1>3. ConnectedIsRead'
  BY DEF ConnectedIsRead, Receiving
<1>4. NoIdleReads'
  BY DEF NoIdleReads
<1>5. OneReaderInv'
  BY DEF OneReaderInv, Readers, FutureReaders, NoIdleReads, CallInv
<1>6. CallInv'
  BY DEF CallInv
<1> QED
  BY <1>1, <1>2, <1>3, <1>4, <1>5, <1>6

\* The assignment.
LEMMA UnpackSetClient == ClientInv /\ UnpackSet => ClientInv'
<1> SUFFICES ASSUME ClientInv, UnpackSet PROVE ClientInv'
  OBVIOUS
<1> USE StepsAre DEF UnpackSet, Plus, Finish, Move, Unconnect, ClientInv, TypeInv, TypeOK
<1>1. TypeInv'
  OBVIOUS
<1>2. ConnectingHasOutcome'
  BY DEF ConnectingHasOutcome
<1>3. ConnectedIsRead'
  BY DEF ConnectedIsRead, Receiving
<1>4. NoIdleReads'
  BY DEF NoIdleReads
<1>5. OneReaderInv'
  BY DEF OneReaderInv, Readers, FutureReaders, NoIdleReads, CallInv
<1>6. CallInv'
  BY DEF CallInv
<1> QED
  BY <1>1, <1>2, <1>3, <1>4, <1>5, <1>6

\* The socket is closed, and the handler goes on to read.
LEMMA UnpackCloseClient == ClientInv /\ UnpackClose => ClientInv'
<1> SUFFICES ASSUME ClientInv, UnpackClose PROVE ClientInv'
  OBVIOUS
<1> USE StepsAre DEF UnpackClose, Plus, Finish, Move, Close, CloseSocket, Abort, ClientInv, TypeInv, TypeOK
<1>1. TypeInv'
  <2>1. mixed' \in BOOLEAN /\ crossed' \in BOOLEAN
    BY Zenon
  <2>2. jobs' \in [Steps -> Nat] /\ jobs'["dispatch"] <= 1
    OBVIOUS
  <2> QED
    BY <2>1, <2>2
<1>2. ConnectingHasOutcome'
  BY DEF ConnectingHasOutcome
<1>3. ConnectedIsRead'
  BY DEF ConnectedIsRead, Receiving
<1>4. NoIdleReads'
  BY DEF NoIdleReads
<1>5. OneReaderInv'
  BY DEF OneReaderInv, Readers, FutureReaders, NoIdleReads, CallInv
<1>6. CallInv'
  BY DEF CallInv
<1> QED
  BY <1>1, <1>2, <1>3, <1>4, <1>5, <1>6

\* on_recv_error: the same test ...
LEMMA RecvErrorClient == ClientInv /\ RecvError => ClientInv'
<1> SUFFICES ASSUME ClientInv, RecvError PROVE ClientInv'
  OBVIOUS
<1> USE StepsAre DEF RecvError, Plus, Finish, Move, Reset, ClientInv, TypeInv, TypeOK
<1>1. TypeInv'
  OBVIOUS
<1>2. ConnectingHasOutcome'
  BY DEF ConnectingHasOutcome
<1>3. ConnectedIsRead'
  BY DEF ConnectedIsRead, Receiving
<1>4. NoIdleReads'
  BY DEF NoIdleReads
<1>5. OneReaderInv'
  BY DEF OneReaderInv, Readers, FutureReaders, NoIdleReads, CallInv
<1>6. CallInv'
  BY DEF CallInv
<1> QED
  BY <1>1, <1>2, <1>3, <1>4, <1>5, <1>6

\* ... the same assignment ...
LEMMA RecvSetClient == ClientInv /\ RecvSet => ClientInv'
<1> SUFFICES ASSUME ClientInv, RecvSet PROVE ClientInv'
  OBVIOUS
<1> USE StepsAre DEF RecvSet, Plus, Finish, Move, Unconnect, ClientInv, TypeInv, TypeOK
<1>1. TypeInv'
  OBVIOUS
<1>2. ConnectingHasOutcome'
  BY DEF ConnectingHasOutcome
<1>3. ConnectedIsRead'
  BY DEF ConnectedIsRead, Receiving
<1>4. NoIdleReads'
  BY DEF NoIdleReads
<1>5. OneReaderInv'
  BY DEF OneReaderInv, Readers, FutureReaders, NoIdleReads, CallInv
<1>6. CallInv'
  BY DEF CallInv
<1> QED
  BY <1>1, <1>2, <1>3, <1>4, <1>5, <1>6

\* ... and the socket is closed.
LEMMA RecvCloseClient == ClientInv /\ RecvClose => ClientInv'
<1> SUFFICES ASSUME ClientInv, RecvClose PROVE ClientInv'
  OBVIOUS
<1> USE StepsAre DEF RecvClose, Plus, Finish, Move, Close, CloseSocket, Abort, ClientInv, TypeInv, TypeOK
<1>1. TypeInv'
  <2>1. mixed' \in BOOLEAN /\ crossed' \in BOOLEAN
    BY Zenon
  <2>2. jobs' \in [Steps -> Nat] /\ jobs'["dispatch"] <= 1
    OBVIOUS
  <2> QED
    BY <2>1, <2>2
<1>2. ConnectingHasOutcome'
  BY DEF ConnectingHasOutcome
<1>3. ConnectedIsRead'
  BY DEF ConnectedIsRead, Receiving
<1>4. NoIdleReads'
  BY DEF NoIdleReads
<1>5. OneReaderInv'
  BY DEF OneReaderInv, Readers, FutureReaders, NoIdleReads, CallInv
<1>6. CallInv'
  BY DEF CallInv
<1> QED
  BY <1>1, <1>2, <1>3, <1>4, <1>5, <1>6

-----------------------------------------------------------------------------
(* The caller.                                                             *)

\* start_connect goes on only in state UNCONNECT.
LEMMA StartConnectClient == ClientInv /\ StartConnect => ClientInv'
<1> SUFFICES ASSUME ClientInv, StartConnect PROVE ClientInv'
  OBVIOUS
<1> USE StepsAre DEF StartConnect, MayConnect, ClientInv, TypeInv, TypeOK
<1>1. TypeInv'
  OBVIOUS
<1>2. ConnectingHasOutcome'
  BY DEF ConnectingHasOutcome
<1>3. ConnectedIsRead'
  BY DEF ConnectedIsRead, Receiving
<1>4. NoIdleReads'
  BY DEF NoIdleReads
<1>5. OneReaderInv'
  BY DEF OneReaderInv, Readers, FutureReaders, NoIdleReads, CallInv
<1>6. CallInv'
  BY DEF CallInv
<1> QED
  BY <1>1, <1>2, <1>3, <1>4, <1>5, <1>6

\* start_work's test, in each of the three states.
LEMMA CallStartWorkClient == ClientInv /\ CallStartWork => ClientInv'
<1> SUFFICES ASSUME ClientInv, CallStartWork PROVE ClientInv'
  OBVIOUS
<1> USE StepsAre DEF CallStartWork, ClientInv, TypeInv, TypeOK
<1>1. TypeInv'
  OBVIOUS
<1>2. ConnectingHasOutcome'
  BY DEF ConnectingHasOutcome
<1>3. ConnectedIsRead'
  BY DEF ConnectedIsRead, Receiving
<1>4. NoIdleReads'
  BY DEF NoIdleReads
<1>5. OneReaderInv'
  BY DEF OneReaderInv, Readers, FutureReaders, NoIdleReads, CallInv
<1>6. CallInv'
  BY DEF CallInv
<1> QED
  BY <1>1, <1>2, <1>3, <1>4, <1>5, <1>6

\* start_work says CONNECTING ...
LEMMA CallBeginClient == ClientInv /\ CallBegin => ClientInv'
<1> SUFFICES ASSUME ClientInv, CallBegin PROVE ClientInv'
  OBVIOUS
<1> USE StepsAre DEF CallBegin, ClientInv, TypeInv, TypeOK
<1>1. TypeInv'
  OBVIOUS
<1>2. ConnectingHasOutcome'
  BY DEF ConnectingHasOutcome
<1>3. ConnectedIsRead'
  BY DEF ConnectedIsRead, Receiving
<1>4. NoIdleReads'
  BY DEF NoIdleReads
<1>5. OneReaderInv'
  BY DEF OneReaderInv, Readers, FutureReaders, NoIdleReads, CallInv
<1>6. CallInv'
  BY DEF CallInv
<1> QED
  BY <1>1, <1>2, <1>3, <1>4, <1>5, <1>6

\* ... and connects: a connect under way, or one that has failed.
LEMMA ConnectClient == ClientInv /\ Connect => ClientInv'
<1> SUFFICES ASSUME ClientInv, Connect PROVE ClientInv'
  OBVIOUS
<1> USE StepsAre DEF Connect, Plus, AsyncConnect, ClientInv, TypeInv, TypeOK
<1>1. TypeInv'
  <2>1. mixed' \in BOOLEAN /\ crossed' \in BOOLEAN
    BY Zenon DEF Crossing
  <2>2. jobs' \in [Steps -> Nat] /\ jobs'["dispatch"] <= 1
    OBVIOUS
  <2> QED
    BY <2>1, <2>2
<1>2. ConnectingHasOutcome'
  BY DEF ConnectingHasOutcome
<1>3. ConnectedIsRead'
  BY DEF ConnectedIsRead, Receiving
<1>4. NoIdleReads'
  BY DEF NoIdleReads
<1>5. OneReaderInv'
  <2> SUFFICES ASSUME ~ crossed' PROVE (Readers + FutureReaders <= 1)'
    BY DEF OneReaderInv
  <2>1. CASE sock = "none"
    <3>1. \A s \in Receiving \cup Starting : ~ (jobs[s] > 0)
      BY <2>1 DEF Crossing
    <3>2. \A s \in {"ok", "start", "data", "dispatch", "bad", "badset", "badclose", "again"} :
             jobs[s] = 0
      BY <3>1 DEF Receiving, Starting
    <3>3. reads = 0
      BY <2>1 DEF NoIdleReads
    <3>4. caller' # "read"
      BY <2>1 DEF CallInv, Crossing
    <3> QED
      BY <2>1, <3>2, <3>3, <3>4 DEF Readers, FutureReaders
  <2>2. CASE sock # "none"
    BY <2>2 DEF OneReaderInv, Readers, FutureReaders, CallInv
  <2> QED
    BY <2>1, <2>2
<1>6. CallInv'
  BY DEF CallInv, Crossing
<1> QED
  BY <1>1, <1>2, <1>3, <1>4, <1>5, <1>6

\* The second reader of a connection that came up under the call.
LEMMA CallReadClient == ClientInv /\ CallRead => ClientInv'
<1> SUFFICES ASSUME ClientInv, CallRead PROVE ClientInv'
  OBVIOUS
<1> USE StepsAre DEF CallRead, Plus, AsyncRead, ClientInv, TypeInv, TypeOK
<1>1. TypeInv'
  OBVIOUS
<1>2. ConnectingHasOutcome'
  BY DEF ConnectingHasOutcome
<1>3. ConnectedIsRead'
  BY DEF ConnectedIsRead, Receiving
<1>4. NoIdleReads'
  BY DEF NoIdleReads
<1>5. OneReaderInv'
  BY DEF OneReaderInv, Readers, FutureReaders, NoIdleReads, CallInv
<1>6. CallInv'
  BY DEF CallInv
<1> QED
  BY <1>1, <1>2, <1>3, <1>4, <1>5, <1>6

\* disconnect: reset_socket's test, its assignment, and close_socket.
LEMMA DisconnectClient == ClientInv /\ Disconnect => ClientInv'
<1> SUFFICES ASSUME ClientInv, Disconnect PROVE ClientInv'
  OBVIOUS
<1> USE StepsAre DEF Disconnect, ClientInv, TypeInv, TypeOK
<1>1. TypeInv'
  OBVIOUS
<1>2. ConnectingHasOutcome'
  BY DEF ConnectingHasOutcome
<1>3. ConnectedIsRead'
  BY DEF ConnectedIsRead, Receiving
<1>4. NoIdleReads'
  BY DEF NoIdleReads
<1>5. OneReaderInv'
  BY DEF OneReaderInv, Readers, FutureReaders, NoIdleReads, CallInv
<1>6. CallInv'
  BY DEF CallInv
<1> QED
  BY <1>1, <1>2, <1>3, <1>4, <1>5, <1>6

\* The assignment.
LEMMA DisconnectSetClient == ClientInv /\ DisconnectSet => ClientInv'
<1> SUFFICES ASSUME ClientInv, DisconnectSet PROVE ClientInv'
  OBVIOUS
<1> USE StepsAre DEF DisconnectSet, ClientInv, TypeInv, TypeOK
<1>1. TypeInv'
  OBVIOUS
<1>2. ConnectingHasOutcome'
  BY DEF ConnectingHasOutcome
<1>3. ConnectedIsRead'
  BY DEF ConnectedIsRead, Receiving
<1>4. NoIdleReads'
  BY DEF NoIdleReads
<1>5. OneReaderInv'
  BY DEF OneReaderInv, Readers, FutureReaders, NoIdleReads, CallInv
<1>6. CallInv'
  BY DEF CallInv
<1> QED
  BY <1>1, <1>2, <1>3, <1>4, <1>5, <1>6

\* The socket is closed.
LEMMA DisconnectCloseClient == ClientInv /\ DisconnectClose => ClientInv'
<1> SUFFICES ASSUME ClientInv, DisconnectClose PROVE ClientInv'
  OBVIOUS
<1> USE StepsAre DEF DisconnectClose, Plus, CloseSocket, Abort, ClientInv, TypeInv, TypeOK
<1>1. TypeInv'
  <2>1. mixed' \in BOOLEAN /\ crossed' \in BOOLEAN
    BY Zenon
  <2>2. jobs' \in [Steps -> Nat] /\ jobs'["dispatch"] <= 1
    OBVIOUS
  <2> QED
    BY <2>1, <2>2
<1>2. ConnectingHasOutcome'
  BY DEF ConnectingHasOutcome
<1>3. ConnectedIsRead'
  BY DEF ConnectedIsRead, Receiving
<1>4. NoIdleReads'
  BY DEF NoIdleReads
<1>5. OneReaderInv'
  BY DEF OneReaderInv, Readers, FutureReaders, NoIdleReads, CallInv
<1>6. CallInv'
  BY DEF CallInv
<1> QED
  BY <1>1, <1>2, <1>3, <1>4, <1>5, <1>6

-----------------------------------------------------------------------------
LEMMA StutterClient == ClientInv /\ UNCHANGED vars => ClientInv'
BY DEF ClientInv, TypeInv, TypeOK, ConnectingHasOutcome, ConnectedIsRead, NoIdleReads,
       OneReaderInv, Readers, FutureReaders, CallInv, vars

LEMMA StepClient == ClientInv /\ [Next]_vars => ClientInv'
<1>1. ASSUME ClientInv, Network PROVE ClientInv'
  BY <1>1, ConnectOkClient, ConnectFailsClient, PeerClosesClient, ArriveClient DEF Network
<1>2. ASSUME ClientInv, Handlers PROVE ClientInv'
  BY <1>2, ConnectedOkClient, ConnectedErrClient, StartWorkClient, WorkBeginClient,
     WorkConnectClient, DispatchClient, DispatchedClient, ReadAgainClient,
     UnpackErrorClient, UnpackSetClient, UnpackCloseClient,
     RecvErrorClient, RecvSetClient, RecvCloseClient DEF Handlers, Working
<1>3. ASSUME ClientInv, Calls PROVE ClientInv'
  BY <1>3, StartConnectClient, CallStartWorkClient, CallBeginClient, ConnectClient,
     CallReadClient, DisconnectClient, DisconnectSetClient, DisconnectCloseClient
  DEF Calls, Connecting, Disconnecting
<1> QED
  BY <1>1, <1>2, <1>3, StutterClient DEF Next

LEMMA ClientInvariant == Spec => []ClientInv
BY InitClient, StepClient, PTL DEF Spec

\* Type correctness, and mutual exclusion on m_recv_mutex, however many handlers
\* pile up.
THEOREM ClientTypeCorrect == Spec => []TypeOK
BY ClientInvariant, PTL DEF ClientInv, TypeInv

\* While the client says CONNECTING, an outcome is still to come.
THEOREM NeverStuckConnecting == Spec => []ConnectingHasOutcome
BY ClientInvariant, PTL DEF ClientInv

\* While the client says CONNECTED, somebody reads or will notice the loss.
THEOREM LossIsNoticed == Spec => []ConnectedIsRead
BY ClientInvariant, PTL DEF ClientInv

\* Two readers of the one buffer only after connections crossed.
THEOREM OnlyCrossedAreTwo == Spec => []OneReader
<1>1. ClientInv => OneReader
  <2> SUFFICES ASSUME ClientInv, ~ crossed PROVE Readers <= 1
    BY DEF OneReader, Readers
  <2> QED
    BY ReadersAreNat DEF ClientInv, OneReaderInv
<1> QED
  BY <1>1, ClientInvariant, PTL

=============================================================================
