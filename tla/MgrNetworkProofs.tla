-------------------------- MODULE MgrNetworkProofs --------------------------
(***************************************************************************)
(* Theorems about MgrNetwork, for every choice of the thresholds, any      *)
(* number of rounds of usb_init and usb_uninit, and any number of handlers. *)
(***************************************************************************)
EXTENDS MgrNetwork, TLAPS

-----------------------------------------------------------------------------
(* The manager is one of the callers TcpClient allows.                     *)

LEMMA ClientStep == Next => Cli!Next \/ UNCHANGED link
<1>1. ConnectOk \/ Outside \/ Handlers \/ Dispatch \/ Dispatched => Cli!Next
  BY DEF ConnectOk, Outside, Handlers, Dispatch, Dispatched, Cli!Next, Cli!Network, Cli!Handlers
<1>2. ASSUME NEW a \in {"user", "worker"}, Call(a) PROVE Cli!Next \/ UNCHANGED link
  BY <1>2 DEF Call, StartConnect, InConnect, Disconnect, InDisconnect, Cli!Next, Cli!Calls
<1>3. Worker \/ UsbInit \/ UsbUninit \/ InCall => UNCHANGED link
  BY DEF Worker, Loop, Work, SendHeartbeat, UsbInit, UsbUninit, InCall, Spawn, WaitInit,
         AssignInitOk, InitReturns, Join, userOnly
<1> QED
  BY <1>1, <1>2, <1>3 DEF Next

\* mgr_network and its two threads call the client only as TcpClient allows:
\* every theorem about TcpClient holds of the whole.
THEOREM ManagerUsesClient == Spec => Cli!Spec
<1>1. Init => Cli!Init
  BY DEF Init
<1>2. [Next]_vars => [Cli!Next]_(Cli!vars)
  BY ClientStep DEF vars, link, Cli!vars
<1> QED
  BY <1>1, <1>2, PTL DEF Spec, Cli!Spec

-----------------------------------------------------------------------------
(* What the manager's invariant needs of the client: its types, and that   *)
(* only Dispatch and Dispatched touch the handler that has m_recv_mutex.   *)

ClientTypes == Cli!TypeOK

\* Nobody enters or leaves sync_dispatch_data.
SameDispatch == jobs'["dispatch"] = jobs["dispatch"]

LEMMA StepsAre ==
    Cli!Steps = {"ok", "err", "start", "begin", "async", "data", "dispatch", "bad", "badset",
                 "badclose", "again", "fail", "failset", "failclose"}
BY DEF Cli!Steps, Cli!Receiving, Cli!Starting

\* A failure or a connect under way adds handlers elsewhere.
LEMMA NetworkTypes ==
    ASSUME ClientTypes, Cli!Network
    PROVE  ClientTypes' /\ SameDispatch
<1> USE StepsAre DEF ClientTypes, Cli!TypeOK, SameDispatch, Cli!Plus, Cli!Abort
<1>1. CASE Cli!ConnectOk
  BY <1>1 DEF Cli!ConnectOk
<1>2. CASE Cli!ConnectFails
  <2>1. mixed' \in BOOLEAN /\ crossed' \in BOOLEAN
    BY <1>2, Zenon DEF Cli!ConnectFails
  <2> QED
    BY <1>2, <2>1 DEF Cli!ConnectFails
<1>3. CASE Cli!PeerCloses
  BY <1>3 DEF Cli!PeerCloses
<1>4. CASE Cli!Arrive
  BY <1>4 DEF Cli!Arrive
<1> QED
  BY <1>1, <1>2, <1>3, <1>4 DEF Cli!Network

LEMMA AsyncReadTypes ==
    ASSUME ClientTypes, NEW j \in [Cli!Steps -> Nat], j["dispatch"] = jobs["dispatch"],
           Cli!AsyncRead(j)
    PROVE  /\ reads' \in Nat /\ sock' = sock
           /\ jobs' \in [Cli!Steps -> Nat] /\ SameDispatch
BY StepsAre DEF ClientTypes, Cli!TypeOK, SameDispatch, Cli!Plus, Cli!AsyncRead

LEMMA AsyncConnectTypes ==
    ASSUME ClientTypes, NEW j \in [Cli!Steps -> Nat], j["dispatch"] = jobs["dispatch"],
           Cli!AsyncConnect(j)
    PROVE  /\ reads' = reads /\ sock' \in {"none", "opening", "up", "down"}
           /\ jobs' \in [Cli!Steps -> Nat] /\ SameDispatch /\ crossed' \in BOOLEAN
<1>1. crossed' \in BOOLEAN
  BY Zenon DEF Cli!AsyncConnect, Cli!Crossing, ClientTypes, Cli!TypeOK
<1> QED
  BY <1>1, StepsAre DEF ClientTypes, Cli!TypeOK, SameDispatch, Cli!Plus, Cli!AsyncConnect

LEMMA CloseTypes ==
    ASSUME ClientTypes, NEW j \in [Cli!Steps -> Nat], j["dispatch"] = jobs["dispatch"],
           Cli!CloseSocket(j)
    PROVE  /\ reads' = 0 /\ sock' = "none" /\ mixed' \in BOOLEAN
           /\ jobs' \in [Cli!Steps -> Nat] /\ SameDispatch
<1>1. mixed' \in BOOLEAN
  BY Zenon DEF Cli!CloseSocket
<1> QED
  BY <1>1, StepsAre
  DEF ClientTypes, Cli!TypeOK, SameDispatch, Cli!Plus, Cli!CloseSocket, Cli!Abort

\* A handler that ends, or goes to a step that is not the dispatch.
LEMMA MoveTypes ==
    ASSUME ClientTypes, NEW s \in Cli!Steps \ {"dispatch"}, jobs[s] > 0,
           NEW t \in Cli!Steps \ {"dispatch"}
    PROVE  /\ Cli!Finish(s) \in [Cli!Steps -> Nat] /\ Cli!Finish(s)["dispatch"] = jobs["dispatch"]
           /\ Cli!Move(s, t) \in [Cli!Steps -> Nat] /\ Cli!Move(s, t)["dispatch"] = jobs["dispatch"]
BY StepsAre DEF ClientTypes, Cli!TypeOK, Cli!Plus, Cli!Finish, Cli!Move

\* The handlers but for those that enter and leave the dispatch.
Quiet ==
    \/ Cli!ConnectedOk \/ Cli!ConnectedErr \/ Cli!Working \/ Cli!ReadAgain
    \/ Cli!UnpackError \/ Cli!UnpackSet \/ Cli!UnpackClose
    \/ Cli!RecvError \/ Cli!RecvSet \/ Cli!RecvClose

LEMMA QuietTypes ==
    ASSUME ClientTypes, Quiet
    PROVE  ClientTypes' /\ SameDispatch
<1> USE StepsAre
<1>1. CASE Cli!ConnectedOk
  <2>1. crossed' \in BOOLEAN
    BY <1>1 DEF Cli!ConnectedOk, ClientTypes, Cli!TypeOK
  <2> QED
    BY <1>1, <2>1, MoveTypes DEF Cli!ConnectedOk, ClientTypes, Cli!TypeOK, SameDispatch
<1>2. CASE Cli!ConnectedErr
  <2>1. mixed' \in BOOLEAN
    BY <1>2 DEF Cli!ConnectedErr, ClientTypes, Cli!TypeOK
  <2> QED
    BY <1>2, <2>1, MoveTypes
    DEF Cli!ConnectedErr, Cli!StatAfterError, ClientTypes, Cli!TypeOK, SameDispatch
<1>3. CASE Cli!StartWork
  BY <1>3, MoveTypes DEF Cli!StartWork, ClientTypes, Cli!TypeOK, SameDispatch
<1>4. CASE Cli!WorkBegin
  BY <1>4, MoveTypes DEF Cli!WorkBegin, ClientTypes, Cli!TypeOK, SameDispatch
<1>5. CASE Cli!WorkConnect
  BY <1>5, MoveTypes, AsyncConnectTypes
  DEF Cli!WorkConnect, ClientTypes, Cli!TypeOK, SameDispatch
<1>6. CASE Cli!ReadAgain
  BY <1>6, MoveTypes, AsyncReadTypes
  DEF Cli!ReadAgain, Cli!ReadOn, ClientTypes, Cli!TypeOK, SameDispatch
<1>7. CASE Cli!UnpackError \/ Cli!RecvError
  BY <1>7, MoveTypes
  DEF Cli!UnpackError, Cli!RecvError, Cli!Reset, ClientTypes, Cli!TypeOK, SameDispatch
<1>8. CASE Cli!UnpackSet \/ Cli!RecvSet
  BY <1>8, MoveTypes
  DEF Cli!UnpackSet, Cli!RecvSet, Cli!Unconnect, ClientTypes, Cli!TypeOK, SameDispatch
<1>9. CASE Cli!UnpackClose
  BY <1>9, MoveTypes, CloseTypes
  DEF Cli!UnpackClose, Cli!Close, ClientTypes, Cli!TypeOK, SameDispatch
<1>10. CASE Cli!RecvClose
  BY <1>10, MoveTypes, CloseTypes
  DEF Cli!RecvClose, Cli!Close, ClientTypes, Cli!TypeOK, SameDispatch
<1> QED
  BY <1>1, <1>2, <1>3, <1>4, <1>5, <1>6, <1>7, <1>8, <1>9, <1>10 DEF Quiet, Cli!Working

LEMMA CallTypes ==
    ASSUME ClientTypes, Cli!Calls
    PROVE  ClientTypes' /\ SameDispatch
<1>1. CASE Cli!StartConnect \/ Cli!CallStartWork \/ Cli!CallBegin
  BY <1>1
  DEF Cli!StartConnect, Cli!CallStartWork, Cli!CallBegin, ClientTypes, Cli!TypeOK, SameDispatch
<1>2. CASE Cli!Connect
  BY <1>2, AsyncConnectTypes DEF Cli!Connect, ClientTypes, Cli!TypeOK, SameDispatch
<1>3. CASE Cli!CallRead
  BY <1>3, AsyncReadTypes DEF Cli!CallRead, ClientTypes, Cli!TypeOK, SameDispatch
<1>4. CASE Cli!Disconnect \/ Cli!DisconnectSet
  BY <1>4 DEF Cli!Disconnect, Cli!DisconnectSet, ClientTypes, Cli!TypeOK, SameDispatch
<1>5. CASE Cli!DisconnectClose
  BY <1>5, CloseTypes DEF Cli!DisconnectClose, ClientTypes, Cli!TypeOK, SameDispatch
<1> QED
  BY <1>1, <1>2, <1>3, <1>4, <1>5 DEF Cli!Calls, Cli!Connecting, Cli!Disconnecting

LEMMA DispatchTypes ==
    ASSUME ClientTypes
    PROVE  /\ Cli!Dispatch => ClientTypes' /\ jobs["dispatch"] = 0 /\ jobs'["dispatch"] = 1
           /\ Cli!Dispatched => ClientTypes' /\ jobs["dispatch"] = 1 /\ jobs'["dispatch"] = 0
BY StepsAre DEF ClientTypes, Cli!TypeOK, Cli!Dispatch, Cli!Dispatched, Cli!MutexFree,
   Cli!Plus, Cli!Finish, Cli!Move

-----------------------------------------------------------------------------
(* The inductive invariant.                                                *)

AllSteps == UserSteps \cup WorkerSteps \cup CallSteps

Types ==
    /\ ClientTypes
    /\ age \in 0 .. DropAfter + 1
    /\ pc \in [{"user", "worker"} -> AllSteps]
    /\ pc.user \in UserSteps \cup CallSteps /\ pc.worker \in WorkerSteps \cup CallSteps
    /\ m_init_semph \in Nat /\ ninit \in 0 .. MaxInit
    /\ result \in {"none", "USB_ERR_NONE", "USB_ERR_NETWORK"} /\ spoke \in {"no", "yes", "told"}

Flags ==
    /\ m_work_sign \in BOOLEAN /\ m_init_ok \in BOOLEAN /\ owed \in BOOLEAN
    /\ waited \in BOOLEAN /\ unprobed \in BOOLEAN

\* While the user has a call of the client before it, or is about to start the
\* worker, no worker runs; a worker runs because it was told to, or is joined.
CallerInv ==
    /\ pc.user \in CallSteps \cup {"spawn"} => pc.worker = "none"
    /\ m_work_sign => pc.user \in {"idle", "wait", "assign", "settle"}
    /\ pc.worker # "none" => m_work_sign \/ pc.user = "join"

\* usb_init has not assigned m_init_ok yet.
BeforeAssign == pc.user \in {"connect", "connecting", "spawn", "wait", "assign"}

One(b) == IF b THEN 1 ELSE 0

\* Every token, owed or posted, or still to be posted because m_init_ok is
\* false, belongs to an assignment of usb_init, or to the initial value.
TokenInv ==
    /\ owed => jobs["dispatch"] = 1
    /\ m_init_semph + One(owed) + One(~ m_init_ok) + One(BeforeAssign) <= ninit + 1

\* Before the first usb_init nothing is connected, so nothing is announced;
\* during it, only a packet announces.
NothingYet ==
    /\ sock = "none" /\ reads = 0 /\ caller = "idle"
    /\ \A s \in Cli!Steps : jobs[s] = 0
    /\ pc.user = "idle" /\ pc.worker = "none" /\ ~ m_work_sign

Announced == m_init_ok \/ owed \/ m_init_semph > 0 \/ waited

FirstInv ==
    /\ ninit = 0 => NothingYet /\ ~ Announced
    /\ ninit = 1 /\ ((Initializing /\ Announced) \/ result = "USB_ERR_NONE") => spoke # "no"

MgrInv == Types /\ Flags /\ CallerInv /\ TokenInv /\ FirstInv

LEMMA InitMgr == Init => MgrInv
<1> SUFFICES ASSUME Init PROVE MgrInv
  OBVIOUS
<1> USE ManagerAssumption, StepsAre DEF Init, Cli!Init
<1>1. ClientTypes
  <2>1. jobs \in [Cli!Steps -> Nat] /\ jobs["dispatch"] <= 1
    OBVIOUS
  <2> QED
    BY <2>1 DEF ClientTypes, Cli!TypeOK
<1>2. Types
  BY <1>1 DEF Types, AllSteps, UserSteps, WorkerSteps
<1>3. Flags
  BY DEF Flags
<1>4. CallerInv
  BY DEF CallerInv, CallSteps
<1>5. TokenInv
  BY DEF TokenInv, BeforeAssign, One
<1>6. FirstInv
  BY DEF FirstInv, NothingYet, Announced, Initializing
<1> QED
  BY <1>2, <1>3, <1>4, <1>5, <1>6 DEF MgrInv

-----------------------------------------------------------------------------
(* Each action preserves the invariant.                                    *)

LEMMA NothingMoves ==
    NothingYet => ~ (Cli!Network \/ Quiet \/ Cli!Dispatch \/ Cli!Dispatched)
BY StepsAre
DEF NothingYet, Quiet, Cli!Network, Cli!ConnectOk, Cli!ConnectFails, Cli!PeerCloses, Cli!Arrive,
    Cli!ConnectedOk, Cli!ConnectedErr, Cli!Working, Cli!StartWork, Cli!WorkBegin, Cli!WorkConnect,
    Cli!ReadAgain, Cli!UnpackError, Cli!UnpackSet, Cli!UnpackClose, Cli!RecvError, Cli!RecvSet,
    Cli!RecvClose, Cli!Reset, Cli!Unconnect, Cli!Close, Cli!Dispatch, Cli!Dispatched

\* The network, and the handlers that hand nothing up.
LEMMA LinkMgr ==
    ASSUME MgrInv, Cli!Network \/ Quiet, unprobed' \in BOOLEAN,
           UNCHANGED <<age, m_work_sign, pc, initVars, userVars, spoke>>
    PROVE  MgrInv'
<1> USE DEF MgrInv, initVars, userVars
<1>1. ClientTypes' /\ SameDispatch
  BY NetworkTypes, QuietTypes DEF Types
<1>2. Types'
  BY <1>1 DEF Types
<1>3. Flags'
  BY DEF Flags
<1>4. CallerInv'
  BY DEF CallerInv
<1>5. TokenInv'
  BY <1>1 DEF TokenInv, SameDispatch, BeforeAssign, One
<1>6. FirstInv'
  BY NothingMoves DEF FirstInv, Announced, Initializing
<1> QED
  BY <1>2, <1>3, <1>4, <1>5, <1>6

LEMMA DispatchMgr == ASSUME MgrInv, Dispatch PROVE MgrInv'
<1> USE DEF MgrInv, Dispatch, userVars
<1> PICK parsed \in BOOLEAN :
      /\ spoke' = IF parsed /\ spoke = "no" /\ Initializing THEN "yes" ELSE spoke
      /\ m_init_ok' = (m_init_ok \/ parsed)
      /\ owed' = (parsed /\ Unannounced)
  OBVIOUS
<1>1. ClientTypes' /\ jobs["dispatch"] = 0 /\ jobs'["dispatch"] = 1
  BY DispatchTypes DEF Types
<1>2. Types'
  BY <1>1, ManagerAssumption DEF Types
<1>3. Flags'
  BY Zenon DEF Flags, Unannounced
<1>4. CallerInv'
  BY DEF CallerInv
<1>5. TokenInv'
  BY <1>1 DEF TokenInv, BeforeAssign, One, Unannounced, Types, Flags
<1>6. FirstInv'
  BY NothingMoves DEF FirstInv, Announced, Initializing, Types
<1> QED
  BY <1>2, <1>3, <1>4, <1>5, <1>6

LEMMA DispatchedMgr == ASSUME MgrInv, Dispatched PROVE MgrInv'
<1> USE DEF MgrInv, Dispatched, userVars, clock
<1>1. ClientTypes'
  BY DispatchTypes DEF Types
<1>2. Types'
  BY <1>1 DEF Types
<1>3. Flags'
  BY DEF Flags
<1>4. CallerInv'
  BY DEF CallerInv
<1>5. TokenInv'
  BY DEF TokenInv, BeforeAssign, One, Types, Flags
<1>6. FirstInv'
  BY NothingMoves DEF FirstInv, Announced, Initializing, Types
<1> QED
  BY <1>2, <1>3, <1>4, <1>5, <1>6

\* A call of the client moves its caller only from one call step to the next,
\* or back to where the call returns to.
LEMMA CallMgr == ASSUME MgrInv, NEW a \in {"user", "worker"}, Call(a) PROVE MgrInv'
<1> USE DEF MgrInv
<1>1. /\ UNCHANGED <<age, m_work_sign, initVars, userVars, spoke>>
      /\ pc[a] \in CallSteps
      /\ \E step \in CallSteps \cup {Connected(a), Dropped(a)} :
            /\ pc' = [pc EXCEPT ![a] = step]
            /\ pc[a] \in {"connect", "connecting"} => step \in {"connecting", Connected(a)}
            /\ pc[a] \in {"drop", "dropping"} => step \in {"dropping", Dropped(a)}
  BY SMTT(20) DEF Call, StartConnect, InConnect, Disconnect, InDisconnect, callOnly, clock, Go,
     CallSteps
<1>2. PICK step \in CallSteps \cup {Connected(a), Dropped(a)} :
            /\ pc' = [pc EXCEPT ![a] = step]
            /\ pc[a] \in {"connect", "connecting"} => step \in {"connecting", Connected(a)}
            /\ pc[a] \in {"drop", "dropping"} => step \in {"dropping", Dropped(a)}
  BY <1>1
<1>3. ClientTypes' /\ SameDispatch
  <2>1. Cli!Calls \/ UNCHANGED link
    BY DEF Call, StartConnect, InConnect, Disconnect, InDisconnect, Cli!Calls
  <2>2. CASE Cli!Calls
    BY <2>2, CallTypes DEF Types
  <2>3. CASE UNCHANGED link
    BY <2>3 DEF Types, ClientTypes, Cli!TypeOK, SameDispatch, link
  <2> QED
    BY <2>1, <2>2, <2>3
<1>4. Types'
  BY <1>1, <1>2, <1>3 DEF Types, clock, initVars, userVars, AllSteps, UserSteps, WorkerSteps,
     CallSteps, Connected, Dropped
<1>5. Flags'
  <2>1. unprobed' \in BOOLEAN
    BY Zenon DEF Flags, Call, StartConnect, InConnect, Disconnect, InDisconnect, callOnly, clock, Forget
  <2> QED
    BY <1>1, <2>1 DEF Flags, initVars, userVars
<1>6. CallerInv'
  <2>1. CASE a = "user"
    BY <1>1, <1>2, <2>1 DEF CallerInv, Types, CallSteps, Connected, Dropped
  <2>2. CASE a = "worker"
    BY <1>1, <1>2, <2>2 DEF CallerInv, Types, CallSteps, Connected, Dropped
  <2> QED
    BY <2>1, <2>2
<1>7. TokenInv'
  <2>1. BeforeAssign' => BeforeAssign
    BY <1>1, <1>2 DEF BeforeAssign, Types, CallSteps, Connected, Dropped
  <2> QED
    BY <1>1, <1>3, <2>1 DEF TokenInv, One, SameDispatch, Types, Flags, initVars, userVars
<1>8. FirstInv'
  <2>1. ninit # 0
    BY <1>1 DEF FirstInv, NothingYet, CallSteps
  <2>2. Initializing' => Initializing
    BY <1>1, <1>2 DEF Initializing, Types, CallSteps, Connected, Dropped
  <2> QED
    BY <1>1, <2>1, <2>2 DEF FirstInv, Announced, initVars, userVars
<1> QED
  BY <1>4, <1>5, <1>6, <1>7, <1>8

LEMMA LoopMgr == ASSUME MgrInv, Loop PROVE MgrInv'
<1> USE DEF MgrInv, Loop, Go, callOnly, GoOn, link, clock, initVars, userVars
<1>1. ClientTypes'
  BY DEF Types, ClientTypes, Cli!TypeOK
<1>2. Types'
  BY <1>1, ManagerAssumption DEF Types, AllSteps, UserSteps, WorkerSteps, CallSteps
<1>3. Flags'
  BY DEF Flags
<1>4. CallerInv'
  BY DEF CallerInv, CallSteps, Types
<1>5. TokenInv'
  BY DEF TokenInv, BeforeAssign, One, Types, Flags
<1>6. FirstInv'
  BY DEF FirstInv, NothingYet, Announced, Initializing, Types
<1> QED
  BY <1>2, <1>3, <1>4, <1>5, <1>6

LEMMA WorkMgr == ASSUME MgrInv, Work PROVE MgrInv'
<1> USE DEF MgrInv, Work, Go, Decision, link, clock, initVars, userVars
<1>1. ClientTypes'
  BY DEF Types, ClientTypes, Cli!TypeOK
<1>2. Types'
  BY <1>1, ManagerAssumption DEF Types, AllSteps, UserSteps, WorkerSteps, CallSteps
<1>3. Flags'
  BY DEF Flags
<1>4. CallerInv'
  BY DEF CallerInv, CallSteps, Types
<1>5. TokenInv'
  BY DEF TokenInv, BeforeAssign, One, Types, Flags
<1>6. FirstInv'
  BY DEF FirstInv, NothingYet, Announced, Initializing, Types
<1> QED
  BY <1>2, <1>3, <1>4, <1>5, <1>6

LEMMA SendHeartbeatMgr == ASSUME MgrInv, SendHeartbeat PROVE MgrInv'
<1> USE DEF MgrInv, SendHeartbeat, Go, link, clock, initVars, userVars
<1>1. ClientTypes'
  BY DEF Types, ClientTypes, Cli!TypeOK
<1>2. Types'
  BY <1>1, ManagerAssumption DEF Types, AllSteps, UserSteps, WorkerSteps, CallSteps
<1>3. Flags'
  BY DEF Flags
<1>4. CallerInv'
  BY DEF CallerInv, CallSteps, Types
<1>5. TokenInv'
  BY DEF TokenInv, BeforeAssign, One, Types, Flags
<1>6. FirstInv'
  BY DEF FirstInv, NothingYet, Announced, Initializing, Types
<1> QED
  BY <1>2, <1>3, <1>4, <1>5, <1>6

LEMMA UsbInitMgr == ASSUME MgrInv, UsbInit PROVE MgrInv'
<1> USE DEF MgrInv, UsbInit, Go, userOnly, link, clock, initVars, userVars
<1>1. ClientTypes'
  BY DEF Types, ClientTypes, Cli!TypeOK
<1>2. Types'
  BY <1>1, ManagerAssumption DEF Types, AllSteps, UserSteps, WorkerSteps, CallSteps
<1>3. Flags'
  BY DEF Flags
<1>4. CallerInv'
  BY DEF CallerInv, CallSteps, Types
<1>5. TokenInv'
  BY DEF TokenInv, BeforeAssign, One, Types, Flags
<1>6. FirstInv'
  BY DEF FirstInv, NothingYet, Announced, Initializing, Types
<1> QED
  BY <1>2, <1>3, <1>4, <1>5, <1>6

LEMMA SpawnMgr == ASSUME MgrInv, Spawn PROVE MgrInv'
<1> USE DEF MgrInv, Spawn, link, clock, initVars, userVars
<1>1. ClientTypes'
  BY DEF Types, ClientTypes, Cli!TypeOK
<1>2. Types'
  BY <1>1, ManagerAssumption DEF Types, AllSteps, UserSteps, WorkerSteps, CallSteps
<1>3. Flags'
  BY DEF Flags
<1>4. CallerInv'
  BY DEF CallerInv, CallSteps, Types
<1>5. TokenInv'
  BY DEF TokenInv, BeforeAssign, One, Types, Flags
<1>6. FirstInv'
  BY DEF FirstInv, NothingYet, Announced, Initializing, Types
<1> QED
  BY <1>2, <1>3, <1>4, <1>5, <1>6

LEMMA WaitInitMgr == ASSUME MgrInv, WaitInit PROVE MgrInv'
<1> USE DEF MgrInv, WaitInit, Go, userOnly, GivesUp, Posted, link, clock, initVars, userVars
<1>1. ClientTypes'
  BY DEF Types, ClientTypes, Cli!TypeOK
<1>2. Types'
  BY <1>1, ManagerAssumption DEF Types, AllSteps, UserSteps, WorkerSteps, CallSteps
<1>3. Flags'
  BY DEF Flags
<1>4. CallerInv'
  BY DEF CallerInv, CallSteps, Types
<1>5. TokenInv'
  BY DEF TokenInv, BeforeAssign, One, Types, Flags
<1>6. FirstInv'
  BY DEF FirstInv, NothingYet, Announced, Initializing, Types
<1> QED
  BY <1>2, <1>3, <1>4, <1>5, <1>6

LEMMA AssignInitOkMgr == ASSUME MgrInv, AssignInitOk PROVE MgrInv'
<1> USE DEF MgrInv, AssignInitOk, Go, userOnly, link, clock, initVars, userVars
<1>1. ClientTypes'
  BY DEF Types, ClientTypes, Cli!TypeOK
<1>2. Types'
  BY <1>1, ManagerAssumption DEF Types, AllSteps, UserSteps, WorkerSteps, CallSteps
<1>3. Flags'
  BY DEF Flags
<1>4. CallerInv'
  BY DEF CallerInv, CallSteps, Types
<1>5. TokenInv'
  BY DEF TokenInv, BeforeAssign, One, Types, Flags
<1>6. FirstInv'
  BY DEF FirstInv, NothingYet, Announced, Initializing, Types
<1> QED
  BY <1>2, <1>3, <1>4, <1>5, <1>6

LEMMA InitReturnsMgr == ASSUME MgrInv, InitReturns PROVE MgrInv'
<1> USE DEF MgrInv, InitReturns, Go, userOnly, link, clock, initVars, userVars
<1>1. ClientTypes'
  BY DEF Types, ClientTypes, Cli!TypeOK
<1>2. Types'
  BY <1>1, ManagerAssumption DEF Types, AllSteps, UserSteps, WorkerSteps, CallSteps
<1>3. Flags'
  BY DEF Flags
<1>4. CallerInv'
  BY DEF CallerInv, CallSteps, Types
<1>5. TokenInv'
  BY DEF TokenInv, BeforeAssign, One, Types, Flags
<1>6. FirstInv'
  BY DEF FirstInv, NothingYet, Announced, Initializing, Types
<1> QED
  BY <1>2, <1>3, <1>4, <1>5, <1>6

LEMMA UsbUninitMgr == ASSUME MgrInv, UsbUninit PROVE MgrInv'
<1> USE DEF MgrInv, UsbUninit, Go, userOnly, link, clock, initVars, userVars
<1>1. ClientTypes'
  BY DEF Types, ClientTypes, Cli!TypeOK
<1>2. Types'
  BY <1>1, ManagerAssumption DEF Types, AllSteps, UserSteps, WorkerSteps, CallSteps
<1>3. Flags'
  BY DEF Flags
<1>4. CallerInv'
  BY DEF CallerInv, CallSteps, Types
<1>5. TokenInv'
  BY DEF TokenInv, BeforeAssign, One, Types, Flags
<1>6. FirstInv'
  BY DEF FirstInv, NothingYet, Announced, Initializing, Types
<1> QED
  BY <1>2, <1>3, <1>4, <1>5, <1>6

LEMMA JoinMgr == ASSUME MgrInv, Join PROVE MgrInv'
<1> USE DEF MgrInv, Join, Go, userOnly, WorkerEnded, link, clock, initVars, userVars
<1>1. ClientTypes'
  BY DEF Types, ClientTypes, Cli!TypeOK
<1>2. Types'
  BY <1>1, ManagerAssumption DEF Types, AllSteps, UserSteps, WorkerSteps, CallSteps
<1>3. Flags'
  BY DEF Flags
<1>4. CallerInv'
  BY DEF CallerInv, CallSteps, Types
<1>5. TokenInv'
  BY DEF TokenInv, BeforeAssign, One, Types, Flags
<1>6. FirstInv'
  BY DEF FirstInv, NothingYet, Announced, Initializing, Types
<1> QED
  BY <1>2, <1>3, <1>4, <1>5, <1>6

LEMMA StutterMgr == ASSUME MgrInv, UNCHANGED vars PROVE MgrInv'
<1> USE DEF MgrInv, vars, link, clock, initVars, userVars
<1>1. ClientTypes'
  BY DEF Types, ClientTypes, Cli!TypeOK
<1>2. Types'
  BY <1>1 DEF Types
<1>3. Flags' /\ CallerInv'
  BY DEF Flags, CallerInv
<1>4. TokenInv'
  BY DEF TokenInv, BeforeAssign
<1>5. FirstInv'
  BY DEF FirstInv, NothingYet, Announced, Initializing
<1> QED
  BY <1>2, <1>3, <1>4, <1>5

LEMMA NextMgr == MgrInv /\ [Next]_vars => MgrInv'
<1> SUFFICES ASSUME MgrInv, [Next]_vars PROVE MgrInv'
  OBVIOUS
<1>1. CASE ConnectOk \/ Outside \/ Handlers
  <2>1. /\ Cli!Network \/ Quiet
        /\ UNCHANGED <<age, m_work_sign, pc, initVars, userVars, spoke>>
    BY <1>1 DEF ConnectOk, Outside, Handlers, Cli!Network, Quiet
  <2>2. unprobed' \in BOOLEAN
    BY <1>1, Zenon DEF ConnectOk, Outside, Handlers, Forget, MgrInv, Flags
  <2> QED
    BY <2>1, <2>2, LinkMgr
<1>2. CASE Dispatch \/ Dispatched
  BY <1>2, DispatchMgr, DispatchedMgr
<1>3. CASE Worker \/ Call("worker")
  BY <1>3, LoopMgr, WorkMgr, SendHeartbeatMgr, CallMgr DEF Worker
<1>4. CASE UsbInit \/ UsbUninit
  BY <1>4, UsbInitMgr, UsbUninitMgr
<1>5. CASE InCall \/ Call("user")
  BY <1>5, SpawnMgr, WaitInitMgr, AssignInitOkMgr, InitReturnsMgr, JoinMgr, CallMgr DEF InCall
<1>6. CASE UNCHANGED vars
  BY <1>6, StutterMgr
<1> QED
  BY <1>1, <1>2, <1>3, <1>4, <1>5, <1>6 DEF Next

LEMMA AlwaysMgr == Spec => []MgrInv
  BY InitMgr, NextMgr, PTL DEF Spec

-----------------------------------------------------------------------------
(* What follows from it.                                                   *)

\* Every variable of mgr_network, its threads and its client keeps its type,
\* and usb_init is called no more often than the model's bound allows.
THEOREM NetworkTypeCorrect == Spec => []TypeOK
<1>1. MgrInv => TypeOK
  <2>1. ASSUME MgrInv PROVE \A b \in {m_work_sign, m_init_ok, owed, waited, unprobed} :
                               b \in BOOLEAN
    BY <2>1 DEF MgrInv, Flags
  <2> QED
    BY <2>1 DEF MgrInv, Types, ClientTypes, TypeOK
<1> QED
  BY <1>1, AlwaysMgr, PTL

\* However often usb_init and usb_uninit are called, the user and the worker
\* are never inside the client at the same time: stop_work joins the worker
\* before it disconnects, start_work connects before it starts the worker.
THEOREM OneCallerAtATime == Spec => []OneCaller
<1>1. MgrInv => OneCaller
  BY DEF MgrInv, CallerInv, OneCaller, CallSteps
<1> QED
  BY <1>1, AlwaysMgr, PTL

\* m_init_semph is posted only when m_init_ok turns true, which only an
\* assignment of usb_init can undo: its tokens do not pile up.
THEOREM TokensDoNotPileUp == Spec => []TokensBounded
<1>1. MgrInv => TokensBounded
  BY DEF MgrInv, Types, Flags, TokenInv, One, TokensBounded
<1> QED
  BY <1>1, AlwaysMgr, PTL

\* The first usb_init succeeds only if a packet of the device manager was
\* parsed since it began, whichever token and flag it looked at.
THEOREM FirstInitTellsTheTruth == Spec => []FirstInitIsTrue
<1>1. MgrInv => FirstInitIsTrue
  BY DEF MgrInv, FirstInv, FirstInitIsTrue
<1> QED
  BY <1>1, AlwaysMgr, PTL

-----------------------------------------------------------------------------
(* No connection is given up for its silence before the heartbeat stage    *)
(* was reached on it, for every choice of the thresholds.                  *)

\* The client with its theorems.
CliProofs == INSTANCE TcpClientProofs

-----------------------------------------------------------------------------
(* The inductive invariant.                                                *)

\* What was heard came on the socket that is open, and on the newest one: no
\* other waits for its handler.
HeardIsNewest ==
    /\ unprobed => sock = "up"
    /\ unprobed /\ ~ crossed => jobs["ok"] = 0

\* A connection that work() may find silent, and what the worker knows of it:
\* unless send_heartbeat is about to be called, work() has not run since the
\* silence became too long.
Silent == unprobed /\ ~ crossed /\ m_connect_stat = "CONNECTED"

BeatInTime ==
    Silent /\ pc.worker # "none" =>
        \/ age <= BeatAfter
        \/ age = BeatAfter + 1 /\ pc.worker = "beat"

BeatInv == MgrInv /\ CliProofs!ClientInv /\ HeardIsNewest /\ BeatInTime

-----------------------------------------------------------------------------
(* What a step of the client leaves as it was.                             *)

\* But for a connect that succeeds, no connection comes up and no handler of a
\* new one; on the open socket a crossing is not forgotten, and the client says
\* CONNECTED anew only when such a handler runs.
NothingNew ==
    /\ sock' = "up" => sock = "up" /\ (crossed => crossed')
    /\ jobs["ok"] = 0 => jobs'["ok"] = 0
    /\ m_connect_stat' = "CONNECTED" => m_connect_stat = "CONNECTED" \/ jobs["ok"] > 0

LEMMA NetworkKeeps ==
    ASSUME ClientTypes, Cli!ConnectFails \/ Cli!PeerCloses \/ Cli!Arrive
    PROVE  NothingNew
<1> USE StepsAre DEF ClientTypes, Cli!TypeOK, NothingNew, Cli!Plus, Cli!Abort
<1>1. CASE Cli!ConnectFails
  BY <1>1 DEF Cli!ConnectFails
<1>2. CASE Cli!PeerCloses
  BY <1>2 DEF Cli!PeerCloses
<1>3. CASE Cli!Arrive
  BY <1>3 DEF Cli!Arrive
<1> QED
  BY <1>1, <1>2, <1>3

\* What asio's operations do to the handlers of new connections.
LEMMA OperationsKeep ==
    ASSUME ClientTypes, NEW j \in [Cli!Steps -> Nat]
    PROVE  /\ Cli!AsyncRead(j) => jobs'["ok"] = j["ok"] /\ sock' = sock
           /\ Cli!AsyncConnect(j) => /\ jobs'["ok"] = j["ok"]
                                     /\ sock' = "up" => sock = "up" /\ (crossed => crossed')
                                     /\ sock = "up" => sock' = "up"
           /\ Cli!CloseSocket(j) => jobs'["ok"] = j["ok"] /\ sock' # "up"
BY StepsAre DEF ClientTypes, Cli!TypeOK, Cli!Plus, Cli!Abort, Cli!AsyncRead, Cli!AsyncConnect,
   Cli!CloseSocket

\* A handler that ends, or goes on to another step, leaves no new connection.
LEMMA MoveKeeps ==
    ASSUME ClientTypes, NEW s \in Cli!Steps, jobs[s] > 0, NEW t \in Cli!Steps \ {"ok"}
    PROVE  /\ Cli!Finish(s) \in [Cli!Steps -> Nat] /\ Cli!Move(s, t) \in [Cli!Steps -> Nat]
           /\ s # "ok" => Cli!Finish(s)["ok"] = jobs["ok"] /\ Cli!Move(s, t)["ok"] = jobs["ok"]
BY StepsAre DEF ClientTypes, Cli!TypeOK, Cli!Plus, Cli!Finish, Cli!Move

LEMMA QuietKeeps ==
    ASSUME ClientTypes, Quiet
    PROVE  NothingNew
<1> USE StepsAre DEF NothingNew
<1>1. CASE Cli!ConnectedOk
  <2>1. crossed => crossed'
    BY <1>1 DEF Cli!ConnectedOk, ClientTypes, Cli!TypeOK
  <2>2. jobs["ok"] > 0 /\ sock' = sock
    BY <1>1 DEF Cli!ConnectedOk
  <2> QED
    BY <2>1, <2>2
<1>2. CASE Cli!ConnectedErr
  BY <1>2, MoveKeeps DEF Cli!ConnectedErr, Cli!StatAfterError
<1>3. CASE Cli!StartWork
  BY <1>3, MoveKeeps DEF Cli!StartWork, ClientTypes, Cli!TypeOK
<1>4. CASE Cli!WorkBegin
  BY <1>4, MoveKeeps DEF Cli!WorkBegin
<1>5. CASE Cli!WorkConnect
  BY <1>5, MoveKeeps, OperationsKeep DEF Cli!WorkConnect
<1>6. CASE Cli!ReadAgain
  BY <1>6, MoveKeeps, OperationsKeep DEF Cli!ReadAgain, Cli!ReadOn
<1>7. CASE Cli!UnpackError \/ Cli!RecvError
  BY <1>7, MoveKeeps DEF Cli!UnpackError, Cli!RecvError, Cli!Reset
<1>8. CASE Cli!UnpackSet \/ Cli!RecvSet
  BY <1>8, MoveKeeps DEF Cli!UnpackSet, Cli!RecvSet, Cli!Unconnect
<1>9. CASE Cli!UnpackClose
  BY <1>9, MoveKeeps, OperationsKeep DEF Cli!UnpackClose, Cli!Close
<1>10. CASE Cli!RecvClose
  BY <1>10, MoveKeeps, OperationsKeep DEF Cli!RecvClose, Cli!Close
<1> QED
  BY <1>1, <1>2, <1>3, <1>4, <1>5, <1>6, <1>7, <1>8, <1>9, <1>10 DEF Quiet, Cli!Working

\* The caller inside start_connect closes no socket.
LEMMA CallKeeps ==
    ASSUME ClientTypes, Cli!Calls
    PROVE  /\ NothingNew
           /\ Cli!StartConnect \/ Cli!Connecting \/ Cli!Disconnect => (sock = "up" => sock' = "up")
<1> USE DEF NothingNew
<1>1. jobs \in [Cli!Steps -> Nat]
  BY DEF ClientTypes, Cli!TypeOK
<1>2. CASE Cli!StartConnect \/ Cli!CallStartWork \/ Cli!CallBegin
  BY <1>2 DEF Cli!StartConnect, Cli!CallStartWork, Cli!CallBegin
<1>3. CASE Cli!Connect
  BY <1>1, <1>3, OperationsKeep DEF Cli!Connect
<1>4. CASE Cli!CallRead
  BY <1>1, <1>4, OperationsKeep DEF Cli!CallRead
<1>5. CASE Cli!Disconnect \/ Cli!DisconnectSet
  BY <1>5 DEF Cli!Disconnect, Cli!DisconnectSet
<1>6. CASE Cli!DisconnectClose
  <2>1. NothingNew
    BY <1>1, <1>6, OperationsKeep DEF Cli!DisconnectClose
  <2>2. caller = "close"
    BY <1>6 DEF Cli!DisconnectClose
  <2>3. ~ (Cli!StartConnect \/ Cli!Connecting \/ Cli!Disconnect)
    BY <2>2 DEF Cli!StartConnect, Cli!Connecting, Cli!CallStartWork, Cli!CallBegin, Cli!Connect,
       Cli!CallRead, Cli!Disconnect
  <2> QED
    BY <2>1, <2>3
<1> QED
  BY <1>2, <1>3, <1>4, <1>5, <1>6 DEF Cli!Calls, Cli!Connecting, Cli!Disconnecting

LEMMA DispatchKeeps ==
    ASSUME ClientTypes, Cli!Dispatch \/ Cli!Dispatched
    PROVE  NothingNew /\ sock' = sock
BY StepsAre, MoveKeeps DEF NothingNew, Cli!Dispatch, Cli!Dispatched

-----------------------------------------------------------------------------
(* The client's own invariant holds of the whole.                          *)

\* CliProofs has the operators of TcpClient under names of its own.
LEMMA SameSum ==
    /\ Cli!SumFunction(jobs) = CliProofs!SumFunction(jobs)
    /\ \A S : Cli!SumFunctionOnSet(jobs, S) = CliProofs!SumFunctionOnSet(jobs, S)
BY DEF Cli!SumFunction, CliProofs!SumFunction, Cli!SumFunctionOnSet, CliProofs!SumFunctionOnSet,
    Cli!FoldFunctionOnSet, CliProofs!FoldFunctionOnSet, Cli!MapThenFoldSet,
    CliProofs!MapThenFoldSet

LEMMA SameNetwork == Cli!Network => CliProofs!Network
BY SameSum
DEF Cli!Network, CliProofs!Network, Cli!ConnectOk, CliProofs!ConnectOk, Cli!ConnectFails,
    CliProofs!ConnectFails, Cli!PeerCloses, CliProofs!PeerCloses, Cli!Arrive, CliProofs!Arrive,
    Cli!Abort, CliProofs!Abort, Cli!Plus, CliProofs!Plus

LEMMA SameHandlers == Cli!Handlers => CliProofs!Handlers
<1> USE DEF Cli!Plus, CliProofs!Plus, Cli!Finish, CliProofs!Finish, Cli!Move, CliProofs!Move,
            Cli!Steps, CliProofs!Steps, Cli!Receiving, CliProofs!Receiving, Cli!Starting,
            CliProofs!Starting
<1>1. Cli!ConnectedOk \/ Cli!ConnectedErr => CliProofs!ConnectedOk \/ CliProofs!ConnectedErr
  BY DEF Cli!ConnectedOk, CliProofs!ConnectedOk, Cli!ConnectedErr, CliProofs!ConnectedErr,
      Cli!StatAfterError, CliProofs!StatAfterError, Cli!Newer, CliProofs!Newer
<1>2. Cli!Working => CliProofs!Working
  BY DEF Cli!Working, CliProofs!Working, Cli!StartWork, CliProofs!StartWork, Cli!WorkBegin,
      CliProofs!WorkBegin, Cli!WorkConnect, CliProofs!WorkConnect, Cli!AsyncConnect,
      CliProofs!AsyncConnect, Cli!Crossing, CliProofs!Crossing
<1>3. Cli!ReadAgain => CliProofs!ReadAgain
  BY DEF Cli!ReadAgain, CliProofs!ReadAgain, Cli!ReadOn, CliProofs!ReadOn, Cli!AsyncRead,
      CliProofs!AsyncRead
<1>4. Cli!Dispatch \/ Cli!Dispatched => CliProofs!Dispatch \/ CliProofs!Dispatched
  BY DEF Cli!Dispatch, CliProofs!Dispatch, Cli!Dispatched, CliProofs!Dispatched, Cli!MutexFree,
      CliProofs!MutexFree
<1>5. Cli!UnpackError \/ Cli!RecvError => CliProofs!UnpackError \/ CliProofs!RecvError
  BY DEF Cli!UnpackError, CliProofs!UnpackError, Cli!RecvError, CliProofs!RecvError, Cli!Reset,
      CliProofs!Reset
<1>6. Cli!UnpackSet \/ Cli!RecvSet => CliProofs!UnpackSet \/ CliProofs!RecvSet
  BY DEF Cli!UnpackSet, CliProofs!UnpackSet, Cli!RecvSet, CliProofs!RecvSet, Cli!Unconnect,
      CliProofs!Unconnect
<1>7. Cli!UnpackClose \/ Cli!RecvClose => CliProofs!UnpackClose \/ CliProofs!RecvClose
  BY DEF Cli!UnpackClose, CliProofs!UnpackClose, Cli!RecvClose, CliProofs!RecvClose, Cli!Close,
      CliProofs!Close, Cli!CloseSocket, CliProofs!CloseSocket, Cli!Abort, CliProofs!Abort
<1> QED
  BY <1>1, <1>2, <1>3, <1>4, <1>5, <1>6, <1>7 DEF Cli!Handlers, CliProofs!Handlers

LEMMA SameCalls == Cli!Calls => CliProofs!Calls
<1> USE SameSum
    DEF Cli!Steps, CliProofs!Steps, Cli!Receiving, CliProofs!Receiving, Cli!Starting,
        CliProofs!Starting, Cli!Plus, CliProofs!Plus
<1>1. Cli!StartConnect => CliProofs!StartConnect
  BY DEF Cli!StartConnect, CliProofs!StartConnect, Cli!MayConnect, CliProofs!MayConnect
<1>2. Cli!Connecting => CliProofs!Connecting
  BY DEF Cli!Connecting, CliProofs!Connecting, Cli!CallStartWork, CliProofs!CallStartWork,
      Cli!CallBegin, CliProofs!CallBegin, Cli!Connect, CliProofs!Connect, Cli!CallRead,
      CliProofs!CallRead, Cli!AsyncRead, CliProofs!AsyncRead, Cli!AsyncConnect,
      CliProofs!AsyncConnect, Cli!Crossing, CliProofs!Crossing
<1>3. Cli!Disconnect => CliProofs!Disconnect
  BY DEF Cli!Disconnect, CliProofs!Disconnect
<1>4. Cli!Disconnecting => CliProofs!Disconnecting
  BY DEF Cli!Disconnecting, CliProofs!Disconnecting, Cli!DisconnectSet, CliProofs!DisconnectSet,
      Cli!DisconnectClose, CliProofs!DisconnectClose, Cli!CloseSocket, CliProofs!CloseSocket,
      Cli!Abort, CliProofs!Abort
<1> QED
  BY <1>1, <1>2, <1>3, <1>4 DEF Cli!Calls, CliProofs!Calls

LEMMA ClientInvHolds == Spec => []CliProofs!ClientInv
<1> USE ManagerAssumption DEF CliProofs!MaxJobsAssumption
<1>1. Cli!Init => CliProofs!ClientInv
  BY CliProofs!InitClient
  DEF Cli!Init, CliProofs!Init, Cli!Steps, CliProofs!Steps, Cli!Receiving, CliProofs!Receiving,
      Cli!Starting, CliProofs!Starting
<1>2. CliProofs!ClientInv /\ [Cli!Next]_(Cli!vars) => CliProofs!ClientInv'
  BY SameNetwork, SameHandlers, SameCalls, CliProofs!StepClient
  DEF Cli!Next, CliProofs!Next, Cli!vars, CliProofs!vars
<1> QED
  BY <1>1, <1>2, ManagerUsesClient, PTL DEF Cli!Spec

-----------------------------------------------------------------------------
(* Each action preserves the invariant.                                    *)

\* The client's variables change as NothingNew allows, the clock does not, what
\* was heard is at most forgotten, as it is with the socket, and the worker
\* moves at most within its call, which is no heartbeat.
LEMMA LinkBeat ==
    ASSUME BeatInv, NothingNew, age' = age, unprobed' => unprobed /\ sock' = "up",
           pc'.worker # "none" => pc.worker # "none",
           pc.worker = "beat" => pc'.worker = "beat"
    PROVE  HeardIsNewest' /\ BeatInTime'
<1> USE DEF BeatInv, NothingNew
<1>1. HeardIsNewest'
  BY DEF HeardIsNewest
<1>2. Silent' => Silent
  BY DEF HeardIsNewest, Silent, MgrInv, Types, ClientTypes, Cli!TypeOK, Cli!Steps
<1> QED
  BY <1>1, <1>2 DEF BeatInTime

\* A connection that has just come up is not heard yet.
LEMMA ConnectOkBeat == ASSUME BeatInv, ConnectOk PROVE HeardIsNewest' /\ BeatInTime'
BY DEF ConnectOk, HeardIsNewest, BeatInTime, Silent

\* A packet comes on the newest connection, unless two were crossed: whoever
\* hands it up is the one reader there is.
LEMMA DispatchBeat == ASSUME BeatInv, Dispatch PROVE HeardIsNewest' /\ BeatInTime'
<1>1. NothingNew /\ sock' = sock /\ crossed' = crossed
  BY DispatchKeeps DEF BeatInv, MgrInv, Types, Dispatch, Cli!Dispatch
<1>2. ~ crossed => jobs["ok"] = 0
  <2>1. jobs["data"] > 0
    BY DEF Dispatch, Cli!Dispatch
  <2>2. ~ crossed => CliProofs!Readers + CliProofs!FutureReaders <= 1
    BY DEF BeatInv, CliProofs!ClientInv, CliProofs!OneReaderInv
  <2>3. jobs \in [Cli!Steps -> Nat] /\ reads \in Nat
    BY DEF BeatInv, MgrInv, Types, ClientTypes, Cli!TypeOK
  <2> QED
    BY <2>1, <2>2, <2>3, StepsAre DEF CliProofs!Readers, CliProofs!FutureReaders
<1>3. unprobed' => sock' = "up"
  BY <1>1 DEF Dispatch
<1>4. HeardIsNewest'
  BY <1>1, <1>2, <1>3 DEF HeardIsNewest, NothingNew
<1>5. BeatInTime'
  BY ManagerAssumption DEF Dispatch, BeatInTime
<1> QED
  BY <1>4, <1>5

\* work() calls send_heartbeat when the silence has become too long: it looks
\* once a second at least, and the thresholds leave it that second before it
\* drops the connection.
LEMMA WorkBeat == ASSUME BeatInv, Work PROVE HeardIsNewest' /\ BeatInTime'
<1> USE DEF BeatInv, Work, Go, link
<1>1. HeardIsNewest'
  BY DEF HeardIsNewest
<1>2. Silent' => Silent
  BY DEF Silent
<1>3. PICK now \in {age, age + 1} \cap 0 .. DropAfter + 1 :
         age' = now /\ pc' = [pc EXCEPT !.worker = Decision(now)]
  OBVIOUS
<1>4. age \in Nat /\ pc'.worker = Decision(now)
  BY <1>3, ManagerAssumption DEF MgrInv, Types
<1>5. Silent /\ now = BeatAfter + 1 => Decision(now) = "beat"
  BY <1>4, ManagerAssumption DEF Silent, Decision, Overdue
<1>6. Silent => age <= BeatAfter
  BY DEF BeatInTime
<1> QED
  BY <1>1, <1>2, <1>3, <1>4, <1>5, <1>6, ManagerAssumption DEF BeatInTime

\* send_heartbeat is called on every silent connection.
LEMMA SendHeartbeatBeat ==
    ASSUME BeatInv, SendHeartbeat
    PROVE  HeardIsNewest' /\ BeatInTime'
BY DEF SendHeartbeat, HeardIsNewest, BeatInTime, Silent

\* A worker that starts has heard nothing.
LEMMA SpawnBeat == ASSUME BeatInv, Spawn PROVE HeardIsNewest' /\ BeatInTime'
BY DEF Spawn, HeardIsNewest, BeatInTime, Silent

LEMMA CallBeat ==
    ASSUME BeatInv, NEW a \in {"user", "worker"}, Call(a)
    PROVE  HeardIsNewest' /\ BeatInTime'
<1> USE DEF BeatInv
<1>1. ClientTypes /\ pc \in [{"user", "worker"} -> AllSteps]
  BY DEF MgrInv, Types
<1>2. NothingNew
  BY <1>1, CallKeeps
  DEF Call, StartConnect, InConnect, Disconnect, InDisconnect, Cli!Calls, NothingNew, link
<1>3. /\ age' = age
      /\ pc[a] \in CallSteps
      /\ \E step : pc' = [pc EXCEPT ![a] = step]
  BY DEF Call, StartConnect, InConnect, Disconnect, InDisconnect, callOnly, clock, Go, CallSteps
<1>4. /\ pc.worker = "beat" => pc'.worker = "beat"
      /\ pc'.worker # "none" => pc.worker # "none"
  BY <1>1, <1>3 DEF CallSteps
<1>5. unprobed' => unprobed /\ sock' = "up"
  <2>1. CASE StartConnect(a) \/ InConnect(a) \/ Disconnect(a)
    <3>1. unprobed' = unprobed
      BY <2>1 DEF StartConnect, InConnect, Disconnect, callOnly, clock
    <3>2. sock = "up" => sock' = "up"
      BY <1>1, <2>1, CallKeeps DEF StartConnect, InConnect, Disconnect, Cli!Calls, link
    <3> QED
      BY <3>1, <3>2 DEF HeardIsNewest
  <2>2. CASE InDisconnect(a)
    BY <2>2 DEF InDisconnect, Forget
  <2> QED
    BY <2>1, <2>2 DEF Call
<1> QED
  BY <1>2, <1>3, <1>4, <1>5, LinkBeat

LEMMA NextBeat == BeatInv /\ [Next]_vars => HeardIsNewest' /\ BeatInTime'
<1> SUFFICES ASSUME BeatInv, [Next]_vars PROVE HeardIsNewest' /\ BeatInTime'
  OBVIOUS
<1> USE DEF BeatInv
<1>1. ClientTypes /\ pc \in [{"user", "worker"} -> AllSteps]
  BY DEF MgrInv, Types
<1>2. CASE Outside \/ Handlers
  <2>1. NothingNew
    BY <1>1, <1>2, NetworkKeeps, QuietKeeps DEF Outside, Handlers, Quiet
  <2>2. UNCHANGED <<age, pc>> /\ (unprobed' => unprobed /\ sock' = "up")
    BY <1>2 DEF Outside, Handlers, Forget
  <2> QED
    BY <2>1, <2>2, LinkBeat
<1>3. CASE Dispatched
  <2>1. NothingNew /\ sock' = sock
    BY <1>1, <1>3, DispatchKeeps DEF Dispatched
  <2>2. UNCHANGED <<clock, pc>>
    BY <1>3 DEF Dispatched
  <2> QED
    BY <2>1, <2>2, LinkBeat DEF clock, HeardIsNewest
<1>4. CASE ConnectOk \/ Dispatch \/ Work \/ SendHeartbeat \/ Spawn
  BY <1>4, ConnectOkBeat, DispatchBeat, WorkBeat, SendHeartbeatBeat, SpawnBeat
<1>5. ASSUME NEW a \in {"user", "worker"}, Call(a) PROVE HeardIsNewest' /\ BeatInTime'
  BY <1>5, CallBeat
<1>6. CASE Loop \/ UsbInit \/ UsbUninit \/ WaitInit \/ AssignInitOk \/ InitReturns \/ Join
  <2>1. UNCHANGED <<link, clock>>
    BY <1>6
    DEF Loop, UsbInit, UsbUninit, WaitInit, AssignInitOk, InitReturns, Join, callOnly, userOnly
  <2>2. /\ pc.worker = "beat" => pc'.worker = "beat"
        /\ pc'.worker # "none" => pc.worker # "none"
    BY <1>1, <1>6 DEF Loop, UsbInit, UsbUninit, WaitInit, AssignInitOk, InitReturns, Join, Go
  <2> QED
    BY <2>1, <2>2, LinkBeat DEF NothingNew, link, clock, HeardIsNewest
<1>7. CASE UNCHANGED vars
  BY <1>7, LinkBeat DEF NothingNew, vars, link, clock, HeardIsNewest
<1> QED
  BY <1>2, <1>3, <1>4, <1>5, <1>6, <1>7 DEF Next, Worker, InCall

LEMMA AlwaysBeat == Spec => []BeatInv
<1>1. Init => HeardIsNewest /\ BeatInTime
  BY DEF Init, HeardIsNewest, BeatInTime, Silent
<1>2. MgrInv /\ CliProofs!ClientInv /\ HeardIsNewest /\ BeatInTime /\ [Next]_vars
        => HeardIsNewest' /\ BeatInTime'
  BY NextBeat DEF BeatInv
<1>3. MgrInv /\ CliProofs!ClientInv /\ HeardIsNewest /\ BeatInTime => BeatInv
  BY DEF BeatInv
<1> QED
  BY <1>1, <1>2, <1>3, AlwaysMgr, ClientInvHolds, PTL DEF Spec

-----------------------------------------------------------------------------
\* Whatever the network, the io threads and the user do in between, work()
\* drops no connection on which the device manager has spoken for its silence
\* before it has called send_heartbeat, unless two connections were crossed.
THEOREM NoDropUntried == Spec => TriedBeforeDropped
<1>1. BeatInv /\ [Next]_vars
        => [ pc.worker = "sleep" /\ pc'.worker = "drop" => ~ unprobed \/ crossed ]_vars
  <2> SUFFICES ASSUME BeatInv, Next, pc.worker = "sleep", pc'.worker = "drop", unprobed, ~ crossed
               PROVE  FALSE
    BY DEF vars
  <2>1. pc \in [{"user", "worker"} -> AllSteps] /\ age \in Nat
    BY ManagerAssumption DEF BeatInv, MgrInv, Types
  <2>2. Work
    <3>1. ASSUME NEW a \in {"user", "worker"}, Call(a) PROVE FALSE
      BY <2>1, <3>1 DEF Call, StartConnect, InConnect, Disconnect, InDisconnect, Go
    <3>2. ~ (Loop \/ SendHeartbeat \/ UsbInit \/ UsbUninit \/ InCall)
      BY <2>1 DEF Loop, SendHeartbeat, UsbInit, UsbUninit, InCall, Spawn, WaitInit, AssignInitOk,
         InitReturns, Join, Go
    <3>3. ~ (ConnectOk \/ Outside \/ Handlers \/ Dispatch \/ Dispatched)
      BY DEF ConnectOk, Outside, Handlers, Dispatch, Dispatched
    <3> QED
      BY <3>1, <3>2, <3>3 DEF Next, Worker
  <2>3. PICK now \in {age, age + 1} : now \in Nat /\ pc'.worker = Decision(now)
    BY <2>1, <2>2, ManagerAssumption DEF Work, Go
  <2>4. m_connect_stat = "CONNECTED" /\ now > DropAfter
    BY <2>3 DEF Decision, Overdue
  <2>5. age <= BeatAfter
    BY <2>4 DEF BeatInv, BeatInTime, Silent
  <2> QED
    BY <2>1, <2>3, <2>4, <2>5, ManagerAssumption
<1> QED
  BY <1>1, AlwaysBeat, PTL DEF Spec, TriedBeforeDropped
=============================================================================
