----------------------------- MODULE MgrNetwork -----------------------------
(***************************************************************************)
(* The network manager: mgr_network (libusb/mgr_network.cpp) with its      *)
(* 500 ms worker thread (libusb/xbasicmgr.hpp), and the user thread inside *)
(* usb_init and usb_uninit (libusb/lib_interface.cpp), on top of the TCP   *)
(* client of TcpClient: every call of it is that module's action.          *)
(*                                                                         *)
(* Time is what work() makes of it: the seconds since m_tm_last_recv, with *)
(* the thresholds as constants and every longer silence the same.          *)
(***************************************************************************)
EXTENDS Naturals

CONSTANTS
    BeatAfter,  \* silence after which send_heartbeat is called (5 s in the code)
    DropAfter,  \* silence after which the connection is dropped (15 s)
    MaxInit,    \* bound: calls of usb_init
    MaxJobs     \* bound of TcpClient

ASSUME ManagerAssumption ==
    /\ BeatAfter \in Nat /\ DropAfter \in Nat /\ BeatAfter < DropAfter
    /\ MaxInit \in Nat
    /\ MaxJobs \in Nat

VARIABLES
    m_connect_stat, sock, reads, jobs, caller, mixed, crossed,  \* TcpClient
    age,            \* seconds since m_tm_last_recv, as far as work() has looked
    m_work_sign,    \* the worker is to go on
    pc,             \* the next step of the user and of the worker
    m_init_ok,      \* the device manager has spoken
    m_init_semph,   \* the semaphore start_work waits for
    owed,           \* on_tcp_cli_msg has set m_init_ok and is about to post
    waited,         \* what timed_wait returned, before it is assigned
    result,         \* what usb_init returned, until the next call
    ninit,          \* calls of usb_init so far
    spoke,          \* history: during the last usb_init a packet was parsed ("yes"),
                    \* and handled while it still waited ("told"), or not ("no")
    unprobed        \* history: on the open socket a packet came since the worker
                    \* started, and send_heartbeat was not called since

Cli == INSTANCE TcpClient

link     == <<m_connect_stat, sock, reads, jobs, caller, mixed, crossed>>
clock    == <<age, unprobed>>
initVars == <<m_init_ok, m_init_semph, owed>>
userVars == <<waited, result, ninit>>
vars     == <<link, clock, m_work_sign, pc, initVars, userVars, spoke>>

Go(a, step) == pc' = [pc EXCEPT ![a] = step]

\* m_tm_last_recv is never initialised: the first age may be anything.
Init ==
    /\ Cli!Init
    /\ age \in 0 .. DropAfter + 1
    /\ unprobed = FALSE
    /\ m_work_sign = FALSE
    /\ pc = [user |-> "idle", worker |-> "none"]
    /\ m_init_ok = FALSE /\ m_init_semph = 0 /\ owed = FALSE
    /\ waited = FALSE /\ result = "none" /\ ninit = 0
    /\ spoke = "no"

-----------------------------------------------------------------------------
(* The network and the io threads.                                         *)

\* A new connection, on which nothing has been said.
ConnectOk ==
    /\ Cli!ConnectOk
    /\ unprobed' = FALSE
    /\ UNCHANGED <<age, m_work_sign, pc, initVars, userVars, spoke>>

\* on_tcp_cli_msg announces without looking at m_init_ok (a plausible mistake).
AlwaysAnnounce == TRUE

\* if (!m_init_ok)
Unannounced == ~ m_init_ok

\* The user is inside usb_init.
Initializing == pc.user \notin {"idle", "join", "drop", "dropping"}

\* sync_dispatch_data and on_tcp_cli_msg.  A packet that does not parse is only
\* heard.  Test and assignment of m_init_ok are one step: between them only the
\* user's own assignment could come, and it could as well come first or last.
Dispatch ==
    /\ Cli!Dispatch
    /\ age' = 0 /\ unprobed' = (sock = "up")
    /\ \E parsed \in BOOLEAN :
         /\ spoke' = IF parsed /\ spoke = "no" /\ Initializing THEN "yes" ELSE spoke
         /\ m_init_ok' = (m_init_ok \/ parsed)
         /\ owed' = (parsed /\ Unannounced)
    /\ UNCHANGED <<m_work_sign, pc, m_init_semph, userVars>>

\* m_init_semph.post(), and the end of sync_dispatch_data.
Dispatched ==
    /\ Cli!Dispatched
    /\ m_init_semph' = m_init_semph + (IF owed THEN 1 ELSE 0)
    /\ owed' = FALSE
    /\ spoke' = IF pc.user = "wait" /\ spoke = "yes" THEN "told" ELSE spoke
    /\ UNCHANGED <<clock, m_work_sign, pc, m_init_ok, userVars>>

\* With the connection goes what was heard on it.
Forget == unprobed' = (unprobed /\ sock' = "up")

\* What the manager takes no notice of, on the network and in the handlers.
Outside ==
    /\ Cli!ConnectFails \/ Cli!PeerCloses \/ Cli!Arrive
    /\ Forget
    /\ UNCHANGED <<age, m_work_sign, pc, initVars, userVars, spoke>>

Handlers ==
    /\ \/ Cli!ConnectedOk \/ Cli!ConnectedErr \/ Cli!Working \/ Cli!ReadAgain
       \/ Cli!UnpackError \/ Cli!UnpackSet \/ Cli!UnpackClose
       \/ Cli!RecvError \/ Cli!RecvSet \/ Cli!RecvClose
    /\ Forget
    /\ UNCHANGED <<age, m_work_sign, pc, initVars, userVars, spoke>>

-----------------------------------------------------------------------------
(* Calls of the client, by the worker and by the user.                     *)

callOnly == <<clock, m_work_sign, initVars, userVars, spoke>>

\* Where a call of start_connect, and one of disconnect, returns to.
Connected(a) == IF a = "worker" THEN "loop" ELSE "spawn"
Dropped(a)   == IF a = "worker" THEN "loop" ELSE "idle"

StartConnect(a) ==
    /\ pc[a] = "connect"
    /\ \/ Cli!StartConnect /\ Go(a, "connecting")
       \/ m_connect_stat # "UNCONNECT" /\ Go(a, Connected(a)) /\ UNCHANGED link
    /\ UNCHANGED callOnly

\* The caller's steps inside start_connect, and inside disconnect: the call
\* returns when the client has no caller any more.
InConnect(a) ==
    /\ pc[a] = "connecting"
    /\ Cli!Connecting
    /\ Go(a, IF caller' = "idle" THEN Connected(a) ELSE "connecting")
    /\ UNCHANGED callOnly

Disconnect(a) ==
    /\ pc[a] = "drop"
    /\ \/ Cli!Disconnect /\ Go(a, "dropping")
       \/ m_connect_stat = "UNCONNECT" /\ Go(a, Dropped(a)) /\ UNCHANGED link
    /\ UNCHANGED callOnly

InDisconnect(a) ==
    /\ pc[a] = "dropping"
    /\ Cli!Disconnecting
    /\ Go(a, IF caller' = "idle" THEN Dropped(a) ELSE "dropping")
    /\ Forget
    /\ UNCHANGED <<age, m_work_sign, initVars, userVars, spoke>>

-----------------------------------------------------------------------------
(* The worker: work_thread of xmgr_basic and work of mgr_network.          *)

\* The worker does not look at the sign (a plausible mistake).
NeverStops == TRUE

GoOn == m_work_sign

Loop ==
    /\ pc.worker = "loop"
    /\ Go("worker", IF GoOn THEN "sleep" ELSE "none")
    /\ UNCHANGED <<link, callOnly>>

\* work() drops the connection as soon as a heartbeat is due (a plausible
\* mistake).
Impatient(now) == now > BeatAfter

Overdue(now) == now > DropAfter

\* What work() decides, from what it reads; the state may change before it acts.
Decision(now) ==
    CASE m_connect_stat # "CONNECTED" -> "connect"
      [] m_connect_stat = "CONNECTED" /\ Overdue(now) -> "drop"
      [] m_connect_stat = "CONNECTED" /\ ~ Overdue(now) /\ now > BeatAfter -> "beat"
      [] OTHER -> "loop"

\* work() runs every 500 ms: since it last did, no more than a second has passed.
Work ==
    /\ pc.worker = "sleep"
    /\ \E now \in {age, age + 1} \cap 0 .. DropAfter + 1 :
         age' = now /\ Go("worker", Decision(now))
    /\ UNCHANGED <<link, unprobed, m_work_sign, initVars, userVars, spoke>>

\* send_heartbeat, in whatever state the client is by now.  Nothing leaves:
\* send_data queues no package (TcpSendQueue), so that the call is all there is.
SendHeartbeat ==
    /\ pc.worker = "beat"
    /\ unprobed' = FALSE
    /\ Go("worker", "loop")
    /\ UNCHANGED <<link, age, m_work_sign, initVars, userVars, spoke>>

-----------------------------------------------------------------------------
(* The user: usb_init and usb_uninit.                                      *)

userOnly == <<link, clock>>

\* usb_init, once it has an address: start_work of xmgr_basic does nothing when
\* the worker runs already.  MaxInit bounds the calls.
UsbInit ==
    /\ pc.user = "idle" /\ ninit < MaxInit
    /\ ninit' = ninit + 1 /\ spoke' = "no" /\ result' = "none"
    /\ Go("user", IF m_work_sign THEN "wait"
                  ELSE IF m_connect_stat = "CONNECTED" THEN "spawn" ELSE "connect")
    /\ UNCHANGED <<userOnly, m_work_sign, initVars, waited>>

\* xmgr_basic's start_work; work() has not looked at the clock for any time.
Spawn ==
    /\ pc.user = "spawn"
    /\ m_work_sign' = TRUE
    /\ pc' = [user |-> "wait", worker |-> "loop"]
    /\ age' \in age .. DropAfter + 1 /\ unprobed' = FALSE
    /\ UNCHANGED <<link, initVars, userVars, spoke>>

\* timed_wait succeeds when it gives up (a plausible mistake).
GivesUpTrue == TRUE

\* What timed_wait returns after 60 s without a token.
GivesUp == FALSE

\* A token is taken that is not there (a plausible mistake).
Untested == TRUE

Posted == m_init_semph > 0

WaitInit ==
    /\ pc.user = "wait"
    /\ \/ Posted /\ waited' = TRUE /\ m_init_semph' = m_init_semph - 1
       \/ m_init_semph = 0 /\ waited' = GivesUp /\ UNCHANGED m_init_semph
    /\ Go("user", "assign")
    /\ UNCHANGED <<userOnly, m_work_sign, m_init_ok, owed, result, ninit, spoke>>

\* m_init_ok takes what timed_wait returned, whatever has come in since.
AssignInitOk ==
    /\ pc.user = "assign"
    /\ m_init_ok' = waited /\ waited' = FALSE
    /\ Go("user", "settle")
    /\ UNCHANGED <<userOnly, m_work_sign, m_init_semph, owed, result, ninit, spoke>>

\* After sleep(5), usb_init asks is_init_ok.
InitReturns ==
    /\ pc.user = "settle"
    /\ result' = IF m_init_ok THEN "USB_ERR_NONE" ELSE "USB_ERR_NETWORK"
    /\ Go("user", "idle")
    /\ UNCHANGED <<userOnly, m_work_sign, initVars, waited, ninit, spoke>>

\* stop_work: the worker is joined before the connection is closed.
UsbUninit ==
    /\ pc.user = "idle" /\ m_work_sign
    /\ m_work_sign' = FALSE
    /\ Go("user", "join")
    /\ result' = "none" /\ spoke' = "no"
    /\ UNCHANGED <<userOnly, initVars, waited, ninit>>

\* stop_work closes the connection before the worker has ended (a plausible
\* mistake).
NoJoin == TRUE

WorkerEnded == pc.worker = "none"

Join ==
    /\ pc.user = "join" /\ WorkerEnded
    /\ Go("user", "drop")
    /\ UNCHANGED <<userOnly, m_work_sign, initVars, userVars, spoke>>

-----------------------------------------------------------------------------
Call(a) == StartConnect(a) \/ InConnect(a) \/ Disconnect(a) \/ InDisconnect(a)
Worker  == Loop \/ Work \/ SendHeartbeat
InCall  == Spawn \/ WaitInit \/ AssignInitOk \/ InitReturns \/ Join

Next == \/ ConnectOk \/ Outside \/ Handlers \/ Dispatch \/ Dispatched
        \/ Worker \/ Call("worker")
        \/ UsbInit \/ UsbUninit \/ InCall \/ Call("user")

Spec == Init /\ [][Next]_vars

-----------------------------------------------------------------------------
UserSteps   == {"idle", "wait", "assign", "settle", "join", "spawn"}
WorkerSteps == {"none", "loop", "sleep", "beat"}
CallSteps   == {"connect", "connecting", "drop", "dropping"}

\* Type correctness.
TypeOK ==
    /\ Cli!TypeOK
    /\ age \in 0 .. DropAfter + 1
    /\ pc.user \in UserSteps \cup CallSteps /\ pc.worker \in WorkerSteps \cup CallSteps
    /\ m_init_semph \in Nat /\ ninit \in 0 .. MaxInit
    /\ result \in {"none", "USB_ERR_NONE", "USB_ERR_NETWORK"} /\ spoke \in {"no", "yes", "told"}
    /\ \A b \in {m_work_sign, m_init_ok, owed, waited, unprobed} : b \in BOOLEAN

\* The client is called by one thread at a time, through repeated usb_init and
\* usb_uninit, as its unlocked state requires.
OneCaller == pc.user \in CallSteps => pc.worker \notin CallSteps

\* However much the device manager says, and whenever timed_wait gives up, the
\* semaphore holds no more tokens than there were calls of usb_init, and one.
TokensBounded == m_init_semph + (IF owed THEN 1 ELSE 0) <= ninit + 1

\* The first usb_init succeeds only if the device manager has spoken since.
FirstInitIsTrue == ninit = 1 /\ result = "USB_ERR_NONE" => spoke # "no"

\* usb_init fails only if no packet of the device manager was handled while it
\* waited for one.
FailsOnlyIfSilent == result = "USB_ERR_NETWORK" => spoke # "told"

\* work() drops a connection on which the device manager has spoken for its
\* silence only after it has been through its heartbeat stage on it: that stage
\* falls between two runs of work(), however late a packet comes.  (The call is
\* made; that no heartbeat comes of it is send_data's doing.)
TriedBeforeDropped ==
    [][ pc.worker = "sleep" /\ pc'.worker = "drop" => ~ unprobed \/ crossed ]_vars

\* What runs sooner or later: the client's handlers, the worker, and the user
\* inside a call; m_recv_mutex is handed to whoever keeps asking for it.
Fairness ==
    /\ WF_vars(Handlers \/ Dispatch \/ Dispatched)
    /\ WF_vars(Worker \/ Call("worker")) /\ WF_vars(InCall \/ Call("user"))
    /\ SF_vars(InDisconnect("worker") \/ InDisconnect("user"))

FairSpec == Spec /\ Fairness

\* usb_init and usb_uninit always return: neither the join of the worker, nor
\* m_recv_mutex, nor the semaphore holds the user up for ever.
UsbCallsReturn == pc.user # "idle" ~> pc.user = "idle"
=============================================================================
