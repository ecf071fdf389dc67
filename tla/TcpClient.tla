----------------------------- MODULE TcpClient -----------------------------
(***************************************************************************)
(* The connection of the TCP client: m_connect_stat of xtcp_client, the    *)
(* socket under it, and the asio handlers that connect and read            *)
(* (libusb/xbasicasio.hpp).  What a read brings is BinUnpacker's concern,  *)
(* who calls start_connect and disconnect, and when, is MgrNetwork's.      *)
(*                                                                         *)
(* The io pool has two threads per core, so handlers of the one socket may *)
(* run at the same time, and beside the thread that calls the client: jobs *)
(* counts the handlers, queued or running, by the step they are at.  No    *)
(* lock protects m_connect_stat: reset_socket, start_connect and           *)
(* start_work are cut between each test of it and what follows.            *)
(***************************************************************************)
EXTENDS Naturals, Functions

CONSTANT MaxJobs    \* bound: operations pending when a connect or a read is to go on

ASSUME MaxJobsAssumption == MaxJobs \in Nat

(* The steps of the handlers:                                              *)
(*   ok, err               connected_handler, after success, after failure *)
(*   start                 connected_handler, about to call start_work     *)
(*   begin, async          start_work, about to set CONNECTING, to connect *)
(*   data                  recv_handler, with whole packets to hand up     *)
(*   dispatch              the same, inside sync_dispatch_data's lock      *)
(*   bad, badset, badclose recv_handler, in reset_socket, on_unpack_error: *)
(*                         about to test, to assign, to close              *)
(*   again                 about to call do_recv_data                      *)
(*   fail, failset,        recv_handler, in reset_socket, on_recv_error    *)
(*   failclose                                                             *)
Receiving == {"data", "dispatch", "bad", "badset", "badclose", "again"}
Starting  == {"ok", "start"}
Steps     == Receiving \cup Starting \cup {"err", "begin", "async", "fail", "failset", "failclose"}

VARIABLES
    m_connect_stat, \* UNCONNECT, CONNECTING or CONNECTED
    sock,           \* the descriptor: none, opening, up, or down (the peer has gone)
    reads,          \* async_reads outstanding on it
    jobs,           \* jobs[s]: handlers at step s
    caller,         \* the thread that calls the client: idle, or where in a call
    mixed,          \* history: while there was this socket another's connect was
                    \* reported failed
    crossed         \* history: this socket's connect began while an older connection's
                    \* handler ran, or came up between start_connect's test and
                    \* start_work's

vars == <<m_connect_stat, sock, reads, jobs, caller, mixed, crossed>>

Plus(j, s, n) == [j EXCEPT ![s] = @ + n]
Finish(s)     == [jobs EXCEPT ![s] = @ - 1]
Move(s, t)    == Plus(Finish(s), t, 1)

Init ==
    /\ m_connect_stat = "UNCONNECT" /\ sock = "none" /\ reads = 0
    /\ jobs = [s \in Steps |-> 0]
    /\ caller = "idle"
    /\ mixed = FALSE /\ crossed = FALSE

-----------------------------------------------------------------------------
(* asio's operations on the socket; j is jobs without the handler that ends. *)

\* do_recv_data: a read is refused at once when there is nothing to read from,
\* but not on a socket that is still connecting.
AsyncRead(j) ==
    /\ IF sock \in {"opening", "up"}
       THEN reads' = reads + 1 /\ jobs' = j
       ELSE reads' = reads /\ jobs' = Plus(j, "fail", 1)
    /\ UNCHANGED sock

\* The connect that begins crosses an older connection: one of its handlers, or
\* a start_connect that it came up under, may yet read.
Crossing(j) ==
    \/ crossed /\ caller \in {"start", "read"}
    \/ \E s \in Receiving \cup Starting : j[s] > 0

\* async_connect fails on a socket that is connected or connecting.  A new socket
\* begins its history.
AsyncConnect(j) ==
    /\ IF sock = "none"
       THEN sock' = "opening" /\ jobs' = j /\ crossed' = Crossing(j)
       ELSE /\ sock' = sock /\ jobs' = Plus(j, "err", 1)
            /\ crossed' = crossed
    /\ UNCHANGED reads

\* What is outstanding completes with an error.
Abort(j) ==
    /\ jobs' = Plus(Plus(j, "fail", reads), "err", IF sock = "opening" THEN 1 ELSE 0)
    /\ reads' = 0

\* close_socket; its reset_buff waits for m_recv_mutex.
CloseSocket(j) ==
    /\ jobs["dispatch"] = 0
    /\ Abort(j)
    /\ sock' = "none" /\ mixed' = FALSE

\* MaxJobs bounds the handlers and reads of older connections that are left by
\* then.
ConnectOk ==
    /\ sock = "opening"
    /\ SumFunction(jobs) + reads <= MaxJobs
    /\ sock' = "up" /\ jobs' = Plus(jobs, "ok", 1)
    /\ UNCHANGED <<m_connect_stat, reads, caller, mixed, crossed>>

ConnectFails ==
    /\ sock = "opening"
    /\ Abort(jobs)
    /\ sock' = "none" /\ mixed' = FALSE
    /\ UNCHANGED <<m_connect_stat, caller, crossed>>

\* The device manager goes away.
PeerCloses ==
    /\ sock = "up"
    /\ Abort(jobs)
    /\ sock' = "down"
    /\ UNCHANGED <<m_connect_stat, caller, mixed, crossed>>

\* A read completes: with whole packets, without one, or with what
\* unpack_data refuses.  MaxJobs bounds the handlers that are there by then.
Arrive ==
    /\ sock = "up" /\ reads > 0
    /\ SumFunction(jobs) <= MaxJobs
    /\ reads' = reads - 1
    /\ \E s \in {"data", "again", "bad"} : jobs' = Plus(jobs, s, 1)
    /\ UNCHANGED <<m_connect_stat, sock, caller, mixed, crossed>>

-----------------------------------------------------------------------------
(* The handlers.                                                           *)

ConnectedOk ==
    /\ jobs["ok"] > 0
    /\ m_connect_stat' = "CONNECTED"
    /\ jobs' = Move("ok", "start")
    /\ crossed' = (crossed \/ caller = "start")
    /\ UNCHANGED <<sock, reads, caller, mixed>>

\* A failed connect leaves the state as it was (a plausible mistake).
KeepStat == m_connect_stat

\* What connected_handler makes of the state after an error.
StatAfterError == "UNCONNECT"

\* The socket is connecting or connected, by another connect than the one that
\* has failed.
Newer == sock # "none"

ConnectedErr ==
    /\ jobs["err"] > 0
    /\ m_connect_stat' = StatAfterError
    /\ jobs' = Finish("err")
    /\ mixed' = (mixed \/ Newer)
    /\ UNCHANGED <<sock, reads, caller, crossed>>

\* start_work, called by connected_handler: by now the state may be any.
StartWork ==
    /\ jobs["start"] > 0
    /\ jobs' = CASE m_connect_stat = "UNCONNECT"  -> Move("start", "begin")
                 [] m_connect_stat = "CONNECTED"  -> Move("start", "again")
                 [] m_connect_stat = "CONNECTING" -> Finish("start")
    /\ UNCHANGED <<m_connect_stat, sock, reads, caller, mixed, crossed>>

WorkBegin ==
    /\ jobs["begin"] > 0
    /\ m_connect_stat' = "CONNECTING"
    /\ jobs' = Move("begin", "async")
    /\ UNCHANGED <<sock, reads, caller, mixed, crossed>>

WorkConnect ==
    /\ jobs["async"] > 0
    /\ AsyncConnect(Finish("async"))
    /\ UNCHANGED <<m_connect_stat, caller, mixed>>

\* sync_dispatch_data without its lock (a plausible mistake).
NoMutex == TRUE

\* m_recv_mutex is free.
MutexFree == jobs["dispatch"] = 0

\* sync_dispatch_data takes m_recv_mutex ...
Dispatch ==
    /\ jobs["data"] > 0 /\ MutexFree
    /\ jobs' = Move("data", "dispatch")
    /\ UNCHANGED <<m_connect_stat, sock, reads, caller, mixed, crossed>>

\* ... and gives it back; unpack_data may have refused what followed.
Dispatched ==
    /\ jobs["dispatch"] > 0
    /\ \E s \in {"again", "bad"} : jobs' = Move("dispatch", s)
    /\ UNCHANGED <<m_connect_stat, sock, reads, caller, mixed, crossed>>

\* recv_handler ends without a new read (a plausible mistake).
NoMore(j) == jobs' = j /\ UNCHANGED <<sock, reads>>

\* recv_handler, or start_work, ends with do_recv_data.
ReadOn(j) == AsyncRead(j)

ReadAgain ==
    /\ jobs["again"] > 0
    /\ ReadOn(Finish("again"))
    /\ UNCHANGED <<m_connect_stat, caller, mixed, crossed>>

\* The test of reset_socket.  rest is what is left to do when there is nothing to
\* reset.
Reset(s, set, rest) ==
    /\ jobs[s] > 0
    /\ jobs' = IF m_connect_stat = "UNCONNECT" THEN rest ELSE Move(s, set)
    /\ UNCHANGED <<m_connect_stat, sock, reads, caller, mixed, crossed>>

Unconnect(s, close) ==
    /\ jobs[s] > 0
    /\ m_connect_stat' = "UNCONNECT"
    /\ jobs' = Move(s, close)
    /\ UNCHANGED <<sock, reads, caller, mixed, crossed>>

Close(s, rest) ==
    /\ jobs[s] > 0
    /\ CloseSocket(rest)
    /\ UNCHANGED <<m_connect_stat, caller, crossed>>

\* The handler that cannot unpack goes on to read, the one that cannot read ends.
UnpackError == Reset("bad", "badset", Move("bad", "again"))
UnpackSet   == Unconnect("badset", "badclose")
UnpackClose == Close("badclose", Move("badclose", "again"))

\* on_recv_error without reset_socket (a plausible mistake).
RecvIgnored ==
    /\ jobs["fail"] > 0
    /\ jobs' = Finish("fail")
    /\ UNCHANGED <<m_connect_stat, sock, reads, caller, mixed, crossed>>

RecvError == Reset("fail", "failset", Finish("fail"))
RecvSet   == Unconnect("failset", "failclose")
RecvClose == Close("failclose", Finish("failclose"))

-----------------------------------------------------------------------------
(* The caller: mgr_network's worker or the user thread, never both at once. *)

\* start_connect without its test of the state (a plausible mistake).
AlwaysConnect == TRUE

\* start_connect returns unless the state is UNCONNECT.
MayConnect == m_connect_stat = "UNCONNECT"

\* MaxJobs bounds the handlers that are there by then, but for those that keep
\* reading: the others end of themselves, and the call goes on.
StartConnect ==
    /\ caller = "idle"
    /\ MayConnect
    /\ SumFunctionOnSet(jobs, Steps \ Receiving) <= MaxJobs
    /\ caller' = "start"
    /\ UNCHANGED <<m_connect_stat, sock, reads, jobs, mixed, crossed>>

\* start_work tests the state once more: by now it may be any.
CallStartWork ==
    /\ caller = "start"
    /\ caller' = CASE m_connect_stat = "UNCONNECT"  -> "begin"
                   [] m_connect_stat = "CONNECTED"  -> "read"
                   [] m_connect_stat = "CONNECTING" -> "idle"
    /\ UNCHANGED <<m_connect_stat, sock, reads, jobs, mixed, crossed>>

CallBegin ==
    /\ caller = "begin"
    /\ m_connect_stat' = "CONNECTING"
    /\ caller' = "async"
    /\ UNCHANGED <<sock, reads, jobs, mixed, crossed>>

Connect ==
    /\ caller = "async"
    /\ AsyncConnect(jobs)
    /\ caller' = "idle"
    /\ UNCHANGED <<m_connect_stat, mixed>>

\* recv_data, beside the reader that the connection has.
CallRead ==
    /\ caller = "read"
    /\ AsyncRead(jobs)
    /\ caller' = "idle"
    /\ UNCHANGED <<m_connect_stat, mixed, crossed>>

\* disconnect: reset_socket.
Disconnect ==
    /\ caller = "idle" /\ m_connect_stat # "UNCONNECT"
    /\ caller' = "set"
    /\ UNCHANGED <<m_connect_stat, sock, reads, jobs, mixed, crossed>>

DisconnectSet ==
    /\ caller = "set"
    /\ m_connect_stat' = "UNCONNECT"
    /\ caller' = "close"
    /\ UNCHANGED <<sock, reads, jobs, mixed, crossed>>

DisconnectClose ==
    /\ caller = "close"
    /\ CloseSocket(jobs)
    /\ caller' = "idle"
    /\ UNCHANGED <<m_connect_stat, crossed>>

-----------------------------------------------------------------------------
Network  == ConnectOk \/ ConnectFails \/ PeerCloses \/ Arrive
Working  == StartWork \/ WorkBegin \/ WorkConnect
Handlers == \/ ConnectedOk \/ ConnectedErr \/ Working \/ Dispatch \/ Dispatched \/ ReadAgain
            \/ UnpackError \/ UnpackSet \/ UnpackClose \/ RecvError \/ RecvSet \/ RecvClose

\* The caller inside start_connect, and inside disconnect.
Connecting    == CallStartWork \/ CallBegin \/ Connect \/ CallRead
Disconnecting == DisconnectSet \/ DisconnectClose
Calls         == StartConnect \/ Connecting \/ Disconnect \/ Disconnecting

Next == Network \/ Handlers \/ Calls

Spec == Init /\ [][Next]_vars

-----------------------------------------------------------------------------
\* Type correctness, and m_recv_mutex: one handler at a time hands packets up.
TypeOK ==
    /\ m_connect_stat \in {"UNCONNECT", "CONNECTING", "CONNECTED"}
    /\ sock \in {"none", "opening", "up", "down"}
    /\ reads \in Nat
    /\ jobs \in [Steps -> Nat] /\ jobs["dispatch"] <= 1
    /\ caller \in {"idle", "start", "begin", "async", "read", "set", "close"}
    /\ mixed \in BOOLEAN /\ crossed \in BOOLEAN

\* The client is never stuck in CONNECTING: as long as it says so, the connect
\* is about to be made, is under way, or has an outcome whose handler is still
\* to run.
ConnectingHasOutcome ==
    m_connect_stat = "CONNECTING" =>
        \/ caller = "async" \/ jobs["async"] > 0
        \/ sock = "opening" \/ jobs["ok"] > 0 \/ jobs["err"] > 0

\* The client never overlooks the end of a connection: as long as it says
\* CONNECTED, a read is outstanding or a handler is going to post one or to
\* report the loss.
ConnectedIsRead ==
    m_connect_stat = "CONNECTED" =>
        reads > 0 \/ \E s \in Receiving \cup {"start", "fail", "failset"} : jobs[s] > 0

\* Two reads compete for the receive buffer only if the connect began while a
\* handler of an older connection was still running, or came up while
\* start_connect was between its test and start_work's: then the io thread and
\* the caller both post one.
OneReader ==
    ~ crossed =>
        reads + jobs["start"] + jobs["data"] + jobs["dispatch"] + jobs["bad"]
              + jobs["badset"] + jobs["badclose"] + jobs["again"]
              + (IF caller = "read" THEN 1 ELSE 0) <= 1

\* What the io pool, the system and the caller do sooner or later: queued
\* handlers are run, m_recv_mutex is handed to whoever keeps asking for it, a
\* connect has an outcome, and the worker calls start_connect while the client
\* stays unconnected.
Fairness ==
    /\ WF_vars(ConnectedOk) /\ WF_vars(ConnectedErr)
    /\ WF_vars(StartWork) /\ WF_vars(WorkBegin) /\ WF_vars(WorkConnect)
    /\ SF_vars(Dispatch) /\ WF_vars(Dispatched) /\ WF_vars(ReadAgain)
    /\ WF_vars(UnpackError) /\ WF_vars(UnpackSet) /\ SF_vars(UnpackClose)
    /\ WF_vars(RecvError) /\ WF_vars(RecvSet) /\ SF_vars(RecvClose)
    /\ WF_vars(ConnectOk \/ ConnectFails)
    /\ WF_vars(StartConnect) /\ WF_vars(Connecting)
    /\ WF_vars(DisconnectSet) /\ SF_vars(DisconnectClose)

FairSpec == Spec /\ Fairness

\* A socket whose peer has gone is given up, so that the next connect can
\* succeed, unless the report of a failed connect was mixed up with a newer one.
BrokenIsGivenUp == sock = "down" ~> sock # "down" \/ mixed
=============================================================================
