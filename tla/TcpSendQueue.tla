---------------------------- MODULE TcpSendQueue ----------------------------
(***************************************************************************)
(* The send queue of a TCP socket: m_send_buff and m_is_sending of         *)
(* xtcp_socket under m_send_mutex, who fills and empties it, and the       *)
(* handler that goes on with the next package (libusb/xbasicasio.hpp).     *)
(*                                                                         *)
(* When a connect begins, and when one is reported failed, is TcpClient's  *)
(* concern: here either may come at any time.  Several threads may reset   *)
(* the socket at once, and each may be as late as it likes: with its       *)
(* reset_buff, or its close, when the next connection is already up.       *)
(*                                                                         *)
(* Two functions take a package.  send_data is the public one; it hands    *)
(* the package to send_pack_in_buff, which does not use it.                *)
(* send_native_data is the one that queues; it is private, and nothing in  *)
(* the file calls it.                                                      *)
(*                                                                         *)
(* m_send_mutex makes each step below one; the size of the queue and the   *)
(* state of the connection are read without it.                            *)
(***************************************************************************)
EXTENDS Naturals, Sequences, FiniteSets

CONSTANTS
    Senders,        \* the threads that send
    MAX_MSG_NUM,    \* packages the queue is meant to hold (128)
    MaxMsgs,        \* bound: packages that are sent
    MaxConns,       \* bound: sockets that are opened
    MaxClosers      \* bound: threads that are in reset_socket at once

ASSUME SendQueueAssumption ==
    /\ IsFiniteSet(Senders)
    /\ MAX_MSG_NUM \in Nat /\ MaxMsgs \in Nat /\ MaxConns \in Nat /\ MaxClosers \in Nat

\* The steps of the threads that change the connection: connected_handler, about
\* to say CONNECTED and then to send; reset_socket, past its test and then past
\* its assignment; close_socket, past reset_buff.
Steps == {"ok", "send", "set", "reset", "close"}

VARIABLES
    m_send_buff,    \* the packages that wait
    m_is_sending,   \* a write is under way, or so it is thought
    writes,         \* the writes whose handler has not run
    conn,           \* the number of the last socket that was opened
    sock,           \* that socket: none, opening or up
    m_connect_stat, \* UNCONNECT, CONNECTING or CONNECTED
    jobs,           \* jobs[s]: threads at step s
    room,           \* the senders that have found room in the queue
    next,           \* packages made so far
    accepted,       \* those for which a function returned their length
    queued,         \* those that were put into the queue
    lost,           \* those that a reset or a failed write took
    wire,           \* those that were written, with their connection, in order
    crossed         \* history: m_is_sending was cleared for a newer connection by the
                    \* handler of an older one's write, or by a late reset of it

queue == <<m_send_buff, m_is_sending, writes>>
link  == <<conn, sock, m_connect_stat, jobs>>
book  == <<next, accepted, queued>>
vars  == <<queue, link, room, book, lost, wire, crossed>>

is_open == sock # "none"

Finish(s)  == [jobs EXCEPT ![s] = @ - 1]
Move(s, t) == [jobs EXCEPT ![s] = @ - 1, ![t] = @ + 1]

Elems(s) == {s[k] : k \in DOMAIN s}

Init ==
    /\ m_send_buff = <<>> /\ m_is_sending = FALSE /\ writes = {}
    /\ conn = 0 /\ sock = "none" /\ m_connect_stat = "UNCONNECT"
    /\ jobs = [s \in Steps |-> 0]
    /\ room = {} /\ next = 0 /\ accepted = {} /\ queued = {}
    /\ lost = {} /\ wire = <<>> /\ crossed = FALSE

-----------------------------------------------------------------------------
(* do_send_data, with the queue, the flag and the writes it finds.         *)

\* The flag is not tested (a plausible mistake).
MaySendMore(buff, sending) ==
    m_connect_stat = "CONNECTED" /\ is_open /\ buff # <<>>

MaySend(buff, sending) ==
    m_connect_stat = "CONNECTED" /\ is_open /\ ~sending /\ buff # <<>>

\* The package is written and stays in the queue (a plausible mistake).
SendAndKeep(buff, sending, pending) ==
    /\ m_send_buff' = buff
    /\ m_is_sending' = (sending \/ MaySend(buff, sending))
    /\ writes' = pending \cup
                 (IF MaySend(buff, sending)
                  THEN {[msg |-> Head(buff), on |-> conn, state |-> "out"]} ELSE {})

do_send_data(buff, sending, pending) ==
    /\ m_send_buff' = IF MaySend(buff, sending) THEN Tail(buff) ELSE buff
    /\ m_is_sending' = (sending \/ MaySend(buff, sending))
    /\ writes' = pending \cup
                 (IF MaySend(buff, sending)
                  THEN {[msg |-> Head(buff), on |-> conn, state |-> "out"]} ELSE {})

-----------------------------------------------------------------------------
(* The senders.                                                            *)

\* send_data and send_pack_in_buff.  MaxMsgs bounds what is sent.
send_data ==
    /\ is_open /\ next < MaxMsgs
    /\ next' = next + 1
    /\ accepted' = accepted \cup {next + 1}
    /\ do_send_data(m_send_buff, m_is_sending, writes)
    /\ UNCHANGED <<link, room, queued, lost, wire, crossed>>

\* One too many (a plausible mistake).
RoomBehind == Len(m_send_buff) <= MAX_MSG_NUM + 1

HasRoom == Len(m_send_buff) <= MAX_MSG_NUM

\* send_native_data reads the size before it takes the lock ...
FindRoom(s) ==
    /\ s \notin room /\ next < MaxMsgs
    /\ HasRoom
    /\ room' = room \cup {s}
    /\ UNCHANGED <<queue, link, book, lost, wire, crossed>>

\* The size is tested once more, and the package counted all the same (a plausible
\* mistake).
PushedIfRoom(msg) == IF HasRoom THEN Append(m_send_buff, msg) ELSE m_send_buff

Pushed(msg) == Append(m_send_buff, msg)

\* The function returns the length of the package.
Accepted(msg) == accepted' = accepted \cup {msg}

\* ... and then pushes its package.
send_native_data(s) ==
    /\ s \in room /\ next < MaxMsgs
    /\ room' = room \ {s}
    /\ next' = next + 1
    /\ Accepted(next + 1)
    /\ queued' = queued \cup {next + 1}
    /\ do_send_data(Pushed(next + 1), m_is_sending, writes)
    /\ UNCHANGED <<link, lost, wire, crossed>>

-----------------------------------------------------------------------------
(* The writes, and send_handler.                                           *)

Ended(w, state) == writes' = (writes \ {w}) \cup {[w EXCEPT !.state = state]}

WriteDone(w) ==
    /\ w.state = "out" /\ sock = "up" /\ w.on = conn
    /\ Ended(w, "sent")
    /\ wire' = Append(wire, w)
    /\ UNCHANGED <<m_send_buff, m_is_sending, link, room, book, lost, crossed>>

\* The peer has gone, the socket was closed under the write, or is not connected yet.
WriteFails(w) ==
    /\ w.state = "out"
    /\ Ended(w, "failed")
    /\ lost' = lost \cup {w.msg}
    /\ UNCHANGED <<m_send_buff, m_is_sending, link, room, book, wire, crossed>>

\* The handler does not go on with the next package (a plausible mistake).
EndOnly(w) ==
    /\ m_send_buff' = m_send_buff /\ m_is_sending' = FALSE /\ writes' = writes \ {w}

GoOn(w) == do_send_data(m_send_buff, FALSE, writes \ {w})

send_handler(w) ==
    /\ w.state # "out"
    /\ GoOn(w)
    /\ crossed' = (crossed \/ (w.on # conn /\ is_open))
    /\ UNCHANGED <<link, room, book, lost, wire>>

-----------------------------------------------------------------------------
(* The connection.                                                         *)

rest == <<room, book, lost, wire>>

\* The test was some time ago: the state may be any, and async_connect fails on a
\* socket that is open.  MaxConns bounds the sockets.
start_work ==
    /\ conn < MaxConns
    /\ m_connect_stat' = "CONNECTING"
    /\ IF is_open THEN UNCHANGED <<sock, conn>> ELSE sock' = "opening" /\ conn' = conn + 1
    /\ UNCHANGED <<queue, jobs, rest, crossed>>

ConnectOk ==
    /\ sock = "opening"
    /\ sock' = "up" /\ jobs' = [jobs EXCEPT !["ok"] = @ + 1]
    /\ UNCHANGED <<queue, conn, m_connect_stat, rest, crossed>>

\* connected_handler after a failure, of this connect or of an older one.
ConnectFails ==
    /\ m_connect_stat' = "UNCONNECT"
    /\ sock' \in IF sock = "opening" THEN {sock, "none"} ELSE {sock}
    /\ UNCHANGED <<queue, conn, jobs, rest, crossed>>

\* connected_handler after success: by now the socket may be a newer one, and one
\* that another thread has reset and not closed yet.
connected_handler ==
    /\ jobs["ok"] > 0
    /\ m_connect_stat' = "CONNECTED"
    /\ jobs' = Move("ok", "send")
    /\ crossed' = (crossed \/ (is_open /\ jobs["close"] > 0))
    /\ UNCHANGED <<queue, conn, sock, rest>>

\* It sends what has gathered.
send_pack_in_buff ==
    /\ jobs["send"] > 0
    /\ jobs' = Finish("send")
    /\ do_send_data(m_send_buff, m_is_sending, writes)
    /\ UNCHANGED <<conn, sock, m_connect_stat, rest, crossed>>

\* reset_socket tests the state, ...  MaxClosers bounds the threads.
reset_socket ==
    /\ m_connect_stat # "UNCONNECT"
    /\ jobs["set"] + jobs["reset"] + jobs["close"] < MaxClosers
    /\ jobs' = [jobs EXCEPT !["set"] = @ + 1]
    /\ UNCHANGED <<queue, conn, sock, m_connect_stat, rest, crossed>>

\* ... assigns it, ...
Unconnect ==
    /\ jobs["set"] > 0
    /\ m_connect_stat' = "UNCONNECT"
    /\ jobs' = Move("set", "reset")
    /\ UNCHANGED <<queue, conn, sock, rest, crossed>>

\* ... empties the queue, which may be a newer connection's by now, ...
reset_buff ==
    /\ jobs["reset"] > 0
    /\ jobs' = Move("reset", "close")
    /\ m_send_buff' = <<>> /\ m_is_sending' = FALSE
    /\ lost' = lost \cup Elems(m_send_buff)
    /\ crossed' = (crossed \/ (is_open /\ m_connect_stat = "CONNECTED"))
    /\ UNCHANGED <<writes, conn, sock, m_connect_stat, room, book, wire>>

\* ... and closes, after which the write that was under way fails.
close_socket ==
    /\ jobs["close"] > 0
    /\ jobs' = Finish("close") /\ sock' = "none"
    /\ UNCHANGED <<queue, conn, m_connect_stat, rest, crossed>>

-----------------------------------------------------------------------------
Next ==
    \/ send_data
    \/ \E s \in Senders : FindRoom(s) \/ send_native_data(s)
    \/ \E w \in writes : WriteDone(w) \/ WriteFails(w) \/ send_handler(w)
    \/ start_work \/ ConnectOk \/ ConnectFails \/ connected_handler \/ send_pack_in_buff
    \/ reset_socket \/ Unconnect \/ reset_buff \/ close_socket

\* The system ends a write, and the io pool runs the handlers.
Fairness ==
    /\ WF_vars(\E w \in writes : WriteDone(w) \/ WriteFails(w))
    /\ WF_vars(\E w \in writes : send_handler(w))
    /\ WF_vars(send_pack_in_buff)

Spec == Init /\ [][Next]_vars /\ Fairness

-----------------------------------------------------------------------------
Writes == [msg : 1 .. MaxMsgs, on : 1 .. MaxConns, state : {"out", "sent", "failed"}]

\* The types of the variables.
TypeOK ==
    /\ m_send_buff \in Seq(1 .. MaxMsgs) /\ m_is_sending \in BOOLEAN
    /\ writes \subseteq Writes /\ wire \in Seq(Writes)
    /\ conn \in 0 .. MaxConns /\ sock \in {"none", "opening", "up"} /\ jobs \in [Steps -> Nat]
    /\ m_connect_stat \in {"UNCONNECT", "CONNECTING", "CONNECTED"}
    /\ room \subseteq Senders /\ next \in 0 .. MaxMsgs
    /\ accepted \subseteq 1 .. next /\ queued \subseteq accepted /\ lost \subseteq 1 .. next
    /\ crossed \in BOOLEAN

\* The queue outgrows its limit by no more than one package of each thread, however
\* the threads come in between the test and the push of each other.
QueueBound == Len(m_send_buff) <= MAX_MSG_NUM + Cardinality(Senders)

\* One write at a time: two would mix their bytes.  Only what clears m_is_sending
\* for another connection than its own breaks it: the late handler of an older
\* connection's write, and reset_buff when the client says CONNECTED meanwhile.
OneWrite ==
    ~crossed =>
        \A v, w \in writes : v.state = "out" /\ w.state = "out" /\ v.on = conn /\ w.on = conn => v = w

\* A package is written once, and packages are written in the order they were
\* queued in, over all connections, but for the same two.
OrderKept ==
    ~crossed => \A j, k \in DOMAIN wire : j < k => wire[j].msg < wire[k].msg

Kept == Elems(m_send_buff) \cup {w.msg : w \in writes} \cup {wire[k].msg : k \in DOMAIN wire} \cup lost

\* A package that was queued waits, is being written, was written, or went with its
\* connection: none vanishes.
QueuedIsKept == queued \subseteq Kept

\* The same of every package for which a function returned its length, as if
\* send_pack_in_buff pushed it into the queue.
AcceptedIsQueued == accepted \subseteq Kept

\* What waits while there is a connection does not wait forever.
Drains == m_send_buff # <<>> ~> m_send_buff = <<>> \/ m_connect_stat # "CONNECTED" \/ ~ is_open
=============================================================================
