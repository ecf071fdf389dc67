------------------------- MODULE TcpSendQueueProofs -------------------------
(***************************************************************************)
(* Theorems about TcpSendQueue, for any set of senders, any limit of the   *)
(* queue and any number of packages and connections.                       *)
(***************************************************************************)
EXTENDS TcpSendQueue, FiniteSetTheorems, TLAPS

Msgs == 1 .. MaxMsgs

\* A socket that is open has a number.
LinkInv == is_open => conn # 0

\* There is no socket, or it is to be closed and nothing is sent on it.
Shutting == is_open => m_connect_stat # "CONNECTED" /\ jobs["close"] > 0

\* A sender that has found room has a place of its own.
RoomInv == Len(m_send_buff) + Cardinality(room) <= MAX_MSG_NUM + Cardinality(Senders)

\* What waits is younger than what is being written or was, and stands in order.
Ordered(buff, pending, written, n) ==
    /\ \A k \in DOMAIN buff : buff[k] \in 1 .. n
    /\ \A j, k \in DOMAIN buff : j < k => buff[j] < buff[k]
    /\ \A w \in pending : w.msg \in 1 .. n /\ \A k \in DOMAIN buff : w.msg < buff[k]
    /\ \A j \in DOMAIN written :
           written[j].msg \in 1 .. n /\ \A k \in DOMAIN buff : written[j].msg < buff[k]

\* One write of this connection, known by m_is_sending unless the socket is being
\* shut, and its package is younger than all that were written.
Alone(sending, pending, written, c, shut) ==
    /\ \A v, w \in pending : v.on = c /\ w.on = c => v = w
    /\ ~ shut => \A w \in pending : w.on = c => sending
    /\ \A w \in pending : w.on = c /\ w.state = "out" =>
           \A j \in DOMAIN written : written[j].msg < w.msg

OrderInv == Ordered(m_send_buff, writes, wire, next)

AloneInv == ~crossed =>
    /\ Alone(m_is_sending, writes, wire, conn, Shutting)
    /\ \A j, k \in DOMAIN wire : j < k => wire[j].msg < wire[k].msg

\* No write is of a connection that is still to come.
PastWrites == \A w \in writes : w.on <= conn

\* A write whose handler has still to run was written, or its package is lost.
EndedWrites ==
    \A w \in writes :
        /\ w.state = "failed" => w.msg \in lost
        /\ w.state = "sent" => \E k \in DOMAIN wire : wire[k].msg = w.msg

QueueInv ==
    /\ TypeOK /\ LinkInv /\ RoomInv
    /\ OrderInv /\ AloneInv /\ PastWrites /\ EndedWrites /\ QueuedIsKept

-----------------------------------------------------------------------------
(* Sequences.                                                              *)

\* Taking the head: the rest is the sequence shifted by one.
LEMMA TailFacts ==
    ASSUME NEW S, NEW s \in Seq(S), s # <<>>
    PROVE  /\ Tail(s) \in Seq(S) /\ Head(s) \in S /\ Head(s) = s[1] /\ 1 \in DOMAIN s
           /\ Len(Tail(s)) = Len(s) - 1
           /\ \A k \in DOMAIN Tail(s) : k + 1 \in DOMAIN s /\ Tail(s)[k] = s[k + 1]
           /\ Elems(s) = {Head(s)} \cup Elems(Tail(s))
<1>1. /\ Tail(s) \in Seq(S) /\ Head(s) = s[1] /\ 1 \in DOMAIN s /\ Head(s) \in S
      /\ Len(Tail(s)) = Len(s) - 1
      /\ \A k \in DOMAIN Tail(s) : k + 1 \in DOMAIN s /\ Tail(s)[k] = s[k + 1]
  OBVIOUS
<1>2. \A k \in DOMAIN s : k = 1 \/ (k - 1 \in DOMAIN Tail(s) /\ Tail(s)[k - 1] = s[k])
  OBVIOUS
<1>3. ASSUME NEW k \in DOMAIN s PROVE s[k] \in {Head(s)} \cup Elems(Tail(s))
  BY <1>1, <1>2 DEF Elems
<1>4. {Head(s)} \cup Elems(Tail(s)) \subseteq Elems(s)
  BY <1>1 DEF Elems
<1>5. Elems(s) \subseteq {Head(s)} \cup Elems(Tail(s))
  BY <1>3 DEF Elems
<1> QED
  BY <1>1, <1>4, <1>5

\* Appending: the element stands last.
LEMMA AppendFacts ==
    ASSUME NEW S, NEW s \in Seq(S), NEW e \in S
    PROVE  /\ Append(s, e) \in Seq(S) /\ Len(Append(s, e)) = Len(s) + 1
           /\ DOMAIN Append(s, e) = DOMAIN s \cup {Len(s) + 1}
           /\ Append(s, e)[Len(s) + 1] = e
           /\ \A k \in DOMAIN s : Append(s, e)[k] = s[k] /\ k < Len(s) + 1
           /\ Elems(Append(s, e)) = Elems(s) \cup {e}
<1>1. /\ Append(s, e) \in Seq(S) /\ Len(Append(s, e)) = Len(s) + 1
      /\ DOMAIN Append(s, e) = DOMAIN s \cup {Len(s) + 1}
      /\ Append(s, e)[Len(s) + 1] = e
      /\ \A k \in DOMAIN s : Append(s, e)[k] = s[k] /\ k < Len(s) + 1
  OBVIOUS
<1> QED
  BY <1>1 DEF Elems

-----------------------------------------------------------------------------
(* do_send_data.                                                           *)

\* It does nothing, or writes the head of the queue on the connection there is.
LEMMA SendCases ==
    ASSUME NEW buff \in Seq(Msgs), NEW sending \in BOOLEAN, NEW pending \in SUBSET Writes,
           do_send_data(buff, sending, pending)
    PROVE  \/ /\ m_send_buff' = buff /\ m_is_sending' = sending /\ writes' = pending
           \/ /\ buff # <<>> /\ ~sending /\ is_open /\ m_connect_stat = "CONNECTED"
              /\ m_send_buff' = Tail(buff) /\ m_is_sending' = TRUE
              /\ writes' = pending \cup {[msg |-> Head(buff), on |-> conn, state |-> "out"]}
BY DEF do_send_data, MaySend

\* What it leaves is typed, in order, alone, and complete, if what it found was.
LEMMA SendKeeps ==
    ASSUME TypeOK, LinkInv, UNCHANGED <<conn, wire>>,
           NEW buff \in Seq(Msgs), NEW sending \in BOOLEAN, NEW pending \in SUBSET Writes,
           NEW n \in Nat,
           do_send_data(buff, sending, pending),
           Ordered(buff, pending, wire, n),
           \A w \in pending : w.on <= conn
    PROVE  /\ m_send_buff' \in Seq(Msgs) /\ m_is_sending' \in BOOLEAN /\ writes' \subseteq Writes
           /\ Len(m_send_buff') <= Len(buff)
           /\ Ordered(m_send_buff', writes', wire', n)
           /\ Alone(sending, pending, wire, conn, Shutting) =>
                  Alone(m_is_sending', writes', wire', conn', Shutting)
           /\ PastWrites' /\ (\A w \in writes' : w.state # "out" => w \in pending)
           /\ Elems(buff) \cup {w.msg : w \in pending} =
                  Elems(m_send_buff') \cup {w.msg : w \in writes'}
<1>1. CASE /\ m_send_buff' = buff /\ m_is_sending' = sending /\ writes' = pending
  BY <1>1 DEF PastWrites, TypeOK
<1>2. CASE /\ buff # <<>> /\ ~sending /\ is_open /\ m_connect_stat = "CONNECTED"
           /\ m_send_buff' = Tail(buff) /\ m_is_sending' = TRUE
           /\ writes' = pending \cup {[msg |-> Head(buff), on |-> conn, state |-> "out"]}
  <2> DEFINE new == [msg |-> Head(buff), on |-> conn, state |-> "out"]
  <2>1. /\ Tail(buff) \in Seq(Msgs) /\ Head(buff) \in Msgs /\ Head(buff) = buff[1] /\ 1 \in DOMAIN buff
        /\ Len(Tail(buff)) = Len(buff) - 1
        /\ \A k \in DOMAIN Tail(buff) : k + 1 \in DOMAIN buff /\ Tail(buff)[k] = buff[k + 1]
        /\ Elems(buff) = {Head(buff)} \cup Elems(Tail(buff))
    BY <1>2, TailFacts
  <2>2. new \in Writes
    BY <1>2, <2>1, SendQueueAssumption DEF Msgs, Writes, TypeOK, LinkInv
  <2>3. /\ m_send_buff' \in Seq(Msgs) /\ m_is_sending' \in BOOLEAN /\ writes' \subseteq Writes
        /\ Len(m_send_buff') <= Len(buff)
    BY <1>2, <2>1, <2>2
  <2>4. Ordered(m_send_buff', writes', wire', n)
    <3>1. \A k \in DOMAIN Tail(buff) : k \in Nat /\ 1 < k + 1 /\ buff[1] < Tail(buff)[k]
      BY <2>1 DEF Ordered
    <3>2. \A j, k \in DOMAIN Tail(buff) : j < k => Tail(buff)[j] < Tail(buff)[k]
      BY <2>1 DEF Ordered
    <3>3. \A k \in DOMAIN Tail(buff) : Tail(buff)[k] \in 1 .. n
      BY <2>1 DEF Ordered
    <3>4. \A w \in writes' : w.msg \in 1 .. n /\ \A k \in DOMAIN Tail(buff) : w.msg < Tail(buff)[k]
      BY <1>2, <2>1, <3>1 DEF Ordered
    <3>5. \A j \in DOMAIN wire :
              wire[j].msg \in 1 .. n /\ \A k \in DOMAIN Tail(buff) : wire[j].msg < Tail(buff)[k]
      BY <2>1 DEF Ordered
    <3> QED
      BY <1>2, <3>2, <3>3, <3>4, <3>5 DEF Ordered
  <2>5. Alone(sending, pending, wire, conn, Shutting) =>
            Alone(m_is_sending', writes', wire', conn', Shutting)
    <3> SUFFICES ASSUME Alone(sending, pending, wire, conn, Shutting)
                 PROVE  Alone(m_is_sending', writes', wire', conn', Shutting)
      OBVIOUS
    <3>1. ~Shutting /\ \A w \in pending : w.on # conn
      BY <1>2 DEF Alone, Shutting
    <3>2. \A j \in DOMAIN wire : wire[j].msg < Head(buff)
      BY <2>1 DEF Ordered
    <3>3. \A w \in writes' : w.on = conn => w = new
      BY <1>2, <3>1
    <3> QED
      BY <1>2, <3>1, <3>2, <3>3 DEF Alone
  <2>6. PastWrites' /\ (\A w \in writes' : w.state # "out" => w \in pending)
    BY <1>2 DEF PastWrites, TypeOK
  <2>7. Elems(buff) \cup {w.msg : w \in pending} = Elems(m_send_buff') \cup {w.msg : w \in writes'}
    <3>0. new.msg = Head(buff) /\ writes' = pending \cup {new}
      BY <1>2
    <3>1. {w.msg : w \in writes'} = {w.msg : w \in pending} \cup {Head(buff)}
      BY <3>0
    <3> QED
      BY <1>2, <2>1, <3>1
  <2> QED
    BY <2>3, <2>4, <2>5, <2>6, <2>7
<1> QED
  BY <1>1, <1>2, SendCases

-----------------------------------------------------------------------------
(* Initially.                                                              *)

LEMMA InitQueue == Init => QueueInv
<1> SUFFICES ASSUME Init PROVE QueueInv
  OBVIOUS
<1>1. LinkInv /\ PastWrites /\ EndedWrites /\ QueuedIsKept
  BY DEF Init, LinkInv, is_open, PastWrites, EndedWrites, QueuedIsKept
<1>0. TypeOK
  <2>1. m_send_buff \in Seq(1 .. MaxMsgs) /\ wire \in Seq(Writes)
    BY DEF Init
  <2>2. /\ conn \in 0 .. MaxConns /\ next \in 0 .. MaxMsgs /\ room \subseteq Senders
        /\ writes \subseteq Writes /\ accepted \subseteq 1 .. next /\ queued \subseteq accepted
        /\ lost \subseteq 1 .. next
    BY SendQueueAssumption DEF Init
  <2>3. /\ m_is_sending \in BOOLEAN /\ sock = "none" /\ crossed \in BOOLEAN
        /\ m_connect_stat = "UNCONNECT" /\ jobs \in [Steps -> Nat]
    BY DEF Init
  <2> QED
    BY <2>1, <2>2, <2>3 DEF TypeOK
<1>2. RoomInv
  <2>1. Cardinality(room) = 0 /\ Cardinality(Senders) \in Nat
    BY SendQueueAssumption, FS_EmptySet, FS_CardinalityType DEF Init
  <2> QED
    BY <2>1, SendQueueAssumption DEF Init, RoomInv
<1>3. OrderInv /\ AloneInv
  BY DEF Init, OrderInv, AloneInv, Ordered, Alone
<1> QED
  BY <1>0, <1>1, <1>2, <1>3 DEF QueueInv

-----------------------------------------------------------------------------
(* The senders.                                                            *)

\* The package of send_data is never put into the queue.
LEMMA SendDataKeeps == QueueInv /\ send_data => QueueInv'
<1> SUFFICES ASSUME QueueInv, send_data PROVE QueueInv'
  OBVIOUS
<1> USE DEF QueueInv
<1>1. next + 1 \in Nat /\ Ordered(m_send_buff, writes, wire, next + 1)
  BY DEF TypeOK, OrderInv, Ordered
<1>2. /\ m_send_buff' \in Seq(Msgs) /\ m_is_sending' \in BOOLEAN /\ writes' \subseteq Writes
      /\ Len(m_send_buff') <= Len(m_send_buff)
      /\ Ordered(m_send_buff', writes', wire', next + 1)
      /\ Alone(m_is_sending, writes, wire, conn, Shutting) =>
             Alone(m_is_sending', writes', wire', conn', Shutting)
      /\ PastWrites' /\ (\A w \in writes' : w.state # "out" => w \in writes)
      /\ Elems(m_send_buff) \cup {w.msg : w \in writes} =
             Elems(m_send_buff') \cup {w.msg : w \in writes'}
  BY <1>1, SendKeeps DEF TypeOK, PastWrites, send_data, link, Msgs
<1>3. TypeOK'
  <2>1. /\ next' = next + 1 /\ next' \in 0 .. MaxMsgs /\ 1 .. next \subseteq 1 .. next'
        /\ accepted' = accepted \cup {next'} /\ next' \in 1 .. next'
    BY SendQueueAssumption DEF TypeOK, send_data
  <2>2. accepted' \subseteq 1 .. next' /\ queued' \subseteq accepted' /\ lost' \subseteq 1 .. next'
    BY <2>1 DEF TypeOK, send_data
  <2> QED
    BY <1>2, <2>1, <2>2 DEF TypeOK, send_data, link, Msgs
<1>4. RoomInv'
  <2>1. Cardinality(room) \in Nat /\ Cardinality(Senders) \in Nat
    BY SendQueueAssumption, FS_Subset, FS_CardinalityType DEF TypeOK
  <2> QED
    BY <1>2, <2>1, SendQueueAssumption DEF RoomInv, send_data, TypeOK
<1>5. QueuedIsKept'
  BY <1>2 DEF QueuedIsKept, Kept, send_data
<1>6. OrderInv' /\ AloneInv' /\ LinkInv'
  <2>1. Shutting' = Shutting /\ LinkInv'
    BY DEF Shutting, LinkInv, is_open, send_data, link
  <2> QED
    BY <1>2, <2>1 DEF OrderInv, AloneInv, send_data
<1>7. EndedWrites'
  BY <1>2 DEF EndedWrites, send_data
<1> QED
  BY <1>2, <1>3, <1>4, <1>5, <1>6, <1>7

LEMMA FindRoomKeeps == ASSUME NEW s \in Senders PROVE QueueInv /\ FindRoom(s) => QueueInv'
<1> SUFFICES ASSUME QueueInv, FindRoom(s) PROVE QueueInv'
  OBVIOUS
<1> USE DEF QueueInv
<1>1. /\ TypeOK' /\ LinkInv' /\ OrderInv' /\ AloneInv' /\ PastWrites'
      /\ EndedWrites' /\ QueuedIsKept'
  <2>1. /\ UNCHANGED <<queue, link, book, lost, wire, crossed>> /\ room' \subseteq Senders
        /\ TypeOK'
    BY DEF FindRoom, TypeOK, queue, link, book
  <2>2. LinkInv' /\ OrderInv' /\ PastWrites' /\ EndedWrites' /\ QueuedIsKept'
    BY <2>1 DEF LinkInv, is_open, OrderInv, PastWrites, EndedWrites, QueuedIsKept, Kept, Ordered,
                queue, link, book
  <2>3. AloneInv'
    BY <2>1 DEF AloneInv, Alone, Shutting, is_open, queue, link
  <2> QED
    BY <2>1, <2>2, <2>3
<1>2. RoomInv'
  <2>1. /\ IsFiniteSet(room') /\ room' \subseteq Senders
        /\ Cardinality(room') <= Cardinality(Senders)
        /\ Cardinality(room') \in Nat /\ Cardinality(Senders) \in Nat
    BY SendQueueAssumption, FS_Subset, FS_CardinalityType DEF TypeOK, FindRoom
  <2> QED
    BY <2>1, SendQueueAssumption DEF RoomInv, FindRoom, HasRoom, TypeOK, queue
<1> QED
  BY <1>1, <1>2

LEMMA SendNativeDataKeeps ==
    ASSUME NEW s \in Senders PROVE QueueInv /\ send_native_data(s) => QueueInv'
<1> SUFFICES ASSUME QueueInv, send_native_data(s) PROVE QueueInv'
  OBVIOUS
<1> USE DEF QueueInv
<1> DEFINE buff == Append(m_send_buff, next + 1)
<1>1. /\ buff \in Seq(Msgs) /\ Len(buff) = Len(m_send_buff) + 1
      /\ DOMAIN buff = DOMAIN m_send_buff \cup {Len(m_send_buff) + 1}
      /\ buff[Len(m_send_buff) + 1] = next + 1
      /\ \A k \in DOMAIN m_send_buff : buff[k] = m_send_buff[k] /\ k < Len(m_send_buff) + 1
      /\ Elems(buff) = Elems(m_send_buff) \cup {next + 1}
  BY AppendFacts, SendQueueAssumption DEF TypeOK, send_native_data, Msgs
<1> HIDE DEF buff
<1>2. next + 1 \in Nat /\ Ordered(buff, writes, wire, next + 1)
  <2>1. next \in Nat /\ \A k \in DOMAIN m_send_buff : k \in Nat
    BY SendQueueAssumption DEF TypeOK
  <2>2. \A k \in DOMAIN buff :
            \/ k \in DOMAIN m_send_buff /\ buff[k] = m_send_buff[k] /\ k < Len(m_send_buff) + 1
            \/ k = Len(m_send_buff) + 1 /\ buff[k] = next + 1
    BY <1>1
  <2>3. Len(m_send_buff) \in Nat
    BY DEF TypeOK
  <2>4. /\ \A k \in DOMAIN buff : buff[k] \in 1 .. next + 1
        /\ \A j, k \in DOMAIN buff : j < k => buff[j] < buff[k]
    BY <2>1, <2>2, <2>3 DEF OrderInv, Ordered
  <2>5. \A w \in writes : w.msg \in 1 .. next + 1 /\ \A k \in DOMAIN buff : w.msg < buff[k]
    BY <2>1, <2>2 DEF OrderInv, Ordered
  <2>6. \A j \in DOMAIN wire :
            wire[j].msg \in 1 .. next + 1 /\ \A k \in DOMAIN buff : wire[j].msg < buff[k]
    BY <2>1, <2>2 DEF OrderInv, Ordered
  <2> QED
    BY <2>1, <2>4, <2>5, <2>6 DEF Ordered
<1>3. /\ m_send_buff' \in Seq(Msgs) /\ m_is_sending' \in BOOLEAN /\ writes' \subseteq Writes
      /\ Len(m_send_buff') <= Len(buff)
      /\ Ordered(m_send_buff', writes', wire', next + 1)
      /\ Alone(m_is_sending, writes, wire, conn, Shutting) =>
             Alone(m_is_sending', writes', wire', conn', Shutting)
      /\ PastWrites' /\ (\A w \in writes' : w.state # "out" => w \in writes)
      /\ Elems(buff) \cup {w.msg : w \in writes} =
             Elems(m_send_buff') \cup {w.msg : w \in writes'}
  <2>1. do_send_data(buff, m_is_sending, writes)
    BY DEF send_native_data, Pushed, buff
  <2> QED
    BY <1>1, <1>2, <2>1, SendKeeps DEF TypeOK, PastWrites, send_native_data, link
<1>4. TypeOK'
  <2>1. /\ next' = next + 1 /\ next' \in 0 .. MaxMsgs /\ 1 .. next \subseteq 1 .. next'
        /\ accepted' = accepted \cup {next'} /\ queued' = queued \cup {next'}
        /\ next' \in 1 .. next'
    BY SendQueueAssumption DEF TypeOK, send_native_data, Accepted
  <2>2. accepted' \subseteq 1 .. next' /\ queued' \subseteq accepted' /\ lost' \subseteq 1 .. next'
    BY <2>1 DEF TypeOK, send_native_data
  <2> QED
    BY <1>3, <2>1, <2>2 DEF TypeOK, send_native_data, link, Msgs
<1>5. RoomInv'
  <2>1. /\ Cardinality(room) \in Nat /\ Cardinality(Senders) \in Nat
        /\ Cardinality(room') = Cardinality(room) - 1
    BY SendQueueAssumption, FS_Subset, FS_CardinalityType, FS_RemoveElement
       DEF TypeOK, send_native_data
  <2> QED
    BY <1>1, <1>3, <2>1, SendQueueAssumption DEF RoomInv, TypeOK
<1>6. QueuedIsKept'
  BY <1>1, <1>3 DEF QueuedIsKept, Kept, send_native_data
<1>7. OrderInv' /\ AloneInv' /\ LinkInv'
  <2>1. Shutting' = Shutting /\ LinkInv'
    BY DEF Shutting, LinkInv, is_open, send_native_data, link
  <2> QED
    BY <1>3, <2>1 DEF OrderInv, AloneInv, send_native_data
<1>8. EndedWrites'
  BY <1>3 DEF EndedWrites, send_native_data
<1> QED
  BY <1>3, <1>4, <1>5, <1>6, <1>7, <1>8

-----------------------------------------------------------------------------
(* The writes, and send_handler.                                           *)

LEMMA WriteDoneKeeps == ASSUME NEW w \in writes PROVE QueueInv /\ WriteDone(w) => QueueInv'
<1> SUFFICES ASSUME QueueInv, WriteDone(w) PROVE QueueInv'
  OBVIOUS
<1> USE DEF QueueInv
<1> DEFINE sent == [w EXCEPT !.state = "sent"]
<1>1. /\ w \in Writes /\ sent \in Writes /\ sent.msg = w.msg /\ sent.on = w.on
      /\ sent.state = "sent" /\ writes' = (writes \ {w}) \cup {sent}
      /\ w.state = "out" /\ w.on = conn
  BY DEF TypeOK, Writes, WriteDone, Ended
<1> HIDE DEF sent
<1>2. /\ wire' \in Seq(Writes) /\ DOMAIN wire' = DOMAIN wire \cup {Len(wire) + 1}
      /\ wire'[Len(wire) + 1] = w
      /\ \A k \in DOMAIN wire : wire'[k] = wire[k] /\ k < Len(wire) + 1
  BY <1>1, AppendFacts DEF TypeOK, WriteDone
<1>3. TypeOK' /\ LinkInv' /\ RoomInv' /\ PastWrites'
  BY <1>1, <1>2 DEF TypeOK, LinkInv, is_open, RoomInv, PastWrites, WriteDone, link, book
<1>4. \A k \in DOMAIN wire' :
          \/ k \in DOMAIN wire /\ wire'[k] = wire[k] /\ k < Len(wire) + 1
          \/ k = Len(wire) + 1 /\ wire'[k] = w
  BY <1>2
<1>5. OrderInv'
  BY <1>1, <1>4 DEF OrderInv, Ordered, WriteDone, book
<1>6. AloneInv'
  <2> SUFFICES ASSUME ~crossed
               PROVE  /\ Alone(m_is_sending', writes', wire', conn', Shutting)
                      /\ \A j, k \in DOMAIN wire' : j < k => wire'[j].msg < wire'[k].msg
    BY DEF AloneInv, Shutting, is_open, WriteDone, link
  <2>1. /\ Alone(m_is_sending, writes, wire, conn, Shutting)
        /\ \A j, k \in DOMAIN wire : j < k => wire[j].msg < wire[k].msg
    BY DEF AloneInv
  <2>2. \A v \in writes' : v.on = conn => v = sent
    BY <1>1, <2>1 DEF Alone
  <2>3. Alone(m_is_sending', writes', wire', conn', Shutting)
    BY <1>1, <2>1, <2>2 DEF Alone, WriteDone, link
  <2>4. \A j \in DOMAIN wire : wire[j].msg < w.msg
    BY <1>1, <2>1 DEF Alone
  <2>5. Len(wire) \in Nat /\ \A k \in DOMAIN wire : k \in Nat
    BY DEF TypeOK
  <2>6. \A j, k \in DOMAIN wire' : j < k => wire'[j].msg < wire'[k].msg
    BY <1>4, <2>1, <2>4, <2>5
  <2> QED
    BY <2>3, <2>6
<1>7. QueuedIsKept'
  <2>1. \A k \in DOMAIN wire : \E j \in DOMAIN wire' : wire'[j].msg = wire[k].msg
    BY <1>2
  <2>2. \A v \in writes : \E u \in writes' : u.msg = v.msg
    BY <1>1
  <2> QED
    BY <2>1, <2>2 DEF QueuedIsKept, Kept, WriteDone, book
<1>8. EndedWrites'
  <2>1. \A k \in DOMAIN wire : \E j \in DOMAIN wire' : wire'[j].msg = wire[k].msg
    BY <1>2
  <2>2. \E j \in DOMAIN wire' : wire'[j].msg = sent.msg
    BY <1>1, <1>2
  <2> QED
    BY <1>1, <2>1, <2>2 DEF EndedWrites, WriteDone
<1> QED
  BY <1>3, <1>5, <1>6, <1>7, <1>8

LEMMA WriteFailsKeeps == ASSUME NEW w \in writes PROVE QueueInv /\ WriteFails(w) => QueueInv'
<1> SUFFICES ASSUME QueueInv, WriteFails(w) PROVE QueueInv'
  OBVIOUS
<1> USE DEF QueueInv
<1> DEFINE failed == [w EXCEPT !.state = "failed"]
<1>1. /\ w \in Writes /\ failed \in Writes /\ failed.msg = w.msg /\ failed.on = w.on
      /\ failed.state = "failed" /\ writes' = (writes \ {w}) \cup {failed}
  BY DEF TypeOK, Writes, WriteFails, Ended
<1> HIDE DEF failed
<1>2. w.msg \in 1 .. next
  BY DEF OrderInv, Ordered
<1>3. TypeOK' /\ LinkInv' /\ RoomInv' /\ PastWrites'
  BY <1>1, <1>2 DEF TypeOK, LinkInv, is_open, RoomInv, PastWrites, WriteFails, link, book
<1>4. OrderInv'
  BY <1>1 DEF OrderInv, Ordered, WriteFails, book
<1>5. AloneInv'
  <2>1. Shutting' = Shutting
    BY DEF Shutting, is_open, WriteFails, link
  <2> QED
    BY <1>1, <2>1 DEF AloneInv, Alone, WriteFails, link
<1>6. QueuedIsKept'
  <2>1. \A v \in writes : \E u \in writes' : u.msg = v.msg
    BY <1>1
  <2> QED
    BY <2>1 DEF QueuedIsKept, Kept, WriteFails, book
<1>7. EndedWrites'
  BY <1>1 DEF EndedWrites, WriteFails
<1> QED
  BY <1>3, <1>4, <1>5, <1>6, <1>7

\* The handler of this connection's write finds no other; that of an older one
\* is a crossing, or there is no socket.
LEMMA SendHandlerKeeps == ASSUME NEW w \in writes PROVE QueueInv /\ send_handler(w) => QueueInv'
<1> SUFFICES ASSUME QueueInv, send_handler(w) PROVE QueueInv'
  OBVIOUS
<1> USE DEF QueueInv
<1> DEFINE others == writes \ {w}
<1>1. others \in SUBSET Writes /\ next \in Nat /\ Ordered(m_send_buff, others, wire, next)
  BY DEF TypeOK, OrderInv, Ordered
<1>2. /\ m_send_buff' \in Seq(Msgs) /\ m_is_sending' \in BOOLEAN /\ writes' \subseteq Writes
      /\ Len(m_send_buff') <= Len(m_send_buff)
      /\ Ordered(m_send_buff', writes', wire', next)
      /\ Alone(FALSE, others, wire, conn, Shutting) =>
             Alone(m_is_sending', writes', wire', conn', Shutting)
      /\ PastWrites' /\ (\A v \in writes' : v.state # "out" => v \in others)
      /\ Elems(m_send_buff) \cup {v.msg : v \in others} =
             Elems(m_send_buff') \cup {v.msg : v \in writes'}
  <2>1. do_send_data(m_send_buff, FALSE, others)
    BY DEF send_handler, GoOn
  <2> QED
    BY <1>1, <2>1, SendKeeps DEF TypeOK, PastWrites, send_handler, link, Msgs
<1>3. TypeOK' /\ LinkInv'
  BY <1>2 DEF TypeOK, LinkInv, is_open, send_handler, link, book, Msgs
<1>4. RoomInv'
  <2>1. Cardinality(room) \in Nat /\ Cardinality(Senders) \in Nat
    BY SendQueueAssumption, FS_Subset, FS_CardinalityType DEF TypeOK
  <2> QED
    BY <1>2, <2>1, SendQueueAssumption DEF RoomInv, send_handler, TypeOK
<1>5. QueuedIsKept'
  <2>1. w.state \in {"sent", "failed"}
    BY DEF TypeOK, Writes, send_handler
  <2>2. w.msg \in lost \cup {wire[k].msg : k \in DOMAIN wire}
    BY <2>1 DEF EndedWrites
  <2>3. \A v \in writes : v = w \/ v.msg \in {u.msg : u \in others}
    OBVIOUS
  <2> QED
    BY <1>2, <2>2, <2>3 DEF QueuedIsKept, Kept, send_handler, book
<1>6. OrderInv' /\ EndedWrites'
  BY <1>2 DEF OrderInv, EndedWrites, send_handler, book
<1>7. AloneInv'
  <2>1. Shutting' = Shutting
    BY DEF Shutting, is_open, send_handler, link
  <2> SUFFICES ASSUME ~crossed, w.on = conn \/ ~ is_open
               PROVE  Alone(FALSE, others, wire, conn, Shutting)
    BY <1>2, <2>1 DEF AloneInv, send_handler
  <2> QED
    BY DEF AloneInv, Alone, Shutting
<1> QED
  BY <1>2, <1>3, <1>4, <1>5, <1>6, <1>7

-----------------------------------------------------------------------------
(* The connection.                                                         *)

\* A step that leaves the queue and the book of the packages alone: what it may do
\* to the connection is open no socket with a write, and let none be CONNECTED
\* under a reset that is about to close it.
LEMMA LinkKeeps ==
    ASSUME QueueInv, UNCHANGED <<queue, rest>>,
           conn' \in Nat, conn <= conn', conn' <= MaxConns,
           sock' \in {"none", "opening", "up"}, jobs' \in [Steps -> Nat],
           m_connect_stat' \in {"UNCONNECT", "CONNECTING", "CONNECTED"},
           crossed' \in BOOLEAN, crossed => crossed', LinkInv',
           ~crossed' => conn' # conn \/ (Shutting => Shutting')
    PROVE  QueueInv'
<1> USE DEF QueueInv
<1>1. TypeOK'
  BY SendQueueAssumption DEF TypeOK, queue, rest, book
<1>2. /\ conn \in Nat
      /\ \A w \in writes : w \in Writes /\ w.on <= conn /\ w.on \in Nat /\ conn <= conn'
  BY SendQueueAssumption DEF TypeOK, PastWrites, Writes
<1>3. RoomInv' /\ OrderInv' /\ EndedWrites' /\ QueuedIsKept'
  BY DEF RoomInv, OrderInv, Ordered, EndedWrites, QueuedIsKept, Kept, queue, rest, book
<1>4. PastWrites'
  BY <1>2 DEF PastWrites, queue
<1>5. AloneInv'
  <2>1. SUFFICES ASSUME ~crossed'
                 PROVE  /\ Alone(m_is_sending', writes', wire', conn', Shutting')
                        /\ \A j, k \in DOMAIN wire' : j < k => wire'[j].msg < wire'[k].msg
    BY DEF AloneInv
  <2>2. /\ \A v, w \in writes : v.on = conn /\ w.on = conn => v = w
        /\ Shutting \/ \A w \in writes : w.on = conn => m_is_sending
        /\ \A w \in writes : w.on = conn /\ w.state = "out" =>
               \A j \in DOMAIN wire : wire[j].msg < w.msg
        /\ \A j, k \in DOMAIN wire : j < k => wire[j].msg < wire[k].msg
    BY <2>1 DEF AloneInv, Alone
  <2>3. CASE conn' # conn
    <3>1. \A w \in writes' : w.on # conn'
      BY <1>2, <2>3 DEF queue
    <3> QED
      BY <3>1, <2>2 DEF Alone, rest
  <2>4. CASE conn' = conn
    <3>1. Shutting' \/ \A w \in writes : w.on = conn => m_is_sending
      BY <2>1, <2>2, <2>4
    <3> QED
      BY <2>2, <2>4, <3>1 DEF Alone, queue, rest
  <2> QED
    BY <2>3, <2>4
<1> QED
  BY <1>1, <1>3, <1>4, <1>5

\* Moving a thread from one step to the next.
LEMMA JobsFacts ==
    ASSUME TypeOK, NEW s \in Steps, NEW t \in Steps, s # t, jobs[s] > 0
    PROVE  /\ Finish(s) \in [Steps -> Nat] /\ Move(s, t) \in [Steps -> Nat]
           /\ Move(s, t)[t] > 0
           /\ \A u \in Steps \ {s} : Finish(s)[u] = jobs[u] /\ (Move(s, t)[u] = jobs[u] \/ u = t)
<1>1. jobs \in [Steps -> Nat] /\ jobs[s] - 1 \in Nat /\ jobs[t] + 1 \in Nat /\ jobs[t] + 1 > 0
  BY DEF TypeOK
<1>2. Finish(s) \in [Steps -> Nat] /\ \A u \in Steps \ {s} : Finish(s)[u] = jobs[u]
  BY <1>1 DEF Finish
<1>3. /\ Move(s, t) \in [Steps -> Nat] /\ Move(s, t)[t] = jobs[t] + 1
      /\ \A u \in Steps \ {s} : Move(s, t)[u] = jobs[u] \/ u = t
  BY <1>1 DEF Move
<1> QED
  BY <1>1, <1>2, <1>3

\* A socket is opened only where there is none, and no write is of it yet.
LEMMA StartWorkKeeps == QueueInv /\ start_work => QueueInv'
<1> SUFFICES ASSUME QueueInv, start_work PROVE QueueInv'
  OBVIOUS
<1>1. conn \in Nat /\ MaxConns \in Nat /\ TypeOK /\ LinkInv
  BY SendQueueAssumption DEF QueueInv, TypeOK
<1>2. LinkInv'
  BY <1>1 DEF LinkInv, is_open, start_work
<1>3. conn' # conn \/ (Shutting => Shutting')
  BY <1>1 DEF Shutting, is_open, start_work
<1>4. /\ UNCHANGED <<queue, rest, crossed, jobs>> /\ m_connect_stat' = "CONNECTING"
      /\ conn' \in Nat /\ conn <= conn' /\ conn' <= MaxConns
      /\ sock' \in {"none", "opening", "up"}
  BY <1>1 DEF start_work, TypeOK
<1> QED
  BY <1>1, <1>2, <1>3, <1>4, LinkKeeps DEF TypeOK

\* The connect of the socket ends, one way or the other.
LEMMA ConnectKeeps == QueueInv /\ (ConnectOk \/ ConnectFails) => QueueInv'
<1> SUFFICES ASSUME QueueInv, ConnectOk \/ ConnectFails PROVE QueueInv'
  OBVIOUS
<1>1. conn \in Nat /\ MaxConns \in Nat /\ TypeOK /\ LinkInv
  BY SendQueueAssumption DEF QueueInv, TypeOK
<1>2. LinkInv'
  BY <1>1 DEF LinkInv, is_open, ConnectOk, ConnectFails
<1>3. /\ UNCHANGED <<queue, rest, crossed, conn>> /\ sock' \in {"none", "opening", "up"}
      /\ m_connect_stat' \in {m_connect_stat, "UNCONNECT"}
      /\ jobs' \in [Steps -> Nat] /\ jobs'["close"] = jobs["close"]
  BY <1>1 DEF ConnectOk, ConnectFails, TypeOK, Steps
<1>4. Shutting => Shutting'
  BY <1>3 DEF Shutting, is_open, ConnectOk, ConnectFails
<1> QED
  BY <1>1, <1>2, <1>3, <1>4, LinkKeeps DEF TypeOK

\* The client is said CONNECTED while a reset has still to close the socket: this is
\* a crossing.
LEMMA ConnectedHandlerKeeps == QueueInv /\ connected_handler => QueueInv'
<1> SUFFICES ASSUME QueueInv, connected_handler PROVE QueueInv'
  OBVIOUS
<1>1. conn \in Nat /\ MaxConns \in Nat /\ TypeOK /\ LinkInv
  BY SendQueueAssumption DEF QueueInv, TypeOK
<1>2. LinkInv'
  BY <1>1 DEF LinkInv, is_open, connected_handler
<1>3. jobs' \in [Steps -> Nat] /\ jobs'["close"] = jobs["close"]
  BY <1>1, JobsFacts DEF connected_handler, Steps
<1>4. ~crossed' => (Shutting => Shutting')
  BY <1>1, <1>3 DEF Shutting, is_open, connected_handler
<1>5. /\ UNCHANGED <<queue, rest, conn, sock>> /\ m_connect_stat' = "CONNECTED"
      /\ crossed' \in BOOLEAN /\ (crossed => crossed')
  BY <1>1 DEF connected_handler, TypeOK
<1> QED
  BY <1>1, <1>2, <1>3, <1>4, <1>5, LinkKeeps DEF TypeOK

\* What has gathered is sent, on the socket there is by now.
LEMMA SendPackKeeps == QueueInv /\ send_pack_in_buff => QueueInv'
<1> SUFFICES ASSUME QueueInv, send_pack_in_buff PROVE QueueInv'
  OBVIOUS
<1> USE DEF QueueInv
<1>1. next \in Nat /\ Ordered(m_send_buff, writes, wire, next)
  BY DEF TypeOK, OrderInv
<1>2. /\ m_send_buff' \in Seq(Msgs) /\ m_is_sending' \in BOOLEAN /\ writes' \subseteq Writes
      /\ Len(m_send_buff') <= Len(m_send_buff)
      /\ Ordered(m_send_buff', writes', wire', next)
      /\ Alone(m_is_sending, writes, wire, conn, Shutting) =>
             Alone(m_is_sending', writes', wire', conn', Shutting)
      /\ PastWrites' /\ (\A w \in writes' : w.state # "out" => w \in writes)
      /\ Elems(m_send_buff) \cup {w.msg : w \in writes} =
             Elems(m_send_buff') \cup {w.msg : w \in writes'}
  BY <1>1, SendKeeps DEF TypeOK, PastWrites, send_pack_in_buff, rest, Msgs
<1>3. jobs' \in [Steps -> Nat] /\ jobs'["close"] = jobs["close"]
  BY JobsFacts DEF send_pack_in_buff, Steps
<1>4. TypeOK' /\ LinkInv' /\ Shutting' = Shutting
  BY <1>2, <1>3 DEF TypeOK, LinkInv, Shutting, is_open, send_pack_in_buff, rest, book, Msgs
<1>5. RoomInv'
  <2>1. Cardinality(room) \in Nat /\ Cardinality(Senders) \in Nat
    BY SendQueueAssumption, FS_Subset, FS_CardinalityType DEF TypeOK
  <2> QED
    BY <1>2, <2>1, SendQueueAssumption DEF RoomInv, send_pack_in_buff, rest, TypeOK
<1>6. QueuedIsKept'
  BY <1>2 DEF QueuedIsKept, Kept, send_pack_in_buff, rest, book
<1>7. OrderInv' /\ AloneInv' /\ EndedWrites'
  BY <1>2, <1>4 DEF OrderInv, AloneInv, EndedWrites, send_pack_in_buff, rest, book
<1> QED
  BY <1>2, <1>4, <1>5, <1>6, <1>7

\* The test and the assignment of reset_socket, and its close, leave the queue alone.
LEMMA ResetKeeps == QueueInv /\ (reset_socket \/ Unconnect \/ close_socket) => QueueInv'
<1> SUFFICES ASSUME QueueInv, reset_socket \/ Unconnect \/ close_socket PROVE QueueInv'
  OBVIOUS
<1>1. conn \in Nat /\ MaxConns \in Nat /\ TypeOK /\ LinkInv
  BY SendQueueAssumption DEF QueueInv, TypeOK
<1>2. LinkInv'
  BY <1>1 DEF LinkInv, is_open, reset_socket, Unconnect, close_socket
<1>3. /\ UNCHANGED <<queue, rest, crossed, conn>> /\ sock' \in {"none", "opening", "up"}
      /\ m_connect_stat' \in {m_connect_stat, "UNCONNECT"}
  BY <1>1 DEF reset_socket, Unconnect, close_socket, TypeOK
<1>4. jobs' \in [Steps -> Nat] /\ (is_open' => jobs'["close"] = jobs["close"])
  <2>1. CASE reset_socket
    BY <1>1, <2>1 DEF reset_socket, TypeOK, Steps
  <2>2. CASE Unconnect
    BY <1>1, <2>2, JobsFacts DEF Unconnect, Steps
  <2>3. CASE close_socket
    BY <1>1, <2>3, JobsFacts DEF close_socket, is_open, Steps
  <2> QED
    BY <2>1, <2>2, <2>3
<1>5. Shutting => Shutting'
  BY <1>3, <1>4 DEF Shutting, is_open, reset_socket, Unconnect, close_socket
<1> QED
  BY <1>1, <1>2, <1>3, <1>4, <1>5, LinkKeeps DEF TypeOK

\* The queue is emptied while the socket is to be closed and not CONNECTED, or this
\* is a crossing.
LEMMA ResetBuffKeeps == QueueInv /\ reset_buff => QueueInv'
<1> SUFFICES ASSUME QueueInv, reset_buff PROVE QueueInv'
  OBVIOUS
<1> USE DEF QueueInv
<1>1. /\ m_send_buff' = <<>> /\ <<>> \in Seq(1 .. MaxMsgs) /\ Len(m_send_buff') = 0
      /\ DOMAIN m_send_buff' = {} /\ Elems(m_send_buff') = {}
  BY DEF reset_buff, Elems
<1>2. lost' \subseteq 1 .. next
  BY DEF reset_buff, TypeOK, OrderInv, Ordered, Elems
<1>3. jobs' \in [Steps -> Nat] /\ jobs'["close"] > 0
  BY JobsFacts DEF reset_buff, Steps
<1>4. TypeOK' /\ LinkInv' /\ PastWrites'
  BY <1>1, <1>2, <1>3 DEF TypeOK, LinkInv, is_open, PastWrites, reset_buff, book
<1>5. RoomInv'
  <2>1. Cardinality(room) \in Nat /\ Cardinality(Senders) \in Nat
    BY SendQueueAssumption, FS_Subset, FS_CardinalityType DEF TypeOK
  <2>2. Len(m_send_buff) \in Nat
    BY DEF TypeOK
  <2> QED
    BY <1>1, <2>1, <2>2, SendQueueAssumption DEF RoomInv, reset_buff
<1>6. OrderInv'
  BY <1>1 DEF OrderInv, Ordered, reset_buff, book
<1>7. AloneInv'
  <2>1. ~crossed' => Shutting'
    BY <1>3 DEF Shutting, is_open, reset_buff
  <2> QED
    BY <2>1 DEF AloneInv, Alone, reset_buff
<1>8. EndedWrites' /\ QueuedIsKept'
  BY DEF EndedWrites, QueuedIsKept, Kept, reset_buff, book
<1> QED
  BY <1>4, <1>5, <1>6, <1>7, <1>8

LEMMA StutterKeeps == QueueInv /\ UNCHANGED vars => QueueInv'
BY DEF QueueInv, TypeOK, LinkInv, is_open, RoomInv, OrderInv, Ordered, AloneInv, Alone, Shutting,
       PastWrites, EndedWrites, QueuedIsKept, Kept, vars, queue, link, book

-----------------------------------------------------------------------------
(* The theorems.                                                           *)

\* The invariant is inductive: every step of the senders, the writes, their
\* handlers and the connection keeps it.
LEMMA NextKeeps == QueueInv /\ [Next]_vars => QueueInv'
<1> SUFFICES ASSUME QueueInv, [Next]_vars PROVE QueueInv'
  OBVIOUS
<1>1. CASE send_data
  BY <1>1, SendDataKeeps
<1>2. CASE \E s \in Senders : FindRoom(s) \/ send_native_data(s)
  BY <1>2, FindRoomKeeps, SendNativeDataKeeps
<1>3. CASE \E w \in writes : WriteDone(w) \/ WriteFails(w) \/ send_handler(w)
  BY <1>3, WriteDoneKeeps, WriteFailsKeeps, SendHandlerKeeps
<1>4. CASE start_work \/ ConnectOk \/ ConnectFails \/ connected_handler \/ send_pack_in_buff
  BY <1>4, StartWorkKeeps, ConnectKeeps, ConnectedHandlerKeeps, SendPackKeeps
<1>5. CASE reset_socket \/ Unconnect \/ reset_buff \/ close_socket
  BY <1>5, ResetBuffKeeps, ResetKeeps
<1>6. CASE UNCHANGED vars
  BY <1>6, StutterKeeps
<1> QED
  BY <1>1, <1>2, <1>3, <1>4, <1>5, <1>6 DEF Next

\* The invariant holds in every state, for every set of senders and every bound.
THEOREM QueueInvariant == Spec => []QueueInv
<1>1. Init => QueueInv
  BY InitQueue
<1>2. QueueInv /\ [Next]_vars => QueueInv'
  BY NextKeeps
<1> QED
  BY <1>1, <1>2, PTL DEF Spec

\* The queue of a socket (libusb/xbasicasio.hpp send_native_data) outgrows
\* MAX_MSG_NUM by at most one package of each thread that sends, for any number of
\* threads and any limit: a thread that has read a size that will do has its
\* place reserved.
THEOREM QueueIsBounded == Spec => []QueueBound
<1>1. QueueInv => QueueBound
  <2> SUFFICES ASSUME QueueInv PROVE QueueBound
    OBVIOUS
  <2>1. /\ Cardinality(room) \in Nat /\ Cardinality(Senders) \in Nat
        /\ Len(m_send_buff) \in Nat
    BY SendQueueAssumption, FS_Subset, FS_CardinalityType DEF QueueInv, TypeOK
  <2> QED
    BY <2>1, SendQueueAssumption DEF QueueInv, RoomInv, QueueBound
<1> QED
  BY <1>1, QueueInvariant, PTL

\* do_send_data never has two writes under way on one connection, whatever the order
\* of sends, handlers, resets and reconnections; but for what clears m_is_sending
\* for another connection than its own: the late handler of an older one's write,
\* and a reset under which the client says CONNECTED (libusb/xbasicasio.hpp
\* send_handler, reset_buff, connected_handler).
THEOREM WritesAreSingle == Spec => []OneWrite
<1>1. QueueInv => OneWrite
  BY DEF QueueInv, AloneInv, Alone, OneWrite
<1> QED
  BY <1>1, QueueInvariant, PTL

\* Packages leave in the order in which they were queued, none twice, over any number
\* of connections, but for the same two (libusb/xbasicasio.hpp do_send_data, send_handler, reset_buff).
THEOREM OrderIsKept == Spec => []OrderKept
<1>1. QueueInv => OrderKept
  BY DEF QueueInv, AloneInv, OrderKept
<1> QED
  BY <1>1, QueueInvariant, PTL

\* A package that send_native_data pushed is waiting, being written, written, or was
\* lost with its connection (libusb/xbasicasio.hpp).
THEOREM QueuedAreKept == Spec => []QueuedIsKept
<1>1. QueueInv => QueuedIsKept
  BY DEF QueueInv
<1> QED
  BY <1>1, QueueInvariant, PTL

=============================================================================
