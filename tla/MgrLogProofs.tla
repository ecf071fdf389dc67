---------------------------- MODULE MgrLogProofs ----------------------------
(***************************************************************************)
(* Theorems about MgrLog, for any writers and any number of messages,      *)
(* processes and lines of a file.                                          *)
(***************************************************************************)
EXTENDS MgrLog, FiniteSetTheorems, WellFoundedInduction, TLAPS

-----------------------------------------------------------------------------
(* The inductive invariant.                                                *)

Types ==
    /\ nxt \in [Nodes -> Nodes] /\ prv \in [Nodes -> Nodes]
    /\ tail \in [Writers -> Nodes] /\ at \in [Writers -> {"out", "link", "tail"}]
    /\ pc \in [Writers -> {"idle", "first", "push"}] /\ msg \in [Writers -> Nodes]
    /\ made \in Nodes /\ fate \in [Msgs -> Fates] /\ m_isFirst \in BOOLEAN
    /\ inodes \in Nat \ {0} /\ log \in 0 .. inodes /\ m_log_file \in 0 .. inodes
    /\ lines \in [Inodes -> SUBSET Nodes] /\ backup \in [Seconds -> Nat]

Active(w) == pc[w] # "idle"

\* A writer has a message of its own, that nobody knows before it is linked.
WritersInv ==
    /\ \A w \in Writers :
           /\ pc[w] # "push" => at[w] = "out"
           /\ Active(w) => msg[w] \in 1 .. made
           /\ Active(w) /\ at[w] # "tail" => fate[msg[w]] = "none"
    /\ \A v, w \in Writers : Active(v) /\ Active(w) /\ msg[v] = msg[w] => v = w
    /\ \A m \in Msgs : m > made => fate[m] = "none"

\* However the list is torn: a message is linked once, by its writer, and stays linked
\* until it is taken; the first one has the end node before it.
LinksInv ==
    /\ \A x \in Nodes : nxt[x] # End =>
           /\ nxt[x] <= made /\ fate[nxt[x]] \in {"none", "queued"}
           /\ \A w \in Writers : Active(w) /\ msg[w] = nxt[x] => at[w] = "tail"
    /\ \A x, y \in Nodes : nxt[x] = nxt[y] /\ nxt[x] # End => x = y
    /\ nxt[End] # End => prv[nxt[End]] = End
    /\ \A w \in Writers : at[w] = "link" => prv[msg[w]] = tail[w]

\* A message that is being written was taken, and taken once.
HandInv == lpc = "write" => hand \in Msgs /\ fate[hand] = "hand"

\* The messages that are done with.
Ended == {m \in Msgs : fate[m] = "done"}

\* Each of them made one inode and took one second, at most.
BoundInv ==
    /\ inodes \in Nat /\ inodes <= 1 + Cardinality(Ended)
    /\ second \in Nat /\ runs \in Nat /\ runs >= 1 /\ (runs <= MaxRuns \/ runs = 1)
    /\ second <= runs - 1 + Cardinality(Ended)

CoreInv == Types /\ WritersInv /\ LinksInv /\ HandInv /\ BoundInv

-----------------------------------------------------------------------------
(* The steps.                                                              *)

Outcomes == {"cannot open", "cannot write", "written"}

\* A step that leaves the messages, the files and the list alone.
Quiet ==
    /\ UNCHANGED <<list, tail, at, m_isFirst, file, writers, hand, fate, disk, time, unsafe>>
    /\ lpc' = "write" <=> lpc = "write"

Unwritten == lpc = "write" /\ NotWritten

LEMMA StepCases ==
    ASSUME [Next]_vars
    PROVE  \/ Quiet \/ Take \/ Unwritten \/ Remove \/ Restart
           \/ \E o \in Outcomes : log_to_file(o)
           \/ \E w \in Writers : write_log(w)
           \/ \E w \in Writers : First(w)
           \/ \E w \in Writers : Ignore(w)
           \/ \E w \in Writers : BeginPush(w)
           \/ \E w \in Writers : LinkPush(w)
           \/ \E w \in Writers : EndPush(w)
<1>1. UNCHANGED vars => Quiet
  BY DEF vars, Quiet, queue, list, process, file, writers, disk, time
<1>2. FindNone \/ BeginWait \/ WorkEnds \/ (Empty /\ Goes("wait", "test") /\ UNCHANGED notified)
          => Quiet
  BY DEF FindNone, BeginWait, WorkEnds, Goes, Quiet, process
<1>3. start_log \/ stop_log => Quiet
  BY DEF start_log, stop_log, Quiet, queue, list
<1>4. PopAtOnce \/ Woken => Take
  BY DEF PopAtOnce, Woken
<1>5. Timeout => Take \/ Quiet
  BY <1>2 DEF Timeout
<1>6. TooHigh \/ Verbose => Unwritten
  BY DEF TooHigh, Verbose, Unwritten
<1>7. LogToFile => \E o \in Outcomes : log_to_file(o)
  BY DEF LogToFile, Outcomes
<1> QED
  BY <1>1, <1>2, <1>3, <1>4, <1>5, <1>6, <1>7, Zenon DEF Next, LogThread, WriteLog

\* A message becomes the last one: nothing is thrown out of a list without a limit.
LEMMA HookFacts ==
    ASSUME Types, NEW w \in Writers, NEW m \in Nodes, PushHook(w, m)
    PROVE  /\ nxt' = [nxt EXCEPT ![m] = End] /\ prv' = [prv EXCEPT ![m] = prv[End]]
           /\ tail' = [tail EXCEPT ![w] = prv[End]] /\ at' = [at EXCEPT ![w] = "link"]
<1>1. ~ Overfull
  BY LogAssumption DEF Overfull
<1> QED
  BY <1>1 DEF PushHook

\* The first message leaves the list.
LEMMA PopFacts ==
    ASSUME Types, LinksInv, PopFront
    PROVE  /\ nxt[End] \in Msgs /\ nxt[End] # nxt[nxt[End]]
           /\ nxt' \in [Nodes -> Nodes] /\ prv' \in [Nodes -> Nodes]
           /\ \A x \in Nodes : nxt'[x] = IF x = nxt[End] THEN End
                                         ELSE IF x = End THEN nxt[nxt[End]] ELSE nxt[x]
           /\ \A x \in Nodes : prv'[x] = IF x = nxt[End] \/ x = nxt[nxt[End]] THEN End ELSE prv[x]
           /\ tail' = tail /\ at' = at
<1> DEFINE m == nxt[End]
           n == nxt[m]
<1>1. m \in Nodes /\ m # End /\ End \in Nodes /\ n \in Nodes /\ prv[m] = End
  BY QueueAssumption DEF Types, LinksInv, PopFront, Empty, Nodes, End
<1>2. m # n
  BY <1>1 DEF LinksInv
<1>3. m \in Msgs
  BY <1>1 DEF Nodes, Msgs, End
<1>4. /\ nxt' = [nxt EXCEPT ![prv[m]] = n, ![m] = End]
      /\ prv' = [prv EXCEPT ![n] = prv[m], ![m] = End]
      /\ tail' = tail /\ at' = at
  BY DEF PopFront, Unhooked
<1>5. nxt' \in [Nodes -> Nodes] /\ prv' \in [Nodes -> Nodes]
  BY <1>1, <1>4 DEF Types
<1> QED
  BY <1>1, <1>2, <1>3, <1>4, <1>5 DEF Types

\* log_to_file, its LET spelled out.
Full == m_log_num > m_max_log_num
Now == IF Full /\ log # NoFile /\ backup[second] # NoFile THEN second + 1 ELSE second
Named == IF Full THEN NoFile ELSE log
Held == IF Full \/ Named = NoFile THEN NoFile ELSE m_log_file
Inode == IF Held # NoFile THEN Held ELSE IF Named # NoFile THEN Named ELSE inodes + 1

LEMMA LogToFileFacts ==
    ASSUME NEW o \in Outcomes, log_to_file(o)
    PROVE  /\ lpc = "write" /\ Done /\ second' = Now
           /\ backup' = IF Full /\ log # NoFile THEN [backup EXCEPT ![Now] = log] ELSE backup
           /\ \/ /\ Held = NoFile /\ log' = Named /\ m_log_file' = NoFile
                 /\ lines' = lines /\ inodes' = inodes /\ written' = written
              \/ /\ log' = IF Held # NoFile THEN Named ELSE Inode
                 /\ inodes' = IF Inode > inodes THEN Inode ELSE inodes
                 /\ m_log_file' \in {Inode, NoFile}
                 /\ \/ lines' = [lines EXCEPT ![Inode] = @ \cup {hand}] /\ written' = written \cup {hand}
                    \/ lines' = lines /\ written' = written
<1>1. /\ lpc = "write" /\ Done /\ second' = Now
      /\ backup' = IF Full /\ log # NoFile THEN [backup EXCEPT ![Now] = log] ELSE backup
  BY Zenon DEF log_to_file, Full, Now
<1>2. CASE o = "cannot open"
  BY <1>1, <1>2, Zenon DEF log_to_file, Held, Named, Full
<1>3. CASE o # "cannot open"
  <2>1. /\ log' = IF Held # NoFile THEN Named ELSE Inode
        /\ inodes' = IF Inode > inodes THEN Inode ELSE inodes
        /\ m_log_file' = IF o = "written" THEN Inode ELSE NoFile
        /\ lines' = IF o = "written" THEN [lines EXCEPT ![Inode] = @ \cup {hand}] ELSE lines
        /\ written' = IF o = "written" THEN written \cup {hand} ELSE written
    BY <1>3 DEF log_to_file, Held, Named, Full, Inode, Open
  <2> QED
    BY <1>1, <2>1
<1> QED
  BY <1>2, <1>3

-----------------------------------------------------------------------------
(* Counting what is done with.                                             *)

LEMMA MsgsFinite ==
    ASSUME NEW T \in SUBSET Msgs
    PROVE  IsFiniteSet(T) /\ Cardinality(T) \in Nat /\ Cardinality(T) <= MaxMsgs
<1>1. IsFiniteSet(Msgs) /\ Cardinality(Msgs) = MaxMsgs
  BY FS_Interval, QueueAssumption DEF Msgs
<1>2. IsFiniteSet(T) /\ Cardinality(T) <= Cardinality(Msgs)
  BY <1>1, FS_Subset
<1> QED
  BY <1>1, <1>2, FS_CardinalityType

LEMMA EndedFinite ==
    /\ IsFiniteSet(Ended) /\ Cardinality(Ended) \in Nat /\ Cardinality(Ended) <= MaxMsgs
    /\ IsFiniteSet(Ended') /\ Cardinality(Ended') \in Nat /\ Cardinality(Ended') <= MaxMsgs
<1>1. Ended \in SUBSET Msgs /\ Ended' \in SUBSET Msgs
  BY DEF Ended
<1> QED
  BY <1>1, MsgsFinite, Zenon

\* What is done with stays so.
Lasting == \A m \in Msgs : fate[m] = "done" => fate'[m] = "done"

LEMMA EndedGrows ==
    ASSUME Lasting
    PROVE  Cardinality(Ended) <= Cardinality(Ended')
<1>1. Ended \subseteq Ended'
  BY DEF Lasting, Ended
<1>2. IsFiniteSet(Ended')
  BY EndedFinite
<1> QED
  BY <1>1, <1>2, FS_Subset

LEMMA EndedByOne ==
    ASSUME Lasting, NEW m \in Msgs, fate[m] # "done", fate'[m] = "done"
    PROVE  Cardinality(Ended) + 1 <= Cardinality(Ended')
<1>1. Ended \cup {m} \subseteq Ended' /\ m \notin Ended
  BY DEF Lasting, Ended
<1>2. IsFiniteSet(Ended')
  BY EndedFinite
<1>3. Cardinality(Ended \cup {m}) = Cardinality(Ended) + 1
  BY <1>1, EndedFinite, FS_AddElement
<1>4. Cardinality(Ended \cup {m}) <= Cardinality(Ended')
  BY <1>1, <1>2, FS_Subset
<1> QED
  BY <1>3, <1>4

\* What is not being written keeps its bounds.
LEMMA BoundKept ==
    ASSUME BoundInv, Lasting, UNCHANGED <<inodes, second, runs>>
    PROVE  BoundInv'
<1>1. Cardinality(Ended) <= Cardinality(Ended') /\ Cardinality(Ended) \in Nat
      /\ Cardinality(Ended') \in Nat
  <2>1. Cardinality(Ended') \in Nat
    BY EndedFinite
  <2> QED
    BY <2>1, EndedFinite, EndedGrows
<1> DEFINE c == Cardinality(Ended)
           d == Cardinality(Ended')
<1>2. c \in Nat /\ d \in Nat /\ c <= d
  BY <1>1
<1>3. /\ inodes \in Nat /\ inodes <= 1 + c /\ second \in Nat /\ runs \in Nat /\ runs >= 1
      /\ (runs <= MaxRuns \/ runs = 1) /\ second <= runs - 1 + c
  BY DEF BoundInv
<1> HIDE DEF c, d
<1>4. inodes <= 1 + d /\ second <= runs - 1 + d
  BY <1>2, <1>3
<1> QED
  BY <1>3, <1>4 DEF BoundInv, d

-----------------------------------------------------------------------------
(* The invariant is inductive: the writers.                                *)

LEMMA Numbers ==
    /\ End = 0 /\ NoFile = 0 /\ MaxMsgs \in Nat /\ Nodes = 0 .. MaxMsgs /\ Msgs = 1 .. MaxMsgs
    /\ End \in Nodes /\ Msgs \subseteq Nodes /\ 0 \in Nodes /\ End \notin Msgs
    /\ \A n \in Nodes : n # End => n \in Msgs
BY QueueAssumption DEF End, NoFile, Nodes, Msgs

\* The message of a writer that has one.
LEMMA ActiveFacts ==
    ASSUME Types, WritersInv, NEW w \in Writers, pc[w] # "idle"
    PROVE  /\ Active(w) /\ msg[w] \in 1 .. made /\ msg[w] \in Msgs /\ msg[w] \in Nodes
           /\ msg[w] # End /\ tail[w] \in Nodes
           /\ at[w] # "tail" => fate[msg[w]] = "none"
<1>1. Active(w)
  BY DEF Active
<1>2. msg[w] \in 1 .. made /\ (at[w] # "tail" => fate[msg[w]] = "none")
  BY <1>1 DEF WritersInv
<1>3. made \in 0 .. MaxMsgs /\ tail[w] \in Nodes
  BY Numbers DEF Types
<1>4. msg[w] \in Msgs
  BY <1>2, <1>3, Numbers
<1> QED
  BY <1>1, <1>2, <1>3, <1>4, Numbers

LEMMA CoreInit == Init => CoreInv
<1> SUFFICES ASSUME Init PROVE CoreInv
  OBVIOUS
<1> USE Numbers
<1>1. Types
  <2>1. Seconds \subseteq Nat /\ 1 \in Inodes
    BY DEF Seconds, Inodes
  <2>2. lines \in [Inodes -> SUBSET Nodes]
    BY DEF Init, OldLine
  <2> QED
    BY <2>1, <2>2 DEF Init, QueueInit, Types, Fates
<1>2. WritersInv
  BY DEF Init, QueueInit, WritersInv, Active
<1>3. LinksInv
  BY DEF Init, QueueInit, LinksInv
<1>4. HandInv
  BY DEF Init, HandInv
<1>5. BoundInv
  BY EndedFinite DEF Init, BoundInv
<1> QED
  BY <1>1, <1>2, <1>3, <1>4, <1>5 DEF CoreInv

LEMMA CoreQuiet ==
    ASSUME CoreInv, Quiet
    PROVE  CoreInv'
<1> USE DEF Quiet, list, file, writers, disk, time
<1>1. Types'
  BY DEF CoreInv, Types
<1>2. WritersInv'
  BY DEF CoreInv, WritersInv, Active
<1>3. LinksInv'
  BY DEF CoreInv, LinksInv, Active
<1>4. HandInv'
  BY DEF CoreInv, HandInv
<1>5. BoundInv'
  BY BoundKept DEF CoreInv, Lasting
<1> QED
  BY <1>1, <1>2, <1>3, <1>4, <1>5 DEF CoreInv

LEMMA CoreWriteLog ==
    ASSUME CoreInv, NEW w \in Writers, write_log(w)
    PROVE  CoreInv'
<1> USE Numbers DEF queue, file, disk, time
<1>1. /\ pc[w] = "idle" /\ made < MaxMsgs /\ made' = made + 1
      /\ msg' = [msg EXCEPT ![w] = made + 1]
      /\ pc' = [pc EXCEPT ![w] = IF m_isFirst THEN "first" ELSE "push"]
      /\ UNCHANGED <<queue, process, file, level, lpc, hand, fate, disk, time>>
  BY DEF write_log
<1>2. Types /\ WritersInv /\ LinksInv /\ HandInv /\ BoundInv
  BY DEF CoreInv
<1>3. made \in Nat /\ made + 1 \in Msgs /\ made + 1 \in Nodes /\ made' = made + 1
  BY <1>1, <1>2 DEF Types
<1>4. at[w] = "out" /\ fate[made + 1] = "none"
  BY <1>1, <1>2, <1>3 DEF WritersInv
<1>5. Types'
  BY <1>1, <1>2, <1>3 DEF Types, process
<1>6. /\ \A v \in Writers : v # w => pc'[v] = pc[v] /\ msg'[v] = msg[v] /\ (Active(v)' <=> Active(v))
      /\ pc'[w] \in {"first", "push"} /\ msg'[w] = made + 1 /\ pc[w] = "idle"
      /\ at' = at /\ fate' = fate /\ nxt' = nxt /\ prv' = prv /\ tail' = tail
  BY <1>1, <1>2 DEF Types, Active
<1>7. \A v \in Writers : v # w /\ Active(v) => msg[v] \in 1 .. made /\ msg[v] # made + 1
  BY <1>2, <1>3 DEF WritersInv
<1>8. WritersInv'
  <2>1. ASSUME NEW v \in Writers
        PROVE  /\ pc'[v] # "push" => at'[v] = "out"
               /\ Active(v)' => msg'[v] \in 1 .. made'
               /\ Active(v)' /\ at'[v] # "tail" => fate'[msg'[v]] = "none"
    <3>1. CASE v = w
      BY <1>3, <1>4, <1>6, <3>1
    <3>2. CASE v # w
      BY <1>2, <1>3, <1>6, <1>7, <3>2 DEF WritersInv
    <3> QED
      BY <3>1, <3>2
  <2>2. \A u, v \in Writers : Active(u)' /\ Active(v)' /\ msg'[u] = msg'[v] => u = v
    BY <1>2, <1>6, <1>7 DEF WritersInv
  <2>3. \A k \in Msgs : k > made' => fate'[k] = "none"
    BY <1>2, <1>3, <1>6 DEF WritersInv
  <2> QED
    BY <2>1, <2>2, <2>3 DEF WritersInv
<1>9. LinksInv'
  <2>1. ASSUME NEW x \in Nodes, nxt'[x] # End
        PROVE  /\ nxt'[x] <= made' /\ fate'[nxt'[x]] \in {"none", "queued"}
               /\ \A v \in Writers : Active(v)' /\ msg'[v] = nxt'[x] => at'[v] = "tail"
    <3>1. nxt[x] \in Nat /\ nxt[x] <= made /\ fate[nxt[x]] \in {"none", "queued"}
      <4>1. nxt[x] \in Nodes /\ nxt[x] # End
        BY <1>2, <1>6, <2>1 DEF Types
      <4> QED
        BY <1>2, <4>1 DEF LinksInv
    <3> QED
      BY <1>2, <1>3, <1>6, <2>1, <3>1 DEF LinksInv
  <2>2. ASSUME NEW v \in Writers, at'[v] = "link" PROVE prv'[msg'[v]] = tail'[v]
    BY <1>2, <1>4, <1>6, <2>2 DEF LinksInv
  <2> QED
    BY <1>2, <1>6, <2>1, <2>2 DEF LinksInv
<1>10. HandInv'
  BY <1>1, <1>2 DEF HandInv
<1>11. BoundInv'
  BY <1>1, <1>2, BoundKept DEF Lasting
<1> QED
  BY <1>5, <1>8, <1>9, <1>10, <1>11 DEF CoreInv

LEMMA CoreFirst ==
    ASSUME CoreInv, NEW w \in Writers, First(w)
    PROVE  CoreInv'
<1> USE Numbers DEF queue
<1>1. /\ pc[w] = "first" /\ m_log_file' = NoFile /\ m_isFirst' = FALSE
      /\ pc' = [pc EXCEPT ![w] = "push"]
      /\ \/ backup' = [backup EXCEPT ![second] = log] /\ log' = NoFile
         \/ backup' = backup /\ log' = log
      /\ UNCHANGED <<queue, msg, made, level, lpc, hand, fate, lines, inodes, second, runs>>
  BY DEF First, log_backup, time
<1>2. Types /\ WritersInv /\ LinksInv /\ HandInv /\ BoundInv
  BY DEF CoreInv
<1>3. Types'
  <2>1. log' \in 0 .. inodes /\ m_log_file' \in 0 .. inodes /\ log \in Nat
    <3>1. inodes \in Nat /\ log \in 0 .. inodes /\ inodes' = inodes /\ 0 \in 0 .. inodes
      BY <1>1, <1>2 DEF Types
    <3> QED
      BY <1>1, <3>1
  <2>2. backup' \in [Seconds -> Nat]
    BY <1>1, <1>2, <2>1 DEF Types
  <2>3. pc' \in [Writers -> {"idle", "first", "push"}]
    BY <1>1, <1>2 DEF Types
  <2> QED
    BY <1>1, <1>2, <2>1, <2>2, <2>3 DEF Types
<1>4. WritersInv'
  <2>1. \A v \in Writers : (Active(v)' <=> Active(v)) /\ (pc'[v] = pc[v] \/ v = w)
    BY <1>1, <1>2 DEF Types, Active
  <2>2. at[w] = "out" /\ pc[w] # "push"
    BY <1>1, <1>2 DEF WritersInv
  <2> QED
    BY <1>1, <1>2, <2>1, <2>2 DEF WritersInv
<1>5. LinksInv'
  BY <1>1, <1>2 DEF Types, LinksInv, Active
<1>6. HandInv'
  BY <1>1, <1>2 DEF HandInv
<1>7. BoundInv'
  BY <1>1, <1>2, BoundKept DEF Lasting
<1> QED
  BY <1>3, <1>4, <1>5, <1>6, <1>7 DEF CoreInv

LEMMA CoreIgnore ==
    ASSUME CoreInv, NEW w \in Writers, Ignore(w)
    PROVE  CoreInv'
<1> USE Numbers DEF queue, file, disk, time, process
<1>1. /\ pc[w] = "push" /\ at[w] = "out"
      /\ pc' = [pc EXCEPT ![w] = "idle"] /\ msg' = [msg EXCEPT ![w] = 0]
      /\ fate' = [fate EXCEPT ![msg[w]] = "done"]
      /\ UNCHANGED <<queue, process, file, made, level, lpc, hand, disk, time>>
  BY DEF Ignore
<1>2. Types /\ WritersInv /\ LinksInv /\ HandInv /\ BoundInv
  BY DEF CoreInv
<1> DEFINE m == msg[w]
<1>3. Active(w) /\ m \in 1 .. made /\ m \in Msgs /\ fate[m] = "none"
  BY <1>1, <1>2, ActiveFacts
<1>4. Types'
  BY <1>1, <1>2, <1>3 DEF Types, Fates
<1>5. /\ \A v \in Writers : v # w => /\ pc'[v] = pc[v] /\ msg'[v] = msg[v]
                                     /\ (Active(v)' <=> Active(v)) /\ (Active(v) => msg[v] # m)
      /\ pc'[w] = "idle" /\ ~ Active(w)' /\ at[w] = "out"
      /\ at' = at /\ nxt' = nxt /\ prv' = prv /\ tail' = tail /\ made' = made
      /\ \A k \in Msgs : fate'[k] = IF k = m THEN "done" ELSE fate[k]
  BY <1>1, <1>2, <1>3 DEF Types, WritersInv, Active
<1>6. WritersInv' /\ LinksInv'
  <2>1. ASSUME NEW v \in Writers
        PROVE  /\ pc'[v] # "push" => at'[v] = "out"
               /\ Active(v)' => msg'[v] \in 1 .. made'
               /\ Active(v)' /\ at'[v] # "tail" => fate'[msg'[v]] = "none"
    <3>1. CASE v = w
      BY <1>5, <3>1
    <3>2. CASE v # w
      <4>1. Active(v) => msg[v] \in Msgs
        BY <1>2, ActiveFacts DEF Active
      <4> QED
        BY <1>2, <1>5, <3>2, <4>1 DEF WritersInv
    <3> QED
      BY <3>1, <3>2
  <2>2. \A u, v \in Writers : Active(u)' /\ Active(v)' /\ msg'[u] = msg'[v] => u = v
    BY <1>2, <1>5 DEF WritersInv
  <2>3. \A k \in Msgs : k > made' => fate'[k] = "none"
    <3>1. made \in Nat /\ ~ (m > made)
      BY <1>2, <1>3 DEF Types
    <3> QED
      BY <1>2, <1>5, <3>1 DEF WritersInv
  <2>4. ASSUME NEW x \in Nodes, nxt'[x] # End
        PROVE  /\ nxt'[x] <= made' /\ fate'[nxt'[x]] \in {"none", "queued"}
               /\ \A v \in Writers : Active(v)' /\ msg'[v] = nxt'[x] => at'[v] = "tail"
    <3>1. nxt[x] \in Msgs /\ nxt[x] # m
      BY <1>2, <1>3, <1>5, <2>4 DEF Types, LinksInv
    <3> QED
      BY <1>2, <1>5, <2>4, <3>1 DEF LinksInv
  <2>5. ASSUME NEW v \in Writers, at'[v] = "link" PROVE prv'[msg'[v]] = tail'[v]
    BY <1>2, <1>5, <2>5 DEF LinksInv
  <2>6. WritersInv'
    BY <2>1, <2>2, <2>3 DEF WritersInv
  <2>7. LinksInv'
    BY <1>2, <1>5, <2>4, <2>5 DEF LinksInv
  <2> QED
    BY <2>6, <2>7
<1>7. HandInv'
  BY <1>1, <1>2, <1>3 DEF HandInv, Types
<1>8. BoundInv'
  <2>1. Lasting
    BY <1>1, <1>2 DEF Types, Lasting
  <2> QED
    BY <1>1, <1>2, <2>1, BoundKept
<1> QED
  BY <1>4, <1>6, <1>7, <1>8 DEF CoreInv

LEMMA CoreBeginPush ==
    ASSUME CoreInv, NEW w \in Writers, BeginPush(w)
    PROVE  CoreInv'
<1> USE Numbers DEF file, disk, time, process
<1> DEFINE m == msg[w]
<1>1. /\ pc[w] = "push" /\ at[w] = "out" /\ PushHook(w, m)
      /\ UNCHANGED <<process, file, pc, msg, made, lpc, hand, fate, disk, time>>
  BY DEF BeginPush
<1>2. Types /\ WritersInv /\ LinksInv /\ HandInv /\ BoundInv
  BY DEF CoreInv
<1>3. Active(w) /\ m \in 1 .. made /\ m \in Msgs /\ fate[m] = "none"
  BY <1>1, <1>2, ActiveFacts
<1>4. /\ nxt' = [nxt EXCEPT ![m] = End] /\ prv' = [prv EXCEPT ![m] = prv[End]]
      /\ tail' = [tail EXCEPT ![w] = prv[End]] /\ at' = [at EXCEPT ![w] = "link"]
  BY <1>1, <1>2, <1>3, HookFacts
<1>5. \A x \in Nodes : nxt[x] # m
  BY <1>1, <1>2, <1>3 DEF LinksInv
<1>6. Types'
  BY <1>1, <1>2, <1>3, <1>4 DEF Types
<1>7. WritersInv'
  BY <1>1, <1>2, <1>3, <1>4 DEF Types, WritersInv, Active
<1>8. LinksInv'
  <2>1. \A x \in Nodes : nxt'[x] = IF x = m THEN End ELSE nxt[x]
    BY <1>2, <1>3, <1>4 DEF Types
  <2>2. \A x \in Nodes : prv'[x] = IF x = m THEN prv[End] ELSE prv[x]
    BY <1>2, <1>3, <1>4 DEF Types
  <2>3. ASSUME NEW x \in Nodes, nxt'[x] # End
        PROVE  /\ nxt'[x] <= made' /\ fate'[nxt'[x]] \in {"none", "queued"}
               /\ \A v \in Writers : Active(v)' /\ msg'[v] = nxt'[x] => at'[v] = "tail"
    <3>1. nxt'[x] = nxt[x] /\ nxt[x] # m /\ nxt[x] # End
      BY <1>5, <2>1, <2>3
    <3>2. ASSUME NEW v \in Writers, Active(v)', msg'[v] = nxt'[x] PROVE at'[v] = "tail"
      <4>1. Active(v) /\ msg[v] = nxt[x] /\ v # w
        BY <1>1, <3>1, <3>2 DEF Active
      <4> QED
        BY <1>2, <1>4, <3>1, <4>1 DEF LinksInv, Types
    <3> QED
      BY <1>1, <1>2, <3>1, <3>2 DEF LinksInv
  <2>4. \A x, y \in Nodes : nxt'[x] = nxt'[y] /\ nxt'[x] # End => x = y
    BY <1>2, <2>1 DEF LinksInv
  <2>5. nxt'[End] # End => prv'[nxt'[End]] = End
    <3>1. nxt'[End] = nxt[End] /\ nxt[End] # m /\ nxt[End] \in Nodes
      BY <1>2, <1>3, <1>5, <2>1 DEF Types
    <3> QED
      BY <1>2, <2>2, <3>1 DEF LinksInv
  <2>6. ASSUME NEW v \in Writers, at'[v] = "link" PROVE prv'[msg'[v]] = tail'[v]
    <3>1. CASE v = w
      BY <1>1, <1>2, <1>3, <1>4, <2>2, <3>1 DEF Types
    <3>2. CASE v # w
      <4>1. at[v] = "link" /\ tail'[v] = tail[v] /\ msg'[v] = msg[v] /\ msg[v] \in Nodes
        BY <1>1, <1>2, <1>4, <2>6, <3>2 DEF Types
      <4>2. Active(v) /\ msg[v] # m
        BY <1>2, <1>3, <3>2, <4>1 DEF WritersInv, Active
      <4> QED
        BY <1>2, <2>2, <4>1, <4>2 DEF LinksInv
    <3> QED
      BY <3>1, <3>2
  <2> QED
    BY <2>3, <2>4, <2>5, <2>6 DEF LinksInv
<1>9. HandInv'
  BY <1>1, <1>2 DEF HandInv
<1>10. BoundInv'
  BY <1>1, <1>2, BoundKept DEF Lasting
<1> QED
  BY <1>6, <1>7, <1>8, <1>9, <1>10 DEF CoreInv

LEMMA CoreLinkPush ==
    ASSUME CoreInv, NEW w \in Writers, LinkPush(w)
    PROVE  CoreInv'
<1> USE Numbers DEF file, disk, time, process, writers
<1> DEFINE m == msg[w]
<1>1. /\ pc[w] = "push" /\ at[w] = "link"
      /\ nxt' = [nxt EXCEPT ![tail[w]] = m] /\ at' = [at EXCEPT ![w] = "tail"]
      /\ UNCHANGED <<prv, tail, process, file, writers, lpc, hand, fate, disk, time>>
  BY DEF LinkPush, PushLink
<1>2. Types /\ WritersInv /\ LinksInv /\ HandInv /\ BoundInv
  BY DEF CoreInv
<1>3. /\ Active(w) /\ m \in 1 .. made /\ m \in Msgs /\ m \in Nodes /\ fate[m] = "none"
      /\ tail[w] \in Nodes
  BY <1>1, <1>2, ActiveFacts
<1>4. \A x \in Nodes : nxt[x] # m
  BY <1>1, <1>2, <1>3 DEF LinksInv
<1>5. Types'
  BY <1>1, <1>2, <1>3 DEF Types
<1>6. WritersInv'
  BY <1>1, <1>2, <1>3 DEF Types, WritersInv, Active
<1>7. LinksInv'
  <2>1. \A x \in Nodes : nxt'[x] = IF x = tail[w] THEN m ELSE nxt[x]
    BY <1>1, <1>2, <1>3 DEF Types
  <2>2. \A v \in Writers : at'[v] = IF v = w THEN "tail" ELSE at[v]
    BY <1>1, <1>2 DEF Types
  <2>3. ASSUME NEW x \in Nodes, nxt'[x] # End
        PROVE  /\ nxt'[x] <= made' /\ fate'[nxt'[x]] \in {"none", "queued"}
               /\ \A v \in Writers : Active(v)' /\ msg'[v] = nxt'[x] => at'[v] = "tail"
    <3>1. CASE x = tail[w]
      BY <1>1, <1>2, <1>3, <2>1, <2>2, <3>1 DEF WritersInv, Active
    <3>2. CASE x # tail[w]
      BY <1>1, <1>2, <2>1, <2>2, <2>3, <3>2 DEF LinksInv, Active
    <3> QED
      BY <3>1, <3>2
  <2>4. \A x, y \in Nodes : nxt'[x] = nxt'[y] /\ nxt'[x] # End => x = y
    BY <1>2, <1>4, <2>1 DEF LinksInv
  <2>5. nxt'[End] # End => prv'[nxt'[End]] = End
    <3>1. prv[m] = tail[w]
      BY <1>1, <1>2 DEF LinksInv
    <3> QED
      BY <1>1, <1>2, <2>1, <3>1 DEF LinksInv
  <2>6. \A v \in Writers : at'[v] = "link" => prv'[msg'[v]] = tail'[v]
    BY <1>1, <1>2, <2>2 DEF LinksInv
  <2> QED
    BY <2>3, <2>4, <2>5, <2>6 DEF LinksInv
<1>8. HandInv'
  BY <1>1, <1>2 DEF HandInv
<1>9. BoundInv'
  BY <1>1, <1>2, BoundKept DEF Lasting
<1> QED
  BY <1>5, <1>6, <1>7, <1>8, <1>9 DEF CoreInv

LEMMA CoreEndPush ==
    ASSUME CoreInv, NEW w \in Writers, EndPush(w)
    PROVE  CoreInv'
<1> USE Numbers DEF file, disk, time, process
<1> DEFINE m == msg[w]
<1>1. /\ pc[w] = "push" /\ at[w] = "tail"
      /\ prv' = [prv EXCEPT ![End] = m] /\ at' = [at EXCEPT ![w] = "out"]
      /\ tail' = [tail EXCEPT ![w] = End] /\ nxt' = nxt
      /\ pc' = [pc EXCEPT ![w] = "idle"] /\ msg' = [msg EXCEPT ![w] = 0]
      /\ fate' = [fate EXCEPT ![m] = IF @ = "none" THEN "queued" ELSE @]
      /\ UNCHANGED <<process, file, made, lpc, hand, disk, time>>
  BY DEF EndPush, PushTail
<1>2. Types /\ WritersInv /\ LinksInv /\ HandInv /\ BoundInv
  BY DEF CoreInv
<1>3. Active(w) /\ m \in 1 .. made /\ m \in Msgs /\ m \in Nodes
  BY <1>1, <1>2, ActiveFacts
<1>4. /\ \A v \in Writers : v # w => /\ pc'[v] = pc[v] /\ msg'[v] = msg[v] /\ at'[v] = at[v]
                                     /\ tail'[v] = tail[v] /\ (Active(v)' <=> Active(v))
                                     /\ (Active(v) => msg[v] # m)
      /\ pc'[w] = "idle" /\ at'[w] = "out" /\ ~ Active(w)'
      /\ \A k \in Msgs : fate'[k] = IF k = m /\ fate[m] = "none" THEN "queued" ELSE fate[k]
  BY <1>1, <1>2, <1>3 DEF Types, WritersInv, Active
<1>5. Types'
  BY <1>1, <1>2, <1>3 DEF Types, Fates
<1>6. WritersInv'
  <2>1. ASSUME NEW v \in Writers
        PROVE  /\ pc'[v] # "push" => at'[v] = "out"
               /\ Active(v)' => msg'[v] \in 1 .. made'
               /\ Active(v)' /\ at'[v] # "tail" => fate'[msg'[v]] = "none"
    <3>1. CASE v = w
      BY <1>4, <3>1
    <3>2. CASE v # w
      <4>1. Active(v) => msg[v] \in Msgs
        BY <1>2 DEF WritersInv, Types
      <4> QED
        BY <1>1, <1>2, <1>4, <3>2, <4>1 DEF WritersInv
    <3> QED
      BY <3>1, <3>2
  <2>2. \A u, v \in Writers : Active(u)' /\ Active(v)' /\ msg'[u] = msg'[v] => u = v
    BY <1>2, <1>4 DEF WritersInv
  <2>3. \A k \in Msgs : k > made' => fate'[k] = "none"
    <3>1. made \in Nat /\ ~ (m > made) /\ made' = made
      BY <1>1, <1>2, <1>3 DEF Types
    <3> QED
      BY <1>2, <1>4, <3>1 DEF WritersInv
  <2> QED
    BY <2>1, <2>2, <2>3 DEF WritersInv
<1>7. LinksInv'
  <2>1. ASSUME NEW x \in Nodes, nxt'[x] # End
        PROVE  /\ nxt'[x] <= made' /\ fate'[nxt'[x]] \in {"none", "queued"}
               /\ \A v \in Writers : Active(v)' /\ msg'[v] = nxt'[x] => at'[v] = "tail"
    <3>1. nxt[x] \in Msgs
      BY <1>1, <1>2, <2>1 DEF Types
    <3> QED
      BY <1>1, <1>2, <1>4, <2>1, <3>1 DEF LinksInv
  <2>2. \A x, y \in Nodes : nxt'[x] = nxt'[y] /\ nxt'[x] # End => x = y
    BY <1>1, <1>2 DEF LinksInv
  <2>3. nxt'[End] # End => prv'[nxt'[End]] = End
    BY <1>1, <1>2 DEF LinksInv, Types
  <2>4. ASSUME NEW v \in Writers, at'[v] = "link" PROVE prv'[msg'[v]] = tail'[v]
    <3>1. v # w /\ at[v] = "link" /\ Active(v)
      BY <1>2, <1>4, <2>4 DEF WritersInv, Active
    <3>2. msg[v] # End
      BY <1>2, <3>1 DEF WritersInv, Types
    <3> QED
      BY <1>1, <1>2, <1>4, <3>1, <3>2 DEF LinksInv, Types
  <2> QED
    BY <2>1, <2>2, <2>3, <2>4 DEF LinksInv
<1>8. HandInv'
  BY <1>1, <1>2, <1>4 DEF HandInv
<1>9. BoundInv'
  <2>1. Lasting
    BY <1>4 DEF Lasting
  <2> QED
    BY <1>1, <1>2, <2>1, BoundKept
<1> QED
  BY <1>5, <1>6, <1>7, <1>8, <1>9 DEF CoreInv

-----------------------------------------------------------------------------
(* The invariant is inductive: the log thread and the process.             *)

LEMMA CoreTake ==
    ASSUME CoreInv, Take
    PROVE  CoreInv'
<1> USE Numbers DEF file, disk, time, process, writers
<1> DEFINE m == nxt[End]
<1>1. /\ PopFront /\ hand' = m /\ lpc' = "write" /\ fate' = [fate EXCEPT ![m] = "hand"]
      /\ UNCHANGED <<process, file, writers, disk, time>>
  BY DEF Take
<1>2. Types /\ WritersInv /\ LinksInv /\ HandInv /\ BoundInv
  BY DEF CoreInv
<1>3. /\ m \in Msgs /\ m # nxt[m] /\ nxt' \in [Nodes -> Nodes] /\ prv' \in [Nodes -> Nodes]
      /\ \A x \in Nodes : nxt'[x] = IF x = m THEN End ELSE IF x = End THEN nxt[m] ELSE nxt[x]
      /\ \A x \in Nodes : prv'[x] = IF x = m \/ x = nxt[m] THEN End ELSE prv[x]
      /\ tail' = tail /\ at' = at
  BY <1>1, <1>2, PopFacts
<1>4. fate[m] \in {"none", "queued"} /\ m <= made
  BY <1>2, <1>3 DEF LinksInv
<1>5. \A k \in Msgs : fate'[k] = IF k = m THEN "hand" ELSE fate[k]
  BY <1>1, <1>2, <1>3 DEF Types
<1>6. \A x \in Nodes : nxt'[x] # End => /\ nxt'[x] # m /\ nxt'[x] \in Msgs
                                        /\ \E y \in Nodes : nxt[y] = nxt'[x]
  <2> SUFFICES ASSUME NEW x \in Nodes, nxt'[x] # End
               PROVE  /\ nxt'[x] # m /\ nxt'[x] \in Msgs
                      /\ \E y \in Nodes : nxt[y] = nxt'[x]
    OBVIOUS
  <2>1. nxt'[x] \in Msgs
    BY <1>3
  <2>2. CASE x = End
    BY <1>3, <2>1, <2>2
  <2>3. CASE x # End
    <3>1. x # m /\ nxt'[x] = nxt[x]
      BY <1>3, <2>1, <2>3
    <3>2. nxt[x] # m
      BY <1>2, <1>3, <2>3 DEF LinksInv
    <3> QED
      BY <2>1, <3>1, <3>2
  <2> QED
    BY <2>2, <2>3
<1>7. Types'
  <2>1. fate' \in [Msgs -> Fates]
    BY <1>1, <1>2, <1>3 DEF Types, Fates
  <2> QED
    BY <1>1, <1>2, <1>3, <2>1 DEF Types
<1>8. WritersInv'
  <2>1. ASSUME NEW v \in Writers, Active(v), at[v] # "tail" PROVE msg[v] \in Msgs /\ msg[v] # m
    <3>1. msg[v] \in Msgs
      BY <1>2, <2>1, ActiveFacts DEF Active
    <3>2. msg[v] # nxt[End]
      BY <1>2, <1>3, <2>1 DEF LinksInv
    <3> QED
      BY <3>1, <3>2
  <2>2. ~ (m > made)
    BY <1>2, <1>3, <1>4 DEF Types
  <2>3. \A v \in Writers : Active(v)' <=> Active(v)
    BY <1>1 DEF Active
  <2>4. ASSUME NEW v \in Writers
        PROVE  /\ pc'[v] # "push" => at'[v] = "out"
               /\ Active(v)' => msg'[v] \in 1 .. made'
               /\ Active(v)' /\ at'[v] # "tail" => fate'[msg'[v]] = "none"
    <3>1. /\ pc[v] # "push" => at[v] = "out"
          /\ Active(v) => msg[v] \in 1 .. made
          /\ Active(v) /\ at[v] # "tail" => fate[msg[v]] = "none"
      BY <1>2 DEF WritersInv
    <3>2. pc' = pc /\ at' = at /\ msg' = msg /\ made' = made
      BY <1>1, <1>3
    <3>3. Active(v) /\ at[v] # "tail" => fate'[msg[v]] = "none"
      BY <1>5, <2>1, <3>1
    <3> QED
      BY <2>3, <3>1, <3>2, <3>3
  <2>5. \A u, v \in Writers : Active(u)' /\ Active(v)' /\ msg'[u] = msg'[v] => u = v
    BY <1>1, <1>2, <2>3 DEF WritersInv
  <2>6. \A k \in Msgs : k > made' => fate'[k] = "none"
    BY <1>1, <1>2, <1>5, <2>2 DEF WritersInv
  <2> QED
    BY <2>4, <2>5, <2>6 DEF WritersInv
<1>9. LinksInv'
  <2>1. ASSUME NEW x \in Nodes, nxt'[x] # End
        PROVE  /\ nxt'[x] <= made' /\ fate'[nxt'[x]] \in {"none", "queued"}
               /\ \A v \in Writers : Active(v)' /\ msg'[v] = nxt'[x] => at'[v] = "tail"
    <3>1. PICK y \in Nodes : nxt[y] = nxt'[x]
      BY <1>6, <2>1
    <3>2. nxt'[x] # m /\ nxt'[x] \in Msgs
      BY <1>6, <2>1
    <3> QED
      <4>1. /\ nxt[y] <= made /\ fate[nxt[y]] \in {"none", "queued"}
            /\ \A v \in Writers : Active(v) /\ msg[v] = nxt[y] => at[v] = "tail"
        BY <1>2, <2>1, <3>1 DEF LinksInv
      <4>2. \A v \in Writers : Active(v)' <=> Active(v)
        BY <1>1 DEF Active
      <4> QED
        BY <1>1, <1>3, <1>5, <3>1, <3>2, <4>1, <4>2
  <2>2. \A x, y \in Nodes : nxt'[x] = nxt'[y] /\ nxt'[x] # End => x = y
    <3> SUFFICES ASSUME NEW x \in Nodes, NEW y \in Nodes, nxt'[x] = nxt'[y], nxt'[x] # End
                 PROVE  x = y
      OBVIOUS
    <3>1. m \in Nodes /\ x # m /\ y # m
      BY <1>3
    <3> DEFINE old(z) == IF z = End THEN m ELSE z
    <3>2. old(x) \in Nodes /\ old(y) \in Nodes /\ nxt'[x] = nxt[old(x)] /\ nxt'[y] = nxt[old(y)]
      BY <1>3, <3>1
    <3>3. old(x) = old(y)
      <4> HIDE DEF old
      <4>1. nxt[old(x)] = nxt[old(y)] /\ nxt[old(x)] # End
        BY <3>2
      <4> QED
        BY <1>2, <3>2, <4>1 DEF LinksInv
    <3> QED
      BY <3>1, <3>3
  <2>3. nxt'[End] # End => prv'[nxt'[End]] = End
    BY <1>3
  <2>4. ASSUME NEW v \in Writers, at'[v] = "link" PROVE prv'[msg'[v]] = tail'[v]
    <3>1. at[v] = "link" /\ pc[v] # "idle" /\ Active(v)
      BY <1>2, <1>3, <2>4 DEF WritersInv, Active
    <3>2. msg[v] \in Nodes /\ msg[v] # End
      BY <1>2, <3>1, ActiveFacts
    <3>3. msg[v] # m /\ msg[v] # nxt[m]
      <4>1. m \in Nodes /\ nxt[End] = m
        BY <1>3
      <4>2. msg[v] # nxt[End] /\ msg[v] # nxt[m]
        BY <1>2, <3>1, <3>2, <4>1 DEF LinksInv
      <4> QED
        BY <4>2
    <3>4. prv'[msg[v]] = prv[msg[v]]
      BY <1>3, <3>2, <3>3
    <3>5. prv[msg[v]] = tail[v]
      BY <1>2, <3>1 DEF LinksInv
    <3> QED
      BY <1>1, <1>3, <3>4, <3>5
  <2> QED
    BY <2>1, <2>2, <2>3, <2>4 DEF LinksInv
<1>10. HandInv'
  BY <1>1, <1>3, <1>5 DEF HandInv
<1>11. BoundInv'
  <2>1. Lasting
    BY <1>4, <1>5 DEF Lasting
  <2> QED
    BY <1>1, <1>2, <2>1, BoundKept
<1> QED
  BY <1>7, <1>8, <1>9, <1>10, <1>11 DEF CoreInv

\* The log thread is done with a message.
LEMMA DoneFacts ==
    ASSUME CoreInv, lpc = "write", Done
    PROVE  /\ hand \in Msgs /\ fate[hand] = "hand" /\ fate' \in [Msgs -> Fates]
           /\ \A k \in Msgs : fate'[k] = IF k = hand THEN "done" ELSE fate[k]
           /\ Lasting /\ fate'[hand] = "done"
           /\ WritersInv' /\ LinksInv' /\ HandInv'
           /\ UNCHANGED <<nxt, prv, tail, at, pc, msg, made, m_isFirst, runs, unsafe, removed>>
           /\ lpc' = "test"
<1> USE Numbers
<1>1. /\ fate' = [fate EXCEPT ![hand] = "done"] /\ lpc' = "test"
      /\ UNCHANGED <<nxt, prv, tail, at, pc, msg, made, m_isFirst, runs, unsafe, removed>>
  BY DEF Done, queue, process
<1>2. Types /\ WritersInv /\ LinksInv /\ HandInv
  BY DEF CoreInv
<1>3. hand \in Msgs /\ fate[hand] = "hand"
  BY <1>2 DEF HandInv
<1>4. fate' \in [Msgs -> Fates] /\ \A k \in Msgs : fate'[k] = IF k = hand THEN "done" ELSE fate[k]
  BY <1>1, <1>2, <1>3 DEF Types, Fates
<1>5. Lasting
  BY <1>4 DEF Lasting
<1>6. WritersInv'
  <2>1. \A v \in Writers : Active(v) => msg[v] \in Msgs
    BY <1>2, ActiveFacts DEF Active
  <2>2. \A v \in Writers : Active(v)' <=> Active(v)
    BY <1>1 DEF Active
  <2>3. \A k \in Msgs : k > made => k # hand
    BY <1>2, <1>3 DEF WritersInv
  <2> QED
    BY <1>1, <1>2, <1>3, <1>4, <2>1, <2>2, <2>3 DEF WritersInv
<1>7. LinksInv'
  <2>1. \A x \in Nodes : nxt[x] # End => nxt[x] \in Msgs /\ nxt[x] # hand
    BY <1>2, <1>3 DEF LinksInv, Types
  <2>2. \A v \in Writers : Active(v)' <=> Active(v)
    BY <1>1 DEF Active
  <2> QED
    BY <1>1, <1>2, <1>4, <2>1, <2>2 DEF LinksInv
<1>8. HandInv'
  BY <1>1 DEF HandInv
<1> QED
  BY <1>1, <1>3, <1>4, <1>5, <1>6, <1>7, <1>8

LEMMA CoreUnwritten ==
    ASSUME CoreInv, Unwritten
    PROVE  CoreInv'
<1>1. lpc = "write" /\ Done
      /\ UNCHANGED <<m_log_file, m_log_num, log, backup, lines, inodes, written, second>>
  BY DEF Unwritten, NotWritten, file
<1>2. /\ fate' \in [Msgs -> Fates] /\ Lasting
      /\ WritersInv' /\ LinksInv' /\ HandInv'
      /\ UNCHANGED <<nxt, prv, tail, at, pc, msg, made, m_isFirst, runs, unsafe, removed>>
  BY <1>1, DoneFacts
<1>3. Types'
  BY <1>1, <1>2 DEF CoreInv, Types
<1>4. BoundInv'
  BY <1>1, <1>2, BoundKept DEF CoreInv
<1> QED
  BY <1>2, <1>3, <1>4 DEF CoreInv

LEMMA CoreLogToFile ==
    ASSUME CoreInv, NEW o \in Outcomes, log_to_file(o)
    PROVE  CoreInv'
<1> USE Numbers
<1>1. /\ lpc = "write" /\ Done /\ second' = Now
      /\ backup' = IF Full /\ log # NoFile THEN [backup EXCEPT ![Now] = log] ELSE backup
      /\ \/ /\ log' = Named /\ m_log_file' = NoFile
            /\ lines' = lines /\ inodes' = inodes
         \/ /\ log' = IF Held # NoFile THEN Named ELSE Inode
            /\ inodes' = IF Inode > inodes THEN Inode ELSE inodes
            /\ m_log_file' \in {Inode, NoFile}
            /\ lines' = [lines EXCEPT ![Inode] = @ \cup {hand}] \/ lines' = lines
  BY LogToFileFacts
<1>2. /\ hand \in Msgs /\ fate[hand] = "hand" /\ fate' \in [Msgs -> Fates]
      /\ Lasting /\ fate'[hand] = "done"
      /\ WritersInv' /\ LinksInv' /\ HandInv'
      /\ UNCHANGED <<nxt, prv, tail, at, pc, msg, made, m_isFirst, runs, unsafe, removed>>
  BY <1>1, DoneFacts
<1>3. Types /\ BoundInv /\ inodes \in Nat /\ log \in 0 .. inodes /\ m_log_file \in 0 .. inodes
      /\ second \in Nat /\ runs \in Nat
  BY DEF CoreInv, Types, BoundInv
<1>4. Named \in 0 .. inodes /\ Held \in 0 .. inodes /\ Inode \in 1 .. inodes + 1
  BY <1>3 DEF Named, Held, Inode
<1>5. /\ inodes' \in Nat /\ inodes' >= inodes /\ inodes' <= inodes + 1
      /\ log' \in 0 .. inodes' /\ m_log_file' \in 0 .. inodes'
  BY <1>1, <1>3, <1>4
<1>6. Now \in Nat /\ Now <= second + 1
  BY <1>3 DEF Now
<1>7. Types'
  <2>1. backup' \in [Seconds -> Nat]
    <3>1. log \in Nat /\ backup \in [Seconds -> Nat]
      BY <1>3 DEF Types
    <3> QED
      BY <1>1, <3>1
  <2>2. lines' \in [Inodes -> SUBSET Nodes]
    <3>1. lines \in [Inodes -> SUBSET Nodes] /\ hand \in Nodes
      BY <1>2, <1>3 DEF Types
    <3>2. CASE lines' = [lines EXCEPT ![Inode] = @ \cup {hand}]
      BY <3>1, <3>2
    <3> QED
      BY <1>1, <3>1, <3>2
  <2>3. inodes' \in Nat \ {0}
    BY <1>3, <1>5 DEF Types
  <2> QED
    BY <1>2, <1>3, <1>5, <2>1, <2>2, <2>3 DEF Types
<1>8. BoundInv'
  <2> DEFINE c == Cardinality(Ended)
             d == Cardinality(Ended')
  <2>1. c \in Nat /\ d \in Nat /\ c + 1 <= d
    BY <1>2, EndedFinite, EndedByOne
  <2>2. inodes <= 1 + c /\ second <= runs - 1 + c /\ runs >= 1 /\ (runs <= MaxRuns \/ runs = 1)
    BY <1>3 DEF BoundInv
  <2> HIDE DEF c, d
  <2>3. inodes' <= 1 + d /\ second' <= runs - 1 + d
    BY <1>1, <1>3, <1>5, <1>6, <2>1, <2>2
  <2> QED
    BY <1>1, <1>2, <1>3, <1>5, <1>6, <2>2, <2>3 DEF BoundInv, d
<1> QED
  BY <1>2, <1>7, <1>8 DEF CoreInv

LEMMA CoreRemove ==
    ASSUME CoreInv, Remove
    PROVE  CoreInv'
<1> USE Numbers DEF queue, list, process, file, writers, time
<1>1. /\ log' = NoFile
      /\ UNCHANGED <<queue, process, file, writers, lpc, hand, fate, backup, lines, inodes, time>>
  BY DEF Remove
<1>2. Types'
  <2>1. log' \in 0 .. inodes'
    BY <1>1 DEF CoreInv, Types
  <2> QED
    BY <1>1, <2>1 DEF CoreInv, Types
<1>3. WritersInv'
  BY <1>1 DEF CoreInv, WritersInv, Active
<1>4. LinksInv'
  BY <1>1 DEF CoreInv, LinksInv, Active
<1>5. HandInv'
  BY <1>1 DEF CoreInv, HandInv
<1>6. BoundInv'
  BY <1>1, BoundKept DEF CoreInv, Lasting
<1> QED
  BY <1>2, <1>3, <1>4, <1>5, <1>6 DEF CoreInv

LEMMA CoreRestart ==
    ASSUME CoreInv, Restart
    PROVE  CoreInv'
<1> USE Numbers
<1>1. /\ runs < MaxRuns /\ runs' = runs + 1 /\ second' \in {second, second + 1}
      /\ nxt' = [n \in Nodes |-> End] /\ prv' = [n \in Nodes |-> End]
      /\ tail' = [w \in Writers |-> End] /\ at' = [w \in Writers |-> "out"]
      /\ m_isFirst' = TRUE /\ m_log_file' = NoFile
      /\ pc' = [w \in Writers |-> "idle"] /\ msg' = [w \in Writers |-> 0]
      /\ lpc' = "off"
      /\ fate' = [m \in Msgs |-> IF m <= made /\ fate[m] \in {"none", "queued", "hand"}
                                 THEN "done" ELSE fate[m]]
      /\ UNCHANGED <<made, log, backup, lines, inodes>>
  BY DEF Restart, disk
<1>2. Types /\ WritersInv /\ BoundInv
  BY DEF CoreInv
<1>3. Types'
  <2>1. fate' \in [Msgs -> Fates]
    BY <1>1, <1>2 DEF Types, Fates
  <2>2. m_log_file' \in 0 .. inodes'
    BY <1>1, <1>2 DEF Types
  <2> QED
    BY <1>1, <1>2, <2>1, <2>2 DEF Types
<1>4. WritersInv'
  <2>1. \A w \in Writers : ~ Active(w)' /\ at'[w] = "out"
    BY <1>1 DEF Active
  <2>2. \A k \in Msgs : k > made' => fate'[k] = "none"
    <3>1. made \in Nat /\ \A k \in Msgs : k > made => ~ (k <= made) /\ fate[k] = "none"
      BY <1>2 DEF Types, WritersInv
    <3> QED
      BY <1>1, <3>1
  <2> QED
    BY <2>1, <2>2 DEF WritersInv
<1>5. LinksInv'
  BY <1>1 DEF LinksInv
<1>6. HandInv'
  BY <1>1 DEF HandInv
<1>7. BoundInv'
  <2> DEFINE c == Cardinality(Ended)
             d == Cardinality(Ended')
  <2>1. Lasting
    BY <1>1 DEF Lasting
  <2>2. c \in Nat /\ d \in Nat /\ c <= d
    BY <2>1, EndedFinite, EndedGrows
  <2>3. /\ inodes \in Nat /\ inodes <= 1 + c /\ second \in Nat /\ runs \in Nat
        /\ second <= runs - 1 + c
    BY <1>2 DEF BoundInv
  <2> HIDE DEF c, d
  <2>4. inodes <= 1 + d /\ second' <= runs' - 1 + d /\ runs' >= 1 /\ runs' <= MaxRuns
    BY <1>1, <2>2, <2>3, LogAssumption
  <2> QED
    BY <1>1, <2>3, <2>4 DEF BoundInv, d
<1> QED
  BY <1>3, <1>4, <1>5, <1>6, <1>7 DEF CoreInv

LEMMA CoreStep == CoreInv /\ [Next]_vars => CoreInv'
BY StepCases, CoreQuiet, CoreTake, CoreUnwritten, CoreRemove, CoreRestart, CoreLogToFile,
   CoreWriteLog, CoreFirst, CoreIgnore, CoreBeginPush, CoreLinkPush, CoreEndPush, Zenon

LEMMA CoreAlways == Spec => []CoreInv
<1>1. Spec => Init /\ [][Next]_vars
  BY PTL DEF Spec
<1> QED
  BY <1>1, CoreInit, CoreStep, PTL

-----------------------------------------------------------------------------
(* The files.                                                              *)

Safe == unsafe \cap {"first", "hasty"} = {}

\* Until the block of the first message has run nothing is in the list, and the file of
\* this second is not renamed yet; one writer is in the block, unless the race happened.
FirstInv ==
    /\ m_isFirst => /\ lpc # "write" /\ nxt[End] = End
                    /\ \A w \in Writers : pc[w] # "push"
                    /\ Safe => backup[second] = NoFile
    /\ Safe => \A v \in Writers : pc[v] = "first" =>
                   m_isFirst /\ \A w \in Writers : pc[w] = "first" => v = w

\* The open file is libusb.log, while that exists; seconds to come have no backup.
FileInv ==
    /\ m_log_file # NoFile /\ log # NoFile => m_log_file = log
    /\ \A s \in Seconds : s > second => backup[s] = NoFile
    /\ \A s \in Seconds : backup[s] <= inodes

\* Where a line is.
InLog(m) == log # NoFile /\ m \in lines[log]
InBackup(m) == \E s \in Seconds : backup[s] # NoFile /\ m \in lines[backup[s]]
Kept == \A m \in written \ removed : InLog(m) \/ InBackup(m)

FilesInv == FirstInv /\ FileInv /\ (Safe => Kept)

LEMMA KeptIsMeant == FilesInv => WrittenIsKept
<1> SUFFICES ASSUME FilesInv, unsafe \cap {"first", "hasty"} = {}, NEW m \in written \ removed
             PROVE  \E i \in {log} \cup {backup[s] : s \in Seconds} : i # NoFile /\ m \in lines[i]
  BY DEF WrittenIsKept
<1>1. InLog(m) \/ InBackup(m)
  BY DEF FilesInv, Safe, Kept
<1>2. CASE InLog(m)
  BY <1>2 DEF InLog
<1>3. CASE InBackup(m)
  BY <1>3 DEF InBackup
<1> QED
  BY <1>1, <1>2, <1>3

LEMMA FilesInit == Init => FilesInv
<1> SUFFICES ASSUME Init PROVE FilesInv
  OBVIOUS
<1>1. 0 \in Seconds /\ 1 \in Inodes
  BY Numbers, LogAssumption DEF Seconds, Inodes
<1>2. FirstInv
  BY <1>1, Numbers DEF Init, QueueInit, FirstInv
<1>3. FileInv
  BY Numbers DEF Init, FileInv, Seconds
<1>4. Kept
  BY <1>1, Numbers DEF Init, Kept, InLog
<1> QED
  BY <1>2, <1>3, <1>4 DEF FilesInv

\* A step that leaves the files alone.
LEMMA FilesAlone ==
    ASSUME FilesInv, UNCHANGED <<file, disk, second>>, FirstInv', Safe' => Safe
    PROVE  FilesInv'
<1> USE DEF file, disk
<1>1. FileInv'
  BY DEF FilesInv, FileInv
<1>2. Safe' => Kept'
  BY DEF FilesInv, Kept, InLog, InBackup
<1> QED
  BY <1>1, <1>2 DEF FilesInv

LEMMA FilesQuiet ==
    ASSUME FilesInv, Quiet
    PROVE  FilesInv'
<1> USE DEF Quiet, list, writers, time
<1>1. FirstInv' /\ (Safe' => Safe)
  BY DEF FilesInv, FirstInv, Safe, disk
<1> QED
  BY <1>1, FilesAlone

LEMMA FilesWriteLog ==
    ASSUME Types, WritersInv, FilesInv, NEW w \in Writers, write_log(w)
    PROVE  FilesInv'
<1>1. /\ pc[w] = "idle" /\ pc' = [pc EXCEPT ![w] = IF m_isFirst THEN "first" ELSE "push"]
      /\ unsafe' = unsafe \cup
             (IF m_isFirst /\ \E v \in Writers : pc[v] = "first" THEN {"first"} ELSE {})
      /\ UNCHANGED <<nxt, m_isFirst, lpc, file, disk, second>>
  BY DEF write_log, queue, list, process, time
<1>2. Safe' => Safe
  BY <1>1 DEF Safe
<1>3. \A v \in Writers : pc'[v] = IF v = w THEN (IF m_isFirst THEN "first" ELSE "push") ELSE pc[v]
  BY <1>1 DEF Types
<1>4. FirstInv'
  <2>1. m_isFirst' => /\ lpc' # "write" /\ nxt'[End] = End
                      /\ \A v \in Writers : pc'[v] # "push"
                      /\ Safe' => backup'[second'] = NoFile
    BY <1>1, <1>2, <1>3 DEF FilesInv, FirstInv, disk
  <2>2. ASSUME Safe', NEW v \in Writers, pc'[v] = "first"
        PROVE  m_isFirst' /\ \A u \in Writers : pc'[u] = "first" => v = u
    <3>1. \A u \in Writers : pc[u] = "first" =>
              m_isFirst /\ \A x \in Writers : pc[x] = "first" => u = x
      BY <1>2, <2>2 DEF FilesInv, FirstInv
    <3>2. m_isFirst => \A u \in Writers : pc[u] # "first"
      BY <1>1, <2>2 DEF Safe
    <3> QED
      BY <1>1, <1>3, <2>2, <3>1, <3>2
  <2> QED
    BY <2>1, <2>2 DEF FirstInv
<1> QED
  BY <1>1, <1>2, <1>4, FilesAlone

\* A step of a writer that has its message: nothing but the list, and unsafe's "list".
LEMMA FilesPush ==
    ASSUME Types, FilesInv, NEW w \in Writers, pc[w] = "push",
           pc' = pc \/ pc' = [pc EXCEPT ![w] = "idle"],
           unsafe \subseteq unsafe',
           UNCHANGED <<m_isFirst, file, disk, second>>
    PROVE  FilesInv'
<1>1. Safe' => Safe
  BY DEF Safe
<1>2. ~ m_isFirst
  BY DEF FilesInv, FirstInv
<1>3. \A v \in Writers : pc'[v] = "first" => pc[v] = "first"
  BY DEF Types
<1>4. FirstInv'
  BY <1>1, <1>2, <1>3 DEF FilesInv, FirstInv
<1> QED
  BY <1>1, <1>4, FilesAlone

LEMMA FilesTake ==
    ASSUME Types, FilesInv, Take
    PROVE  FilesInv'
<1>1. /\ nxt[End] # End /\ unsafe \subseteq unsafe'
      /\ UNCHANGED <<pc, m_isFirst, file, disk, second>>
  BY DEF Take, PopFront, Empty, process, writers, time
<1>2. Safe' => Safe
  BY <1>1 DEF Safe
<1>3. ~ m_isFirst
  BY <1>1 DEF FilesInv, FirstInv
<1>4. FirstInv'
  BY <1>1, <1>2, <1>3 DEF FilesInv, FirstInv
<1> QED
  BY <1>1, <1>2, <1>4, FilesAlone

LEMMA FilesUnwritten ==
    ASSUME FilesInv, Unwritten
    PROVE  FilesInv'
<1>1. lpc = "write" /\ UNCHANGED <<pc, m_isFirst, unsafe, file, disk, second>>
  BY DEF Unwritten, NotWritten, Done, process, disk
<1>2. Safe' => Safe
  BY <1>1 DEF Safe
<1>3. FirstInv'
  BY <1>1, <1>2 DEF FilesInv, FirstInv
<1> QED
  BY <1>1, <1>2, <1>3, FilesAlone

LEMMA FilesRemove ==
    ASSUME FilesInv, Remove
    PROVE  FilesInv'
<1>1. /\ log # NoFile /\ removed = {} /\ log' = NoFile /\ removed' = lines[log]
      /\ UNCHANGED <<nxt, pc, lpc, m_isFirst, backup, lines, inodes, written, second, unsafe>>
  BY DEF Remove, queue, list, process, writers, time
<1>2. FirstInv' /\ (Safe' => Safe)
  BY <1>1 DEF FilesInv, FirstInv, Safe
<1>3. FileInv'
  BY <1>1 DEF FilesInv, FileInv
<1>4. Safe' => Kept'
  BY <1>1, <1>2 DEF FilesInv, Kept, InLog, InBackup
<1> QED
  BY <1>2, <1>3, <1>4 DEF FilesInv

LEMMA FilesRestart ==
    ASSUME Types, BoundInv, FilesInv, Restart
    PROVE  FilesInv'
<1>1. /\ second' \in {second, second + 1} /\ lpc' = "off"
      /\ nxt' = [n \in Nodes |-> End] /\ m_log_file' = NoFile
      /\ pc' = [w \in Writers |-> "idle"]
      /\ unsafe' = (unsafe \ {"list"}) \cup (IF backup[second'] # NoFile THEN {"hasty"} ELSE {})
      /\ UNCHANGED <<log, backup, lines, inodes, written, removed>>
  BY DEF Restart, disk
<1>2. (Safe' => Safe) /\ (Safe' => backup'[second'] = NoFile)
  BY <1>1 DEF Safe
<1>3. FirstInv'
  BY <1>1, <1>2, Numbers DEF FirstInv
<1>4. FileInv'
  <2>1. second \in Nat /\ \A s \in Seconds : s > second' => s > second
    BY <1>1 DEF BoundInv, Seconds
  <2> QED
    BY <1>1, <2>1 DEF FilesInv, FileInv
<1>5. Safe' => Kept'
  BY <1>1, <1>2 DEF FilesInv, Kept, InLog, InBackup
<1> QED
  BY <1>3, <1>4, <1>5 DEF FilesInv

\* A rename of libusb.log to a backup that nobody has keeps every line.
LEMMA BackupKeeps ==
    ASSUME Kept, NEW s \in Seconds, backup[s] = NoFile, log # NoFile,
           backup \in [Seconds -> Nat], log \in Nat,
           backup' = [backup EXCEPT ![s] = log],
           NEW m \in written \ removed,
           \A i \in {log} \cup {backup[t] : t \in Seconds} : i # NoFile => lines[i] \subseteq lines'[i]
    PROVE  InBackup(m)'
<1>1. \A t \in Seconds : backup'[t] = IF t = s THEN log ELSE backup[t]
  OBVIOUS
<1>2. CASE InLog(m)
  <2>1. backup'[s] = log /\ m \in lines'[log]
    BY <1>1, <1>2 DEF InLog
  <2> QED
    BY <2>1 DEF InBackup
<1>3. CASE InBackup(m)
  <2>1. PICK t \in Seconds : backup[t] # NoFile /\ m \in lines[backup[t]]
    BY <1>3 DEF InBackup
  <2>2. backup'[t] = backup[t] /\ m \in lines'[backup[t]]
    BY <1>1, <2>1
  <2> QED
    BY <2>1, <2>2 DEF InBackup
<1> QED
  BY <1>2, <1>3 DEF Kept

\* The bounds leave a second and an inode for each message.
LEMMA BoundsSuffice ==
    ASSUME BoundInv
    PROVE  /\ second \in Seconds
           /\ (\E m \in Msgs : fate[m] # "done") => second + 1 \in Seconds /\ inodes + 1 \in Inodes
<1> DEFINE c == Cardinality(Ended)
<1>1. c \in Nat /\ c <= MaxMsgs /\ MaxMsgs \in Nat
  BY EndedFinite, Numbers
<1>2. (\E m \in Msgs : fate[m] # "done") => c + 1 <= MaxMsgs
  <2> SUFFICES ASSUME NEW m \in Msgs, fate[m] # "done" PROVE c + 1 <= MaxMsgs
    OBVIOUS
  <2>1. m \notin Ended /\ Ended \cup {m} \in SUBSET Msgs
    BY DEF Ended
  <2>2. Cardinality(Ended \cup {m}) = c + 1
    BY <2>1, EndedFinite, FS_AddElement
  <2> QED
    BY <2>1, <2>2, MsgsFinite
<1>3. /\ inodes \in Nat /\ second \in Nat /\ runs \in Nat /\ MaxRuns \in Nat
      /\ inodes <= 1 + c /\ second <= runs - 1 + c /\ runs >= 1 /\ (runs <= MaxRuns \/ runs = 1)
  BY LogAssumption DEF BoundInv
<1> HIDE DEF c
<1>4. second <= MaxRuns + c
  BY <1>1, <1>3
<1> QED
  BY <1>1, <1>2, <1>3, <1>4 DEF Seconds, Inodes

LEMMA FilesFirst ==
    ASSUME Types, BoundInv, FilesInv, NEW w \in Writers, First(w)
    PROVE  FilesInv'
<1>1. /\ pc[w] = "first" /\ m_log_file' = NoFile /\ m_isFirst' = FALSE
      /\ pc' = [pc EXCEPT ![w] = "push"]
      /\ \/ log # NoFile /\ backup' = [backup EXCEPT ![second] = log] /\ log' = NoFile
         \/ backup' = backup /\ log' = log
      /\ UNCHANGED <<lines, inodes, written, removed, second, unsafe>>
  BY DEF First, log_backup, time
<1>2. /\ second \in Seconds /\ second \in Nat /\ backup \in [Seconds -> Nat]
      /\ log \in 0 .. inodes /\ log \in Nat
  BY BoundsSuffice DEF BoundInv, Types
<1>3. Safe' => Safe
  BY <1>1 DEF Safe
<1>4. FirstInv'
  <2>1. \A v \in Writers : pc'[v] = "first" => pc[v] = "first" /\ v # w
    BY <1>1 DEF Types
  <2> QED
    BY <1>1, <1>3, <2>1 DEF FilesInv, FirstInv
<1>5. FileInv'
  BY <1>1, <1>2 DEF FilesInv, FileInv
<1>6. Safe' => Kept'
  <2> SUFFICES ASSUME Safe', NEW m \in written \ removed PROVE InLog(m)' \/ InBackup(m)'
    BY <1>1 DEF Kept
  <2>1. Kept /\ backup[second] = NoFile
    BY <1>1, <1>3 DEF FilesInv, FirstInv
  <2>2. CASE log # NoFile /\ backup' = [backup EXCEPT ![second] = log] /\ log' = NoFile
    BY <1>1, <1>2, <2>1, <2>2, BackupKeeps
  <2>3. CASE backup' = backup /\ log' = log
    BY <1>1, <2>1, <2>3 DEF Kept, InLog, InBackup
  <2> QED
    BY <1>1, <2>2, <2>3
<1> QED
  BY <1>4, <1>5, <1>6 DEF FilesInv

LEMMA FilesLogToFile ==
    ASSUME CoreInv, FilesInv, NEW o \in Outcomes, log_to_file(o)
    PROVE  FilesInv'
<1> USE Numbers
<1>1. /\ lpc = "write" /\ Done /\ second' = Now
      /\ backup' = IF Full /\ log # NoFile THEN [backup EXCEPT ![Now] = log] ELSE backup
      /\ \/ /\ Held = NoFile /\ log' = Named /\ m_log_file' = NoFile
            /\ lines' = lines /\ inodes' = inodes /\ written' = written
         \/ /\ log' = IF Held # NoFile THEN Named ELSE Inode
            /\ inodes' = IF Inode > inodes THEN Inode ELSE inodes
            /\ m_log_file' \in {Inode, NoFile}
            /\ \/ lines' = [lines EXCEPT ![Inode] = @ \cup {hand}] /\ written' = written \cup {hand}
               \/ lines' = lines /\ written' = written
  BY LogToFileFacts
<1>2. /\ hand \in Msgs /\ fate[hand] = "hand" /\ UNCHANGED <<pc, m_isFirst, unsafe, removed>>
  BY <1>1, DoneFacts
<1>3. /\ Types /\ BoundInv /\ inodes \in Nat /\ log \in 0 .. inodes /\ m_log_file \in 0 .. inodes
      /\ second \in Nat /\ backup \in [Seconds -> Nat] /\ lines \in [Inodes -> SUBSET Nodes]
  BY DEF CoreInv, Types, BoundInv
<1>4. second \in Seconds /\ second + 1 \in Seconds /\ inodes + 1 \in Inodes
  BY <1>2, <1>3, BoundsSuffice
<1>5. Inode \in Inodes /\ Inode # NoFile /\ inodes' >= inodes
  BY <1>1, <1>3, <1>4 DEF Named, Held, Inode, Inodes
<1>6. Now \in Seconds /\ Now >= second /\ (log # NoFile /\ Full => backup[Now] = NoFile)
  <2>1. backup[second + 1] = NoFile
    BY <1>3, <1>4 DEF FilesInv, FileInv
  <2> QED
    BY <1>3, <1>4, <2>1 DEF Now
<1>7. Safe' => Safe
  BY <1>2 DEF Safe
<1>8. FirstInv'
  BY <1>1, <1>2, <1>7 DEF FilesInv, FirstInv
<1>9. ~ Full /\ log # NoFile => (Held # NoFile => Held = log) /\ Named = log /\ Inode = log
  BY DEF Held, Named, Inode, FilesInv, FileInv
<1>10. Full \/ log = NoFile => Named = NoFile /\ Held = NoFile
  BY DEF Held, Named
<1>11. FileInv'
  <2>1. ASSUME NEW s \in Seconds, s > second' PROVE backup'[s] = NoFile
    <3>1. s > second /\ s # Now /\ s \in Nat
      BY <1>1, <1>3, <1>6, <2>1 DEF Seconds
    <3>2. backup[s] = NoFile
      BY <3>1 DEF FilesInv, FileInv
    <3> QED
      BY <1>1, <1>3, <1>6, <3>1, <3>2
  <2>2. m_log_file' # NoFile /\ log' # NoFile => m_log_file' = log'
    BY <1>1, <1>9, <1>10
  <2>3. ASSUME NEW s \in Seconds PROVE backup'[s] <= inodes'
    <3>1. backup[s] <= inodes /\ backup[s] \in Nat /\ inodes' \in Nat
      BY <1>1, <1>3, <1>5 DEF FilesInv, FileInv, Inodes
    <3>2. backup'[s] = backup[s] \/ backup'[s] = log
      BY <1>1, <1>3
    <3> QED
      BY <1>3, <1>5, <3>1, <3>2
  <2> QED
    BY <2>1, <2>2, <2>3 DEF FileInv
<1>12. \A i \in {log} \cup {backup[t] : t \in Seconds} : i # NoFile => lines[i] \subseteq lines'[i]
  <2> SUFFICES ASSUME NEW i \in {log} \cup {backup[t] : t \in Seconds}, i # NoFile
               PROVE  lines[i] \subseteq lines'[i]
    OBVIOUS
  <2>1. i \in Nat /\ i <= inodes
    BY <1>3 DEF FilesInv, FileInv
  <2>2. i \in Inodes
    BY <1>3, <1>4, <2>1 DEF Inodes
  <2> QED
    BY <1>1, <1>3, <2>2
<1>13. Safe' => Kept'
  <2> SUFFICES ASSUME Safe', NEW m \in written' \ removed PROVE InLog(m)' \/ InBackup(m)'
    BY <1>2 DEF Kept
  <2>1. Kept
    BY <1>7 DEF FilesInv
  <2>2. CASE m \in written /\ Full /\ log # NoFile
    <3>1. backup' = [backup EXCEPT ![Now] = log] /\ log \in Nat /\ backup[Now] = NoFile
      BY <1>1, <1>3, <1>6, <2>2
    <3>2. m \in written \ removed
      BY <2>2
    <3>3. InBackup(m)'
      BY <1>3, <1>6, <1>12, <2>1, <2>2, <3>1, <3>2, BackupKeeps, Zenon
    <3> QED
      BY <3>3
  <2>3. CASE m \in written /\ ~ (Full /\ log # NoFile)
    <3>1. backup' = backup /\ (log # NoFile => log' = log)
      BY <1>1, <1>9, <1>10, <2>3
    <3>2. CASE InLog(m)
      BY <1>12, <3>1, <3>2 DEF InLog
    <3>3. CASE InBackup(m)
      BY <1>12, <3>1, <3>3 DEF InBackup
    <3> QED
      BY <2>1, <2>3, <3>2, <3>3 DEF Kept
  <2>4. CASE m \notin written
    <3>1. lines' = [lines EXCEPT ![Inode] = @ \cup {hand}] /\ m = hand
      BY <1>1, <2>4
    <3>2. log' = Inode
      BY <1>1, <1>9, <1>10, <2>4
    <3> QED
      BY <1>3, <1>5, <3>1, <3>2 DEF InLog
  <2> QED
    BY <2>2, <2>3, <2>4
<1> QED
  BY <1>8, <1>11, <1>13 DEF FilesInv

LEMMA FilesStep == CoreInv /\ FilesInv /\ [Next]_vars => FilesInv'
<1> SUFFICES ASSUME CoreInv, FilesInv, [Next]_vars PROVE FilesInv'
  OBVIOUS
<1>1. Types /\ WritersInv /\ BoundInv
  BY DEF CoreInv
<1>2. ASSUME NEW w \in Writers, Ignore(w) \/ BeginPush(w) \/ LinkPush(w) \/ EndPush(w)
      PROVE  FilesInv'
  <2>1. /\ pc[w] = "push" /\ (pc' = pc \/ pc' = [pc EXCEPT ![w] = "idle"])
        /\ unsafe \subseteq unsafe' /\ UNCHANGED <<m_isFirst, file, disk, second>>
    BY <1>2 DEF Ignore, BeginPush, LinkPush, EndPush, process, writers, time
  <2> QED
    BY <1>1, <2>1, FilesPush
<1> QED
  BY <1>1, <1>2, StepCases, FilesQuiet, FilesTake, FilesUnwritten, FilesRemove, FilesRestart,
     FilesLogToFile, FilesWriteLog, FilesFirst, Zenon

\* A line that was written stays in libusb.log or in a backup that is still there, whatever
\* rotations, failed writes, reopened files and restarts happen (mgr_log.cpp log_to_file and
\* log_backup), for any writers, messages, processes and lines of a file.
THEOREM LinesAreKept == Spec => []WrittenIsKept
<1>1. Spec => Init /\ [][Next]_vars
  BY PTL DEF Spec
<1> QED
  BY <1>1, CoreAlways, FilesInit, FilesStep, KeptIsMeant, PTL

-----------------------------------------------------------------------------
(* The chain of the list.                                                  *)

Smaller == {ss \in Nat \X Nat : ss[1] < ss[2]}

\* A set of numbers that is not empty has a least one.
LEMMA SmallestNat ==
    ASSUME NEW T \in SUBSET Nat, T # {}
    PROVE  \E m \in T : \A n \in T : m <= n
<1>1. IsWellFoundedOn(Smaller, Nat)
  BY NatLessThanWellFounded, Zenon DEF OpToRel, Smaller
<1>2. PICK x \in T : \A y \in T : ~ (<<y, x>> \in Smaller)
  BY <1>1, WFMin, Zenon
<1>3. ASSUME NEW y \in T PROVE x <= y
  <2>1. x \in Nat /\ y \in Nat
    OBVIOUS
  <2>2. y < x => <<y, x>> \in Smaller
    <3>1. <<y, x>> \in Nat \X Nat /\ <<y, x>>[1] = y /\ <<y, x>>[2] = x
      BY <2>1
    <3> QED
      BY <3>1, Zenon DEF Smaller
  <2> QED
    BY <1>2, <2>1, <2>2
<1> QED
  BY <1>3

\* f[k] is what one meets after k nodes.
Meets(n, f) == f = [k \in 0 .. n |-> IF k = 0 THEN nxt[End] ELSE nxt[f[k - 1]]]

LEMMA MeetsExists ==
    ASSUME NEW n \in Nat
    PROVE  \E f : Meets(n, f)
<1> DEFINE T == {k \in Nat : ~ \E f : Meets(k, f)}
<1>1. SUFFICES ASSUME T # {} PROVE FALSE
  OBVIOUS
<1>2. PICK m \in T : \A k \in T : m <= k
  <2>1. T \in SUBSET Nat
    OBVIOUS
  <2> QED
    BY <1>1, <2>1, SmallestNat, Zenon
<1>3. m # 0
  <2> DEFINE f == [k \in 0 .. 0 |-> nxt[End]]
  <2>1. f = [k \in 0 .. 0 |-> IF k = 0 THEN nxt[End] ELSE nxt[f[k - 1]]]
    OBVIOUS
  <2> HIDE DEF f
  <2>2. Meets(0, f)
    BY <2>1 DEF Meets
  <2> QED
    BY <2>2
<1>4. m \in Nat \ {0} /\ m - 1 \in Nat /\ m - 1 \notin T
  <2>1. m \in Nat
    OBVIOUS
  <2>2. m \in Nat \ {0} /\ m - 1 \in Nat /\ ~ (m <= m - 1)
    BY <2>1, <1>3
  <2> HIDE DEF T
  <2> QED
    BY <1>2, <2>2
<1>5. PICK g : Meets(m - 1, g)
  BY <1>4
<1> DEFINE f == [k \in 0 .. m |-> IF k < m THEN g[k] ELSE nxt[g[k - 1]]]
<1>6. ASSUME NEW k \in 0 .. m
      PROVE  f[k] = IF k = 0 THEN nxt[End] ELSE nxt[f[k - 1]]
  <2>1. k # 0 => f[k - 1] = g[k - 1]
    BY <1>4
  <2>2. CASE k < m
    <3>1. k \in 0 .. m - 1 /\ f[k] = g[k]
      BY <1>4, <2>2
    <3>2. g[k] = IF k = 0 THEN nxt[End] ELSE nxt[g[k - 1]]
      BY <1>5, <3>1 DEF Meets
    <3> QED
      BY <2>1, <3>1, <3>2
  <2>3. CASE k = m
    BY <1>4, <2>1, <2>3
  <2> QED
    BY <2>2, <2>3
<1>7. f = [k \in 0 .. m |-> f[k]]
  OBVIOUS
<1> HIDE DEF f
<1>8. Meets(m, f)
  BY <1>6, <1>7 DEF Meets
<1> QED
  BY <1>8

LEMMA MeetsUnique ==
    ASSUME NEW n \in Nat, NEW f, NEW g, Meets(n, f), Meets(n, g)
    PROVE  f = g
<1> DEFINE T == {k \in 0 .. n : f[k] # g[k]}
<1>1. /\ \A k \in 0 .. n : f[k] = IF k = 0 THEN nxt[End] ELSE nxt[f[k - 1]]
      /\ \A k \in 0 .. n : g[k] = IF k = 0 THEN nxt[End] ELSE nxt[g[k - 1]]
  BY DEF Meets
<1>2. ASSUME T # {} PROVE FALSE
  <2>0. T \in SUBSET Nat
    OBVIOUS
  <2>1. PICK m \in T : \A k \in T : m <= k
    BY <1>2, <2>0, SmallestNat, Zenon
  <2>2. m # 0 => m - 1 \in 0 .. n /\ m - 1 \notin T
    BY <2>1
  <2> QED
    BY <1>1, <2>1, <2>2
<1>3. f = [k \in 0 .. n |-> f[k]] /\ g = [k \in 0 .. n |-> g[k]]
  BY DEF Meets
<1> QED
  BY <1>2, <1>3

LEMMA ChainMeans ==
    ASSUME NEW f, Meets(MaxMsgs, f), NEW k \in Nodes, \A j \in 0 .. k : f[j] # End
    PROVE  f[k] \in Chain
<1>1. \A g : Meets(MaxMsgs, g) => g = f
  BY MeetsUnique, Numbers
<1>2. \A g : g = [i \in Nodes |-> IF i = 0 THEN nxt[End] ELSE nxt[g[i - 1]]] => g = f
  BY <1>1, Zenon DEF Meets, Nodes
<1>3. f = [i \in Nodes |-> IF i = 0 THEN nxt[End] ELSE nxt[f[i - 1]]]
  BY Zenon DEF Meets, Nodes
<1>4. (CHOOSE g : g = [i \in Nodes |-> IF i = 0 THEN nxt[End] ELSE nxt[g[i - 1]]]) = f
  BY <1>2, <1>3, Zenon
<1>5. Chain = {f[i] : i \in {j \in Nodes : ~ \E x \in 0 .. j : f[x] = End}}
  BY <1>4, Zenon DEF Chain
<1> QED
  BY <1>5, Zenon

\* q is the ring of the nodes from the end node to the end node; n of them are messages.
Ring(n, q) ==
    /\ n \in Nat /\ q \in [0 .. n + 1 -> Nodes]
    /\ q[0] = End /\ q[n + 1] = End
    /\ \A i, j \in 0 .. n : q[i] = q[j] => i = j
    /\ \A i \in 0 .. n : nxt[q[i]] = q[i + 1]

LEMMA RingFits ==
    ASSUME NEW n, NEW q, Ring(n, q)
    PROVE  n <= MaxMsgs
<1> DEFINE f == [i \in 0 .. n |-> q[i]]
<1>1. n \in Nat /\ \A i \in 0 .. n : i \in 0 .. n + 1
  BY DEF Ring
<1>2. f \in [0 .. n -> Nodes] /\ \A i, j \in 0 .. n : f[i] = f[j] => i = j
  BY <1>1 DEF Ring
<1>3. f \in Injection(0 .. n, Nodes)
  <2> HIDE DEF f
  <2> QED
    BY <1>2, Zenon DEF Injection, IsInjective
<1>4. IsFiniteSet(Nodes) /\ Cardinality(Nodes) = MaxMsgs + 1
  BY FS_Interval, Numbers
<1>5. Cardinality(0 .. n) = n + 1
  BY FS_Interval, <1>1
<1> HIDE DEF f
<1>6. Cardinality(0 .. n) <= Cardinality(Nodes)
  BY <1>3, <1>4, FS_Injection
<1> QED
  BY <1>1, <1>4, <1>5, <1>6, Numbers

\* All of a ring is in the chain.
LEMMA RingIsChain ==
    ASSUME NEW n, NEW q, Ring(n, q), NEW i \in 1 .. n
    PROVE  q[i] \in Chain
<1>1. PICK f : Meets(MaxMsgs, f)
  BY MeetsExists, Numbers
<1>2. n \in Nat /\ n <= MaxMsgs /\ MaxMsgs \in Nat
  BY RingFits, Numbers DEF Ring
<1> DEFINE T == {k \in 0 .. n - 1 : f[k] # q[k + 1]}
<1>3. ASSUME T # {} PROVE FALSE
  <2>0. T \in SUBSET Nat
    OBVIOUS
  <2>1. PICK m \in T : \A k \in T : m <= k
    BY <1>3, <2>0, SmallestNat, Zenon
  <2>2. m \in 0 .. n - 1 /\ m \in 0 .. MaxMsgs /\ m \in 0 .. n /\ f[m] # q[m + 1]
    BY <1>2, <2>1
  <2>3. f[m] = IF m = 0 THEN nxt[End] ELSE nxt[f[m - 1]]
    BY <1>1, <2>2 DEF Meets
  <2>4. q[m + 1] = nxt[q[m]] /\ q[0] = End
    BY <2>2 DEF Ring
  <2>5. m # 0 => f[m - 1] = q[m]
    <3>1. m # 0 => m - 1 \in 0 .. n - 1 /\ m - 1 \notin T /\ (m - 1) + 1 = m
      BY <1>2, <2>1
    <3> QED
      BY <3>1
  <2> QED
    BY <2>2, <2>3, <2>4, <2>5
<1>4. \A k \in 0 .. n - 1 : f[k] = q[k + 1] /\ q[k + 1] # End
  <2> SUFFICES ASSUME NEW k \in 0 .. n - 1 PROVE f[k] = q[k + 1] /\ q[k + 1] # End
    OBVIOUS
  <2>1. k + 1 \in 0 .. n /\ 0 \in 0 .. n /\ k + 1 # 0
    BY <1>2
  <2> QED
    BY <1>3, <2>1 DEF Ring
<1>5. i - 1 \in Nodes /\ i - 1 \in 0 .. n - 1 /\ (i - 1) + 1 = i
  BY <1>2, Numbers
<1>6. \A j \in 0 .. i - 1 : f[j] # End
  BY <1>2, <1>4
<1>7. f[i - 1] \in Chain
  BY <1>1, <1>5, <1>6, ChainMeans, Zenon
<1> QED
  BY <1>4, <1>5, <1>7

-----------------------------------------------------------------------------
(* The list, while no push overlaps with a push or a pop.                  *)

\* One writer at a time is inside Push.
OnePusher == \A v, w \in Writers : at[v] # "out" /\ at[w] # "out" => v = w

\* The ring holds the messages that were queued, and what Push has read is its last node.
Holds(n, q) ==
    /\ \A m \in Msgs : fate[m] = "queued" => \E i \in 1 .. n : q[i] = m
    /\ (\A w \in Writers : at[w] = "out") => prv[End] = q[n]
    /\ \A w \in Writers : at[w] = "link" => tail[w] = q[n] /\ nxt[msg[w]] = End
    /\ \A w \in Writers : at[w] = "tail" => msg[w] = q[n]

ListInv == "list" \notin unsafe => OnePusher /\ \E n, q : Ring(n, q) /\ Holds(n, q)

LEMMA ListIsMeant == ListInv => QueuedIsReachable
<1> SUFFICES ASSUME ListInv, "list" \notin unsafe, NEW m \in Msgs, fate[m] = "queued"
             PROVE  m \in Chain
  BY DEF QueuedIsReachable
<1>1. PICK n, q : Ring(n, q) /\ Holds(n, q)
  BY DEF ListInv
<1>2. PICK i \in 1 .. n : q[i] = m
  BY <1>1 DEF Holds
<1> QED
  BY <1>1, <1>2, RingIsChain

\* The ring of the end node alone.
LEMMA NoneRing ==
    ASSUME NEW f, f = [x \in Nodes |-> End]
    PROVE  \E q : /\ q \in [0 .. 1 -> Nodes] /\ q[0] = End /\ q[1] = End
                  /\ \A i \in 0 .. 0 : f[q[i]] = q[i + 1]
<1> DEFINE q == [i \in 0 .. 1 |-> End]
<1>1. /\ q \in [0 .. 1 -> Nodes] /\ q[0] = End /\ q[1] = End
      /\ \A i \in 0 .. 0 : f[q[i]] = q[i + 1]
  BY Numbers
<1> QED
  BY <1>1

LEMMA ListInit == Init => ListInv
<1> SUFFICES ASSUME Init PROVE ListInv
  OBVIOUS
<1>1. /\ nxt = [x \in Nodes |-> End] /\ prv[End] = End /\ \A m \in Msgs : fate[m] = "none"
      /\ \A w \in Writers : at[w] = "out"
  BY Numbers DEF Init, QueueInit
<1>2. PICK q : /\ q \in [0 .. 1 -> Nodes] /\ q[0] = End /\ q[1] = End
               /\ \A i \in 0 .. 0 : nxt[q[i]] = q[i + 1]
  BY <1>1, NoneRing
<1>3. Ring(0, q)
  BY <1>2 DEF Ring
<1>4. Holds(0, q)
  BY <1>1, <1>2 DEF Holds
<1> QED
  BY <1>1, <1>3, <1>4 DEF ListInv, OnePusher

\* A step that leaves the list alone, and queues nothing.
LEMMA ListAlone ==
    ASSUME ListInv, UNCHANGED <<nxt, prv, tail, at>>, unsafe \subseteq unsafe',
           \A w \in Writers : at[w] # "out" => msg'[w] = msg[w],
           \A m \in Msgs : fate'[m] = "queued" => fate[m] = "queued"
    PROVE  ListInv'
<1> SUFFICES ASSUME "list" \notin unsafe'
             PROVE  OnePusher' /\ \E n, q : Ring(n, q)' /\ Holds(n, q)'
  BY DEF ListInv
<1>1. OnePusher /\ \E n, q : Ring(n, q) /\ Holds(n, q)
  BY DEF ListInv
<1>2. PICK n, q : Ring(n, q) /\ Holds(n, q)
  BY <1>1
<1>3. Ring(n, q)'
  BY <1>2 DEF Ring
<1>4. Holds(n, q)'
  BY <1>2 DEF Holds
<1>5. OnePusher'
  BY <1>1 DEF OnePusher
<1> QED
  BY <1>3, <1>4, <1>5

LEMMA ListBeginPush ==
    ASSUME CoreInv, ListInv, NEW w \in Writers, BeginPush(w)
    PROVE  ListInv'
<1> SUFFICES ASSUME "list" \notin unsafe'
             PROVE  OnePusher' /\ \E n, q : Ring(n, q)' /\ Holds(n, q)'
  BY DEF ListInv
<1> DEFINE m == msg[w]
<1>1. /\ pc[w] = "push" /\ at[w] = "out" /\ PushHook(w, m) /\ msg' = msg /\ fate' = fate
      /\ unsafe' = unsafe \cup (IF Pushing(Writers \ {w}) THEN {"list"} ELSE {})
  BY DEF BeginPush
<1>2. Types /\ WritersInv /\ LinksInv
  BY DEF CoreInv
<1>3. /\ Active(w) /\ m \in Msgs /\ m \in Nodes /\ m # End
  BY <1>1, <1>2, ActiveFacts
<1>4. /\ nxt' = [nxt EXCEPT ![m] = End] /\ prv' = [prv EXCEPT ![m] = prv[End]]
      /\ tail' = [tail EXCEPT ![w] = prv[End]] /\ at' = [at EXCEPT ![w] = "link"]
  BY <1>1, <1>2, <1>3, HookFacts
<1>5. \A v \in Writers : at[v] = "out"
  BY <1>1 DEF Pushing
<1>6. PICK n, q : Ring(n, q) /\ Holds(n, q)
  BY <1>1 DEF ListInv
<1>7. n \in Nat /\ \A i \in 0 .. n + 1 : q[i] \in Nodes
  BY <1>6 DEF Ring
<1>8. \A i \in 0 .. n : q[i] # m
  <2> SUFFICES ASSUME NEW i \in 0 .. n PROVE q[i] # m
    OBVIOUS
  <2>1. CASE i = 0
    BY <1>3, <1>6, <2>1 DEF Ring
  <2>2. CASE i # 0
    <3>1. i - 1 \in 0 .. n /\ (i - 1) + 1 = i /\ q[i - 1] \in Nodes
      BY <1>7, <2>2
    <3>2. nxt[q[i - 1]] = q[i]
      BY <1>6, <3>1 DEF Ring
    <3> QED
      BY <1>1, <1>2, <1>3, <3>1, <3>2 DEF LinksInv
  <2> QED
    BY <2>1, <2>2
<1>9. Ring(n, q)'
  <2>1. \A i \in 0 .. n : nxt'[q[i]] = nxt[q[i]]
    BY <1>4, <1>7, <1>8
  <2> QED
    BY <1>6, <2>1 DEF Ring
<1>10. /\ \A v \in Writers : at'[v] = IF v = w THEN "link" ELSE "out"
       /\ tail'[w] = prv[End] /\ nxt'[m] = End
  BY <1>2, <1>3, <1>4, <1>5 DEF Types
<1>11. Holds(n, q)'
  <2>1. \A k \in Msgs : fate'[k] = "queued" => \E i \in 1 .. n : q[i] = k
    BY <1>1, <1>6 DEF Holds
  <2>2. prv[End] = q[n]
    BY <1>5, <1>6 DEF Holds
  <2> QED
    BY <1>1, <1>10, <2>1, <2>2 DEF Holds
<1>12. OnePusher'
  BY <1>10 DEF OnePusher
<1> QED
  BY <1>9, <1>11, <1>12

LEMMA ListLinkPush ==
    ASSUME CoreInv, ListInv, NEW w \in Writers, LinkPush(w)
    PROVE  ListInv'
<1> SUFFICES ASSUME "list" \notin unsafe'
             PROVE  OnePusher' /\ \E n, q : Ring(n, q)' /\ Holds(n, q)'
  BY DEF ListInv
<1> DEFINE m == msg[w]
<1>1. /\ pc[w] = "push" /\ at[w] = "link"
      /\ nxt' = [nxt EXCEPT ![tail[w]] = m] /\ at' = [at EXCEPT ![w] = "tail"]
      /\ UNCHANGED <<prv, tail, msg, fate, unsafe>>
  BY DEF LinkPush, PushLink, writers
<1>2. Types /\ WritersInv /\ LinksInv
  BY DEF CoreInv
<1>3. /\ Active(w) /\ m \in Msgs /\ m \in Nodes /\ m # End /\ tail[w] \in Nodes
  BY <1>1, <1>2, ActiveFacts
<1>4. OnePusher /\ \E n, q : Ring(n, q) /\ Holds(n, q)
  BY <1>1 DEF ListInv
<1>5. PICK n, q : Ring(n, q) /\ Holds(n, q)
  BY <1>4
<1>6. /\ n \in Nat /\ (\A i \in 0 .. n + 1 : q[i] \in Nodes) /\ q[0] = End
      /\ \A i, j \in 0 .. n : q[i] = q[j] => i = j
      /\ \A i \in 0 .. n : nxt[q[i]] = q[i + 1]
  BY <1>5 DEF Ring
<1>7. \A i \in 0 .. n : q[i] # m
  <2> SUFFICES ASSUME NEW i \in 0 .. n PROVE q[i] # m
    OBVIOUS
  <2>1. CASE i = 0
    BY <1>3, <1>6, <2>1
  <2>2. CASE i # 0
    <3>1. i - 1 \in 0 .. n /\ (i - 1) + 1 = i /\ q[i - 1] \in Nodes
      BY <1>6, <2>2
    <3>2. nxt[q[i - 1]] = q[i]
      BY <1>6, <3>1
    <3> QED
      BY <1>1, <1>2, <1>3, <3>1, <3>2 DEF LinksInv
  <2> QED
    BY <2>1, <2>2
<1>8. tail[w] = q[n] /\ nxt[m] = End
  BY <1>1, <1>5 DEF Holds
<1>9. PICK r : /\ r \in [0 .. (n + 1) + 1 -> Nodes] /\ r[0] = End /\ r[(n + 1) + 1] = End
               /\ r[n + 1] = m /\ \A i \in 0 .. n : r[i] = q[i]
  <2> DEFINE s == [i \in 0 .. (n + 1) + 1 |->
                      IF i <= n THEN q[i] ELSE IF i = n + 1 THEN m ELSE End]
  <2>1. /\ s \in [0 .. (n + 1) + 1 -> Nodes] /\ s[0] = End /\ s[(n + 1) + 1] = End
        /\ s[n + 1] = m /\ \A i \in 0 .. n : s[i] = q[i]
    BY <1>3, <1>6, Numbers
  <2> QED
    BY <2>1
<1>10. \A x \in Nodes : nxt'[x] = IF x = q[n] THEN m ELSE nxt[x]
  BY <1>1, <1>2, <1>3, <1>8 DEF Types
<1>11. Ring(n + 1, r)'
  <2>1. ASSUME NEW i \in 0 .. n + 1, NEW j \in 0 .. n + 1, r[i] = r[j] PROVE i = j
    <3>1. i \in 0 .. n \/ i = n + 1
      BY <1>6
    <3>2. j \in 0 .. n \/ j = n + 1
      BY <1>6
    <3> QED
      BY <1>6, <1>7, <1>9, <2>1, <3>1, <3>2
  <2>2. ASSUME NEW i \in 0 .. n + 1 PROVE nxt'[r[i]] = r[i + 1]
    <3>1. CASE i = n + 1
      <4>1. m # q[n]
        BY <1>6, <1>7
      <4> QED
        BY <1>3, <1>8, <1>9, <1>10, <3>1, <4>1
    <3>2. CASE i = n
      BY <1>6, <1>9, <1>10, <3>2
    <3>3. CASE i \in 0 .. n /\ i # n
      <4>1. i + 1 \in 0 .. n /\ q[i] # q[n] /\ q[i] \in Nodes
        BY <1>6, <3>3
      <4> QED
        BY <1>6, <1>9, <1>10, <3>3, <4>1
    <3> QED
      BY <1>6, <3>1, <3>2, <3>3
  <2>3. n + 1 \in Nat
    BY <1>6
  <2> QED
    BY <1>9, <2>1, <2>2, <2>3 DEF Ring
<1>12. \A v \in Writers : at'[v] = IF v = w THEN "tail" ELSE "out"
  BY <1>1, <1>2, <1>4 DEF Types, OnePusher
<1>13. Holds(n + 1, r)'
  <2>1. ASSUME NEW k \in Msgs, fate'[k] = "queued" PROVE \E i \in 1 .. n + 1 : r[i] = k
    <3>1. PICK i \in 1 .. n : q[i] = k
      BY <1>1, <1>5, <2>1 DEF Holds
    <3>2. i \in 1 .. n + 1 /\ i \in 0 .. n
      BY <1>6
    <3> QED
      BY <1>9, <3>1, <3>2
  <2> QED
    <3>1. /\ at'[w] # "out" /\ msg'[w] = r[n + 1]
          /\ \A v \in Writers : at'[v] # "link" /\ (at'[v] = "tail" => v = w)
      BY <1>1, <1>9, <1>12
    <3> QED
      BY <2>1, <3>1, Zenon DEF Holds
<1>14. OnePusher'
  BY <1>12 DEF OnePusher
<1> QED
  BY <1>11, <1>13, <1>14

LEMMA ListEndPush ==
    ASSUME CoreInv, ListInv, NEW w \in Writers, EndPush(w)
    PROVE  ListInv'
<1> SUFFICES ASSUME "list" \notin unsafe'
             PROVE  OnePusher' /\ \E n, q : Ring(n, q)' /\ Holds(n, q)'
  BY DEF ListInv
<1> DEFINE m == msg[w]
<1>1. /\ pc[w] = "push" /\ at[w] = "tail"
      /\ prv' = [prv EXCEPT ![End] = m] /\ at' = [at EXCEPT ![w] = "out"]
      /\ nxt' = nxt /\ unsafe' = unsafe
      /\ fate' = [fate EXCEPT ![m] = IF @ = "none" THEN "queued" ELSE @]
  BY DEF EndPush, PushTail
<1>2. Types /\ WritersInv
  BY DEF CoreInv
<1>3. m \in Msgs /\ m # End
  BY <1>1, <1>2, ActiveFacts
<1>4. OnePusher /\ \E n, q : Ring(n, q) /\ Holds(n, q)
  BY <1>1 DEF ListInv
<1>5. PICK n, q : Ring(n, q) /\ Holds(n, q)
  BY <1>4
<1>6. n \in Nat /\ q[0] = End /\ m = q[n]
  BY <1>1, <1>5 DEF Ring, Holds
<1>7. n \in 1 .. n
  BY <1>3, <1>6
<1>8. Ring(n, q)'
  BY <1>1, <1>5 DEF Ring
<1>9. \A v \in Writers : at'[v] = "out"
  BY <1>1, <1>2, <1>4 DEF Types, OnePusher
<1>10. Holds(n, q)'
  <2>1. \A k \in Msgs : fate'[k] = "queued" => k = m \/ fate[k] = "queued"
    BY <1>1, <1>2, <1>3 DEF Types
  <2>2. \A k \in Msgs : fate'[k] = "queued" => \E i \in 1 .. n : q[i] = k
    BY <1>5, <1>6, <1>7, <2>1 DEF Holds
  <2>3. prv'[End] = q[n]
    BY <1>1, <1>2, <1>6, Numbers DEF Types
  <2> QED
    BY <1>9, <2>2, <2>3 DEF Holds
<1> QED
  BY <1>8, <1>9, <1>10 DEF OnePusher

LEMMA ListTake ==
    ASSUME CoreInv, ListInv, Take
    PROVE  ListInv'
<1> SUFFICES ASSUME "list" \notin unsafe'
             PROVE  OnePusher' /\ \E n, q : Ring(n, q)' /\ Holds(n, q)'
  BY DEF ListInv
<1> DEFINE m == nxt[End]
<1>1. /\ PopFront /\ fate' = [fate EXCEPT ![m] = "hand"] /\ msg' = msg
      /\ unsafe' = unsafe \cup (IF Pushing(Writers) THEN {"list"} ELSE {})
  BY DEF Take, writers
<1>2. Types /\ LinksInv
  BY DEF CoreInv
<1>3. /\ m \in Msgs /\ m # nxt[m]
      /\ \A x \in Nodes : nxt'[x] = IF x = m THEN End ELSE IF x = End THEN nxt[m] ELSE nxt[x]
      /\ \A x \in Nodes : prv'[x] = IF x = m \/ x = nxt[m] THEN End ELSE prv[x]
      /\ at' = at
  BY <1>1, <1>2, PopFacts
<1>4. \A v \in Writers : at[v] = "out"
  BY <1>1 DEF Pushing
<1>5. PICK n, q : Ring(n, q) /\ Holds(n, q)
  BY <1>1 DEF ListInv
<1>6. /\ n \in Nat /\ (\A i \in 0 .. n + 1 : q[i] \in Nodes) /\ q[0] = End /\ q[n + 1] = End
      /\ \A i, j \in 0 .. n : q[i] = q[j] => i = j
      /\ \A i \in 0 .. n : nxt[q[i]] = q[i + 1]
  BY <1>5 DEF Ring
<1>7. m = q[1] /\ m # End /\ n # 0
  BY <1>3, <1>6, Numbers
<1>8. n - 1 \in Nat /\ 1 \in 0 .. n /\ nxt[m] = q[2]
  <2>1. n - 1 \in Nat /\ 1 \in 0 .. n
    BY <1>6, <1>7
  <2> QED
    BY <1>6, <1>7, <2>1
<1> DEFINE r == [i \in 0 .. (n - 1) + 1 |-> IF i = 0 THEN End ELSE q[i + 1]]
<1>9. /\ r \in [0 .. (n - 1) + 1 -> Nodes] /\ r[0] = End /\ r[(n - 1) + 1] = End
      /\ \A i \in 0 .. n : i # 0 => r[i] = q[i + 1]
  BY <1>6, <1>8, Numbers
<1> HIDE DEF r
<1>10. Ring(n - 1, r)'
  <2>1. ASSUME NEW i \in 0 .. n - 1, NEW j \in 0 .. n - 1, r[i] = r[j] PROVE i = j
    <3>1. /\ i \in 0 .. n /\ j \in 0 .. n /\ 0 \in 0 .. n
          /\ i + 1 \in 0 .. n /\ j + 1 \in 0 .. n /\ i + 1 # 0 /\ j + 1 # 0
      BY <1>6, <1>8
    <3> DEFINE a == IF i = 0 THEN 0 ELSE i + 1
               b == IF j = 0 THEN 0 ELSE j + 1
    <3>2. a \in 0 .. n /\ b \in 0 .. n /\ r[i] = q[a] /\ r[j] = q[b]
      BY <1>6, <1>9, <3>1
    <3>3. a = b
      <4> HIDE DEF a, b
      <4> QED
        BY <1>6, <2>1, <3>2
    <3> QED
      BY <3>1, <3>3
  <2>2. ASSUME NEW i \in 0 .. n - 1 PROVE nxt'[r[i]] = r[i + 1]
    <3>1. i + 1 \in 0 .. n /\ i + 1 # 0 /\ r[i + 1] = q[(i + 1) + 1] /\ i \in 0 .. n
      BY <1>6, <1>8, <1>9
    <3>2. CASE i = 0
      <4>1. nxt'[End] = nxt[m]
        BY <1>3, <1>7, Numbers
      <4> QED
        BY <1>8, <1>9, <3>1, <3>2, <4>1
    <3>3. CASE i # 0
      <4>1. r[i] = q[i + 1] /\ q[i + 1] \in Nodes
        BY <1>6, <1>9, <3>1, <3>3
      <4>2. q[i + 1] # m /\ q[i + 1] # End
        BY <1>6, <1>7, <1>8, <3>1, <3>3
      <4> QED
        BY <1>3, <1>6, <3>1, <4>1, <4>2
    <3> QED
      BY <3>2, <3>3
  <2> QED
    BY <1>8, <1>9, <2>1, <2>2 DEF Ring
<1>11. \A v \in Writers : at'[v] = "out"
  BY <1>3, <1>4
<1>12. Holds(n - 1, r)'
  <2>1. ASSUME NEW k \in Msgs, fate'[k] = "queued" PROVE \E i \in 1 .. n - 1 : r[i] = k
    <3>1. k # m /\ fate[k] = "queued"
      BY <1>1, <1>2, <1>3, <2>1 DEF Types
    <3>2. PICK i \in 1 .. n : q[i] = k
      BY <1>5, <3>1 DEF Holds
    <3>3. i # 1
      BY <1>7, <3>1, <3>2
    <3>4. i - 1 \in 1 .. n - 1 /\ i - 1 \in 0 .. n /\ i - 1 # 0 /\ (i - 1) + 1 = i
      BY <1>6, <1>8, <3>3
    <3>5. r[i - 1] = k
      BY <1>9, <3>2, <3>4
    <3> QED
      BY <3>4, <3>5
  <2>2. prv'[End] = r[n - 1]
    <3>1. prv[End] = q[n]
      BY <1>4, <1>5 DEF Holds
    <3>2. CASE n = 1
      BY <1>3, <1>6, <1>7, <1>8, <1>9, <3>2, Numbers
    <3>3. CASE n # 1
      <4>1. n - 1 \in 0 .. n /\ n - 1 # 0 /\ (n - 1) + 1 = n /\ 2 \in 0 .. n /\ 0 \in 0 .. n
        BY <1>6, <1>8, <3>3
      <4>2. nxt[m] # End
        BY <1>6, <1>8, <4>1
      <4> QED
        BY <1>3, <1>7, <1>9, <3>1, <4>1, <4>2, Numbers
    <3> QED
      BY <3>2, <3>3
  <2> QED
    BY <1>11, <2>1, <2>2 DEF Holds
<1> QED
  BY <1>10, <1>11, <1>12 DEF OnePusher

LEMMA ListRestart ==
    ASSUME CoreInv, Restart
    PROVE  ListInv'
<1>1. /\ nxt' = [x \in Nodes |-> End] /\ prv'[End] = End /\ \A w \in Writers : at'[w] = "out"
      /\ fate' = [m \in Msgs |-> IF m <= made /\ fate[m] \in {"none", "queued", "hand"}
                                 THEN "done" ELSE fate[m]]
  BY Numbers DEF Restart
<1>2. \A m \in Msgs : fate'[m] # "queued"
  <2> SUFFICES ASSUME NEW m \in Msgs PROVE fate'[m] # "queued"
    OBVIOUS
  <2>1. made \in Nat /\ m \in Nat /\ (m > made => fate[m] = "none")
    BY Numbers DEF CoreInv, Types, WritersInv
  <2> QED
    BY <1>1, <2>1
<1>3. PICK q : /\ q \in [0 .. 1 -> Nodes] /\ q[0] = End /\ q[1] = End
               /\ \A i \in 0 .. 0 : nxt'[q[i]] = q[i + 1]
  BY <1>1, NoneRing
<1>4. Ring(0, q)'
  BY <1>3 DEF Ring
<1>5. Holds(0, q)'
  BY <1>1, <1>2, <1>3 DEF Holds
<1> QED
  BY <1>1, <1>4, <1>5 DEF ListInv, OnePusher

LEMMA ListStep == CoreInv /\ ListInv /\ [Next]_vars => ListInv'
<1> SUFFICES ASSUME CoreInv, ListInv, [Next]_vars PROVE ListInv'
  OBVIOUS
<1>1. Types /\ WritersInv
  BY DEF CoreInv
<1>2. Quiet \/ Remove => ListInv'
  BY ListAlone DEF Quiet, Remove, list, queue, writers
<1>3. ASSUME Unwritten \/ \E o \in Outcomes : log_to_file(o)
      PROVE  ListInv'
  <2>1. lpc = "write" /\ Done
    BY <1>3, LogToFileFacts DEF Unwritten, NotWritten
  <2>2. /\ \A k \in Msgs : fate'[k] = IF k = hand THEN "done" ELSE fate[k]
        /\ UNCHANGED <<nxt, prv, tail, at, msg, unsafe>>
    BY <2>1, DoneFacts
  <2> QED
    BY <2>2, ListAlone
<1>4. ASSUME NEW w \in Writers, write_log(w) \/ First(w) \/ Ignore(w)
      PROVE  ListInv'
  <2>1. /\ UNCHANGED <<nxt, prv, tail, at>> /\ unsafe \subseteq unsafe'
        /\ at[w] = "out"
    BY <1>1, <1>4 DEF write_log, First, Ignore, queue, list, WritersInv
  <2>2. \A v \in Writers : v # w => msg'[v] = msg[v]
    BY <1>1, <1>4 DEF write_log, First, Ignore, Types
  <2>3. \A m \in Msgs : fate'[m] = "queued" => fate[m] = "queued"
    BY <1>1, <1>4 DEF write_log, First, Ignore, Types
  <2> QED
    BY <2>1, <2>2, <2>3, ListAlone
<1> QED
  BY <1>2, <1>3, <1>4, StepCases, ListTake, ListRestart, ListBeginPush, ListLinkPush, ListEndPush,
     Zenon

\* A message that was queued can be reached by the log thread, unless pushes overlapped with
\* each other or with a pop (queue.h Push and Pop_Wait), for any writers and messages.
THEOREM QueuedIsFound == Spec => []QueuedIsReachable
<1>1. Spec => Init /\ [][Next]_vars
  BY PTL DEF Spec
<1> QED
  BY <1>1, CoreAlways, ListInit, ListStep, ListIsMeant, PTL

\* Neither a queued message nor a written line is lost, but for the races named.
THEOREM NothingIsLost == Spec => []NothingVanishes
BY QueuedIsFound, LinesAreKept, PTL DEF NothingVanishes

=============================================================================
