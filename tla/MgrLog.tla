------------------------------- MODULE MgrLog -------------------------------
(***************************************************************************)
(* The log of the library (libusb/mgr_log.cpp): the threads that write     *)
(* messages, the queue, the log thread that puts them into libusb.log,     *)
(* the rotation of that file at the first message of a process and after   *)
(* m_max_log_num lines, and its start and stop by usb_init and usb_uninit. *)
(*                                                                         *)
(* A file is an inode; renaming it leaves an open FILE* on the inode.  The *)
(* process may be killed at any moment and started again; the disk stays.  *)
(*                                                                         *)
(* Left out: the wording of a line, and that write_log may close the file  *)
(* in the middle of log_to_file, which needs the race that unsafe records. *)
(***************************************************************************)
EXTENDS SafeQueue, FiniteSets

CONSTANTS
    m_max_log_num,  \* lines of a file before it is rotated, less one (50000)
    MaxRuns         \* bound: how often the process is started

\* m_log_queue is made with no limit.
ASSUME LogAssumption == m_max_log_num \in Nat /\ MaxRuns \in Nat /\ capacity_ = 0

VARIABLES
    m_isFirst, m_log_level, m_log_mode, m_log_file, m_log_num, m_work_sign,
    configured,     \* log_config has set the file name
    pc,             \* where a writer is: idle, first, push
    msg,            \* the message it writes
    lpc,            \* where the log thread is: off, test, towait, wait, write
    hand,           \* the message it has taken
    made, level, fate,  \* the messages: how many, their levels, what became of them
    log,            \* the inode named libusb.log, 0: none
    backup,         \* the inode of the backup of a second, 0: none
    lines, inodes,  \* what is in the inodes, how many there are
    written,        \* the messages that reached the disk
    removed,        \* what was in files that somebody else removed
    second, runs,
    unsafe          \* history: races that the code does not exclude

process == <<m_isFirst, m_log_level, m_log_mode, m_work_sign, configured>>
file == <<m_log_file, m_log_num>>
disk == <<log, backup, lines, inodes, written, removed>>
time == <<second, runs>>
writers == <<pc, msg, made, level>>
vars == <<queue, process, file, writers, lpc, hand, fate, disk, time, unsafe>>

NoFile == 0
OldLine == 0                    \* what an earlier process left in libusb.log
\* Two of the levels; NONE is 0.
ERR == 1
MSG == 3
Configs == {<<MSG, "NORMAL">>, <<ERR, "VERBOSE">>}    \* two of them
Inodes == 1..(MaxMsgs + 1)
Seconds == 0..(MaxMsgs + MaxRuns)
Fates == {"none", "queued", "hand", "done"}

Init ==
    /\ QueueInit
    /\ m_isFirst = TRUE /\ m_log_level = 0 /\ m_log_mode = "NORMAL"
    /\ m_log_file = NoFile /\ m_log_num = 0 /\ m_work_sign = FALSE /\ configured = FALSE
    /\ pc = [w \in Writers |-> "idle"] /\ msg = [w \in Writers |-> 0]
    /\ lpc = "off" /\ hand = 0
    /\ made = 0 /\ level = [m \in Msgs |-> ERR] /\ fate = [m \in Msgs |-> "none"]
    /\ log = 1 /\ backup = [s \in Seconds |-> NoFile]
    /\ lines = [i \in Inodes |-> IF i = 1 THEN {OldLine} ELSE {}] /\ inodes = 1
    /\ written = {OldLine} /\ removed = {}
    /\ second = 0 /\ runs = 1 /\ unsafe = {}

-----------------------------------------------------------------------------
(* write_log.                                                              *)

\* A message is made; the flag of the first one is tested.
write_log(w) ==
    /\ pc[w] = "idle" /\ made < MaxMsgs
    /\ made' = made + 1
    /\ msg' = [msg EXCEPT ![w] = made + 1]
    /\ pc' = [pc EXCEPT ![w] = IF m_isFirst THEN "first" ELSE "push"]
    /\ unsafe' = unsafe \cup
           (IF m_isFirst /\ \E v \in Writers : pc[v] = "first" THEN {"first"} ELSE {})
    /\ UNCHANGED <<queue, process, file, level, lpc, hand, fate, disk, time>>

\* log_backup: the file gets the name of the second; what had that name is gone.
log_backup(at_second) ==
    /\ backup' = [backup EXCEPT ![at_second] = log]
    /\ log' = NoFile

\* The rest of the block under m_isFirst.
First(w) ==
    /\ pc[w] = "first"
    /\ m_log_file' = NoFile
    /\ IF configured /\ log # NoFile
       THEN log_backup(second) /\ m_log_num' = 0
       ELSE UNCHANGED <<backup, log, m_log_num>>
    /\ m_isFirst' = FALSE
    /\ pc' = [pc EXCEPT ![w] = "push"]
    /\ UNCHANGED <<queue, m_log_level, m_log_mode, m_work_sign, configured, msg, made,
                   level, lpc, hand, fate, lines, inodes, written, removed, time, unsafe>>

\* The level of a message is known from the start, and first looked at here.
Ignore(w) ==
    /\ pc[w] = "push" /\ at[w] = "out" /\ \E l \in {ERR, MSG} : m_log_level < l
    /\ pc' = [pc EXCEPT ![w] = "idle"] /\ msg' = [msg EXCEPT ![w] = 0]
    /\ fate' = [fate EXCEPT ![msg[w]] = "done"]
    /\ UNCHANGED <<queue, process, file, made, level, lpc, hand, disk, time, unsafe>>

\* Push while another thread is inside push_back tears the list.
BeginPush(w) ==
    /\ pc[w] = "push" /\ at[w] = "out"
    /\ \E l \in {ERR, MSG} : m_log_level >= l /\ level' = [level EXCEPT ![msg[w]] = l]
    /\ PushHook(w, msg[w])
    /\ unsafe' = unsafe \cup (IF Pushing(Writers \ {w}) THEN {"list"} ELSE {})
    /\ UNCHANGED <<process, file, pc, msg, made, lpc, hand, fate, disk, time>>

LinkPush(w) ==
    /\ pc[w] = "push" /\ PushLink(w, msg[w])
    /\ UNCHANGED <<process, file, writers, lpc, hand, fate, disk, time, unsafe>>

EndPush(w) ==
    /\ pc[w] = "push" /\ PushTail(w, msg[w], lpc = "wait")
    /\ pc' = [pc EXCEPT ![w] = "idle"] /\ msg' = [msg EXCEPT ![w] = 0]
    /\ fate' = [fate EXCEPT ![msg[w]] = IF @ = "none" THEN "queued" ELSE @]
    /\ UNCHANGED <<process, file, made, level, lpc, hand, disk, time, unsafe>>

-----------------------------------------------------------------------------
(* The log thread: work, Pop_Wait and log_to_file.                         *)

Take ==
    /\ PopFront
    /\ hand' = nxt[End] /\ lpc' = "write"
    /\ fate' = [fate EXCEPT ![nxt[End]] = "hand"]
    /\ unsafe' = unsafe \cup (IF Pushing(Writers) THEN {"list"} ELSE {})
    /\ UNCHANGED <<process, file, writers, disk, time>>

Goes(from, to) ==
    /\ lpc = from /\ lpc' = to
    /\ UNCHANGED <<list, tail, at, process, file, writers, hand, fate, disk, time, unsafe>>

\* Wait_Ready finds a message, or is about to wait.
PopAtOnce == lpc = "test" /\ m_work_sign /\ Take
FindNone == m_work_sign /\ Empty /\ Goes("test", "towait") /\ UNCHANGED notified
BeginWait == Goes("towait", "wait") /\ notified' = FALSE

\* A notification ends the wait if there is a message.
Woken == lpc = "wait" /\ notified /\ Take

\* The wait ends by notifications only (a plausible mistake).
NoTimeout == FALSE

\* It ends after 500 ms too, with a message or without one.
Timeout ==
    \/ lpc = "wait" /\ ~notified /\ Take
    \/ Empty /\ Goes("wait", "test") /\ UNCHANGED notified

Done ==
    /\ fate' = [fate EXCEPT ![hand] = "done"]
    /\ hand' = 0 /\ lpc' = "test"
    /\ level' = [level EXCEPT ![hand] = ERR]
    /\ UNCHANGED <<queue, process, pc, msg, made, removed, runs, unsafe>>

NotWritten ==
    /\ Done
    /\ UNCHANGED <<file, log, backup, lines, inodes, written, second>>

TooHigh ==
    /\ lpc = "write" /\ m_log_level < level[hand]
    /\ NotWritten

Verbose ==
    /\ lpc = "write" /\ m_log_level >= level[hand] /\ m_log_mode = "VERBOSE"
    /\ NotWritten

\* fopen "a+": a file that is there keeps its lines.
Open(i, there) == lines

\* The file is rotated when it has its lines; m_max_log_num of them take more
\* than a second, since work sleeps a millisecond after each.
log_to_file(outcome) ==
    LET full == m_log_num > m_max_log_num
        now == IF full /\ log # NoFile /\ backup[second] # NoFile THEN second + 1 ELSE second
        named == IF full THEN NoFile ELSE log
        held == IF full \/ named = NoFile THEN NoFile ELSE m_log_file
        inode == IF held # NoFile THEN held ELSE IF named # NoFile THEN named ELSE inodes + 1
        number == IF full THEN 0 ELSE m_log_num
        kept == IF held = NoFile THEN Open(inode, named # NoFile) ELSE lines
    IN  /\ lpc = "write" /\ m_log_level >= level[hand] /\ m_log_mode = "NORMAL"
        /\ second' = now
        /\ backup' = IF full /\ log # NoFile THEN [backup EXCEPT ![now] = log] ELSE backup
        /\ IF outcome = "cannot open"
           THEN /\ held = NoFile
                /\ log' = named /\ m_log_file' = NoFile /\ m_log_num' = number
                /\ UNCHANGED <<lines, inodes, written>>
           ELSE /\ log' = IF held # NoFile THEN named ELSE inode
                /\ inodes' = IF inode > inodes THEN inode ELSE inodes
                /\ m_log_num' = number + 1
                /\ m_log_file' = IF outcome = "written" THEN inode ELSE NoFile
                /\ lines' = IF outcome = "written"
                            THEN [kept EXCEPT ![inode] = @ \cup {hand}] ELSE kept
                /\ written' = IF outcome = "written" THEN written \cup {hand} ELSE written
        /\ Done

LogToFile == \E outcome \in {"cannot open", "cannot write", "written"} : log_to_file(outcome)

-----------------------------------------------------------------------------
(* usb_init and usb_uninit; other programs; the process.        *)

\* load_config and start_log: the level and the mode are those of the file.
start_log ==
    /\ lpc = "off" /\ ~m_work_sign
    /\ configured' = TRUE /\ m_work_sign' = TRUE /\ lpc' = "test"
    /\ \E c \in Configs : m_log_level' = c[1] /\ m_log_mode' = c[2]
    /\ UNCHANGED <<queue, m_isFirst, file, writers, hand, fate, disk, time, unsafe>>

stop_log ==
    /\ m_work_sign /\ m_work_sign' = FALSE
    /\ UNCHANGED <<queue, m_isFirst, m_log_level, m_log_mode, configured, file, writers,
                   lpc, hand, fate, disk, time, unsafe>>

WorkEnds == ~m_work_sign /\ Goes("test", "off") /\ UNCHANGED notified

Remove ==
    /\ log # NoFile /\ removed = {}
    /\ log' = NoFile /\ removed' = lines[log]
    /\ UNCHANGED <<queue, process, file, writers, lpc, hand, fate, backup, lines, inodes,
                   written, time, unsafe>>

Restart ==
    /\ runs < MaxRuns /\ runs' = runs + 1
    /\ second' \in {second, second + 1}
    /\ nxt' = [n \in Nodes |-> End] /\ prv' = [n \in Nodes |-> End] /\ size' = 0
    /\ tail' = [w \in Writers |-> End] /\ at' = [w \in Writers |-> "out"] /\ notified' = FALSE
    /\ m_isFirst' = TRUE /\ m_log_level' = 0 /\ m_log_mode' = "NORMAL"
    /\ m_log_file' = NoFile /\ m_log_num' = 0 /\ m_work_sign' = FALSE /\ configured' = FALSE
    /\ pc' = [w \in Writers |-> "idle"] /\ msg' = [w \in Writers |-> 0]
    /\ lpc' = "off" /\ hand' = 0
    /\ fate' = [m \in Msgs |-> IF m <= made /\ fate[m] \in {"none", "queued", "hand"}
                               THEN "done" ELSE fate[m]]
    /\ unsafe' = (unsafe \ {"list"}) \cup
                 (IF backup[second'] # NoFile THEN {"hasty"} ELSE {})
    /\ level' = [m \in Msgs |-> ERR]
    /\ UNCHANGED <<made, disk>>

LogThread == \/ PopAtOnce \/ FindNone \/ BeginWait \/ Woken \/ Timeout
             \/ TooHigh \/ Verbose \/ LogToFile \/ WorkEnds

WriteLog(w) == \/ write_log(w) \/ First(w) \/ Ignore(w)
               \/ BeginPush(w) \/ LinkPush(w) \/ EndPush(w)

Next == \/ LogThread \/ (\E w \in Writers : WriteLog(w))
        \/ start_log \/ stop_log \/ Remove \/ Restart

\* The log thread runs on; the wait has a timeout.
Spec == Init /\ [][Next]_vars /\ WF_vars(LogThread)

-----------------------------------------------------------------------------
\* A message that was queued can be reached by the log thread (queue.h Push and
\* Pop_Wait).  Except after a race of the code: pushes that overlap with each other
\* or with a pop lose messages.
QueuedIsReachable ==
    "list" \notin unsafe => {m \in Msgs : fate[m] = "queued"} \subseteq Chain

\* A line that was written is in libusb.log or in a backup, through restarts,
\* rotations, failed writes and reopened files (mgr_log.cpp write_log, log_to_file,
\* log_backup).  Except after the races of the code: two threads that write the
\* first message, or a process started again in the second of its last rotation,
\* put one backup over another.
WrittenIsKept ==
    unsafe \cap {"first", "hasty"} = {} =>
        \A m \in written \ removed :
            \E i \in {log} \cup {backup[s] : s \in Seconds} : i # NoFile /\ m \in lines[i]

\* Neither is lost.
NothingVanishes == QueuedIsReachable /\ WrittenIsKept

\* The queue is drained again and again, so that each queued message is taken,
\* although a notification that comes between the test of the queue and the wait
\* is lost (queue.h Wait_Ready); unless the log is stopped, or the list was torn
\* by overlapping pushes and pops.
QueueDrains ==
    []<>((\A m \in Msgs : fate[m] # "queued") \/ ~m_work_sign \/ "list" \in unsafe)
=============================================================================
