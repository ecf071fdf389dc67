---------------------------- MODULE CommandLine ----------------------------
(***************************************************************************)
(* The command-line program (main.cpp) and the shared-memory mailbox       *)
(* (mgr_shm.cpp): programs that run commands at the same time, against one *)
(* device manager and one mailbox.                                         *)
(*                                                                         *)
(* A command that uses the library calls usb_init, makes its calls, and    *)
(* calls usb_uninit.  A call is here what its caller learns of it; how it  *)
(* is made is LibCall's and XSession's concern.  The register commands do  *)
(* not use the library: they put a request into the mailbox and poll for   *)
(* the answer of another process, the service, which is not in this        *)
(* repository.  A program may be killed at any moment.                     *)
(***************************************************************************)
EXTENDS Naturals

CONSTANTS
    Programs,       \* the processes that run the program
    Times,          \* the arguments of read_real that are tried; 0: for ever
    Commands,       \* the commands that are tried
    Full,           \* progress of a finished upgrade (1.0)
    MaxCmds         \* bound: commands that are entered

ASSUME CommandLineAssumption == Times \subseteq Nat /\ Full \in Nat /\ MaxCmds \in Nat

VARIABLES
    pc, cmd, no,    \* where a program is, its command and the number of that
    times, reads,   \* read_real: how often it is to read and has read
    count,          \* read_real's static counter
    open, progress, \* the upgrades at the device, by the program that began them
    unclear,        \* programs whose start or end request was lost or not answered, or
                    \* that do not make the end request
    req, resp,      \* the mailbox: wr_req and rd_req, wr_resp and rd_resp
    serving,        \* the request that the service works on, 0: none
    shown,          \* the answers that were printed, with the request's number
    cmds,           \* commands entered so far
    crossed         \* history: register commands overlapped, or one was killed

vars == <<pc, cmd, no, times, reads, count, open, progress, unclear, req, resp, serving,
          shown, cmds, crossed>>

ota == <<open, progress, unclear>>
real == <<times, reads, count>>
mailbox == <<req, resp, serving, shown>>

Kinds == {"write_asic_reg", "read_asic_reg"}
Upgrades == {"otaupgrade", "test1", "test2", "test7"}
Calls == {"read_cal", "read_junction", "test_temp"}
Empty == [valid |-> FALSE, of |-> 0]

Init ==
    /\ pc = [p \in Programs |-> "idle"] /\ cmd = [p \in Programs |-> "none"]
    /\ no = [p \in Programs |-> 0]
    /\ times = [p \in Programs |-> 0] /\ reads = [p \in Programs |-> 0]
    /\ count = [p \in Programs |-> 1]
    /\ open = {} /\ progress = [p \in Programs |-> 0] /\ unclear = {}
    /\ req = [k \in Kinds |-> Empty] /\ resp = [k \in Kinds |-> Empty]
    /\ serving = [k \in Kinds |-> 0] /\ shown = {}
    /\ cmds = 0 /\ crossed = FALSE

At(p, place) == pc[p] = place
Goto(p, place) == pc' = [pc EXCEPT ![p] = place]

\* The program is ready for the next command.
Ready(p) ==
    /\ Goto(p, "idle")
    /\ cmd' = [cmd EXCEPT ![p] = "none"] /\ no' = [no EXCEPT ![p] = 0]
    /\ times' = [times EXCEPT ![p] = 0] /\ reads' = [reads EXCEPT ![p] = 0]

Overlaps(p) == \E q \in Programs \ {p} : cmd[q] \in Kinds /\ pc[q] # "idle"

-----------------------------------------------------------------------------
\* debug_cmd_exe reads a command and runs it.
Enter(p, c, n) ==
    /\ At(p, "idle") /\ cmds < MaxCmds
    /\ Goto(p, IF c \in Kinds THEN "clear" ELSE "init")
    /\ cmd' = [cmd EXCEPT ![p] = c]
    /\ cmds' = cmds + 1 /\ no' = [no EXCEPT ![p] = cmds + 1]
    /\ times' = [times EXCEPT ![p] = n] /\ reads' = [reads EXCEPT ![p] = 0]
    /\ crossed' = (crossed \/ (c \in Kinds /\ Overlaps(p)))
    /\ UNCHANGED <<count, ota, mailbox>>

\* usb_init; what it returns is not looked at.
usb_init(p) ==
    /\ At(p, "init")
    /\ Goto(p, CASE cmd[p] \in Upgrades -> "start"
                 [] cmd[p] = "read_real" -> "read"
                 [] OTHER -> "call")
    /\ UNCHANGED <<cmd, no, real, ota, mailbox, cmds, crossed>>

usb_uninit(p) ==
    /\ At(p, "uninit") /\ Ready(p)
    /\ UNCHANGED <<count, ota, mailbox, cmds, crossed>>

\* The calls of a command that is neither an upgrade nor read_real; whether they
\* fail makes no difference to what comes after.
Call(p) ==
    /\ At(p, "call") /\ Goto(p, "uninit")
    /\ UNCHANGED <<cmd, no, real, ota, mailbox, cmds, crossed>>

-----------------------------------------------------------------------------
(* ota_upgrade, and the tests of main.cpp that differ from it in when they *)
(* leave the loop and what they do then.                                   *)

\* A query that fails does not end the loop (a plausible mistake).
StopsNever(c) == FALSE

StopsOnFailure(c) == c = "otaupgrade"

\* test2 cancels at one half.
Target(c) == IF c = "test2" THEN Full \div 2 ELSE Full

\* Nothing is told to the device after a query that failed (a plausible mistake).
QuitOnFailure(c, failed) == IF c = "test1" \/ failed THEN "uninit" ELSE "end"

\* The end of the upgrade is told to the device whatever the last query said.
AfterLoop(c, failed) == IF c = "test1" THEN "uninit" ELSE "end"

\* The device began the upgrade, and the caller may learn of it or not; or it did not.
Start(p) ==
    /\ At(p, "start")
    /\ \/ /\ open' = open \cup {p} /\ progress' = [progress EXCEPT ![p] = 0]
          /\ \/ Goto(p, "loop") /\ unclear' = unclear \ {p}
             \/ Goto(p, "uninit") /\ unclear' = unclear \cup {p}
       \/ Goto(p, "uninit") /\ UNCHANGED <<open, progress, unclear>>
    /\ UNCHANGED <<cmd, no, real, mailbox, cmds, crossed>>

Query(p) ==
    /\ At(p, "loop")
    /\ \E failed \in BOOLEAN :
           IF (failed /\ StopsOnFailure(cmd[p])) \/ (~failed /\ progress[p] >= Target(cmd[p]))
           THEN /\ Goto(p, AfterLoop(cmd[p], failed))
                /\ unclear' = IF cmd[p] = "test1" THEN unclear \cup {p} ELSE unclear
           ELSE Goto(p, "sleep") /\ UNCHANGED unclear
    /\ UNCHANGED <<cmd, no, real, open, progress, mailbox, cmds, crossed>>

Sleep(p) ==
    /\ At(p, "sleep") /\ Goto(p, "loop")
    /\ UNCHANGED <<cmd, no, real, ota, mailbox, cmds, crossed>>

\* usb_ota_complete_upgrade, or test2's cancel; its result is not looked at.
End(p) ==
    /\ At(p, "end") /\ Goto(p, "uninit")
    /\ \/ open' = open \ {p} /\ progress' = [progress EXCEPT ![p] = 0] /\ UNCHANGED unclear
       \/ unclear' = unclear \cup {p} /\ UNCHANGED <<open, progress>>
    /\ UNCHANGED <<cmd, no, real, mailbox, cmds, crossed>>

\* A count that goes on to the bound: past the largest argument.
OneMore(n) == IF \E t \in Times : t >= n THEN n + 1 ELSE n

\* read_real_data: the counter is static and is not reset.
Read(p) ==
    /\ At(p, "read")
    /\ reads' = [reads EXCEPT ![p] = OneMore(@)]
    /\ IF times[p] > 0 /\ times[p] = count[p]
       THEN Goto(p, "uninit") /\ UNCHANGED count
       ELSE count' = [count EXCEPT ![p] = OneMore(@)] /\ UNCHANGED pc
    /\ UNCHANGED <<times, cmd, no, ota, mailbox, cmds, crossed>>

-----------------------------------------------------------------------------
(* write_asic_reg and read_asic_reg.                                       *)

\* The answers of earlier commands stay (a plausible mistake).
ClearedNot(boxes) == boxes

Cleared(boxes) == [k \in Kinds |-> Empty]

\* init_asic_msg clears the requests and the answers of both kinds.
init_asic_msg(p) ==
    /\ At(p, "clear") /\ Goto(p, "fill")
    /\ req' = Cleared(req) /\ resp' = Cleared(resp)
    /\ UNCHANGED <<serving, shown, cmd, no, real, ota, cmds, crossed>>

Fill(p) ==
    /\ At(p, "fill") /\ Goto(p, "offer")
    /\ req' = [req EXCEPT ![cmd[p]].of = no[p]]
    /\ UNCHANGED <<resp, serving, shown, cmd, no, real, ota, cmds, crossed>>

Offer(p) ==
    /\ At(p, "offer") /\ Goto(p, "poll")
    /\ req' = [req EXCEPT ![cmd[p]].valid = TRUE]
    /\ UNCHANGED <<resp, serving, shown, cmd, no, real, ota, cmds, crossed>>

\* The loop ends when the answer is marked valid; the answer is printed.
Poll(p) ==
    /\ At(p, "poll") /\ resp[cmd[p]].valid /\ Goto(p, "withdraw")
    /\ shown' = IF crossed THEN shown ELSE shown \cup {<<no[p], resp[cmd[p]].of>>}
    /\ UNCHANGED <<req, resp, serving, cmd, no, real, ota, cmds, crossed>>

Withdraw(p) ==
    /\ At(p, "withdraw") /\ Ready(p)
    /\ req' = [req EXCEPT ![cmd[p]].valid = FALSE]
    /\ UNCHANGED <<resp, serving, shown, count, ota, cmds, crossed>>

-----------------------------------------------------------------------------
(* The others: the device, the service and whoever kills a program.        *)

Advance(p) ==
    /\ p \in open /\ progress[p] < Full
    /\ progress' = [progress EXCEPT ![p] = @ + 1]
    /\ UNCHANGED <<pc, cmd, no, real, open, unclear, mailbox, cmds, crossed>>

Take(k) ==
    /\ req[k].valid /\ ~resp[k].valid /\ serving[k] = 0
    /\ serving' = [serving EXCEPT ![k] = req[k].of]
    /\ UNCHANGED <<pc, cmd, no, real, ota, req, resp, shown, cmds, crossed>>

Answer(k) ==
    /\ serving[k] # 0 /\ serving' = [serving EXCEPT ![k] = 0]
    /\ resp' = [resp EXCEPT ![k] = [valid |-> TRUE, of |-> serving[k]]]
    /\ UNCHANGED <<pc, cmd, no, real, ota, req, shown, cmds, crossed>>

\* A new process begins with a counter of its own.
Kill(p) ==
    /\ ~At(p, "idle") /\ Ready(p)
    /\ count' = [count EXCEPT ![p] = 1]
    /\ unclear' = IF cmd[p] \in Upgrades THEN unclear \cup {p} ELSE unclear
    /\ crossed' = (crossed \/ cmd[p] \in Kinds)
    /\ UNCHANGED <<open, progress, mailbox, cmds>>

Work(p) == \/ usb_init(p) \/ usb_uninit(p) \/ Call(p)
           \/ Start(p) \/ Query(p) \/ Sleep(p) \/ End(p) \/ Read(p)
           \/ init_asic_msg(p) \/ Fill(p) \/ Offer(p)
           \/ Poll(p) \/ Withdraw(p)

Others == \/ \E p \in Programs : Advance(p)
          \/ \E k \in Kinds : Take(k) \/ Answer(k)

Next == \/ \E p \in Programs : Work(p) \/ Kill(p)
        \/ \E p \in Programs, c \in Commands : Enter(p, c, 0)
        \/ \E p \in Programs, n \in Times : Enter(p, "read_real", n)
        \/ Others

\* A program runs on, an upgrade advances, and the service serves.
Spec == /\ Init /\ [][Next]_vars
        /\ \A p \in Programs : WF_vars(Work(p)) /\ WF_vars(Advance(p))
        /\ \A k \in Kinds : WF_vars(Take(k)) /\ WF_vars(Answer(k))

-----------------------------------------------------------------------------
\* When a program has ended, the upgrade it began is not left open at the device,
\* although a query may have failed in between: unless the start or the end was
\* lost or not answered, the program was killed, or it was test1, which tells
\* nobody (main.cpp ota_upgrade, test1 .. test7).
UpgradeClosed ==
    \A p \in open : At(p, "idle") => p \in unclear

\* The register command prints the answer to its own request, however often
\* commands follow each other and however late the service is; unless commands
\* overlap, whose initialisation wipes the mailbox, or one was killed, whose
\* answer may still come (main.cpp write_asic_reg, mgr_shm.cpp init_asic_msg).
OwnAnswer == \A s \in shown : s[1] = s[2]

\* A command ends: an upgrade because the device gets on or a query fails, a
\* register command because the service answers.  Not so the tests that ignore
\* a failing query, read_real without a number or with one that its counter has
\* passed, and a register command whose request was wiped.
CommandEnds ==
    \A p \in Programs :
        []<>(\/ At(p, "idle") \/ crossed
             \/ cmd[p] \in {"test1", "test2", "test7"}
             \/ cmd[p] = "read_real" /\ (times[p] = 0 \/ count[p] > times[p]))
=============================================================================
