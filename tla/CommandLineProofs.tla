------------------------- MODULE CommandLineProofs --------------------------
(***************************************************************************)
(* Theorems about CommandLine, for any set of programs, any commands and   *)
(* any number of them.                                                     *)
(***************************************************************************)
EXTENDS CommandLine, TLAPS

\* The places of a register command, and of a command that has the library open.
MailPlaces == {"clear", "fill", "offer", "poll", "withdraw"}
LoopPlaces == {"loop", "sleep", "end"}
Places == {"idle", "init", "call", "read", "start", "uninit"} \cup LoopPlaces \cup MailPlaces

Active(p) == pc[p] \in MailPlaces

Types ==
    /\ pc \in [Programs -> Places] /\ cmd = [p \in Programs |-> cmd[p]]
    /\ no \in [Programs -> Nat] /\ cmds \in Nat
    /\ open \subseteq Programs /\ crossed \in BOOLEAN
    /\ req \in [Kinds -> [valid : BOOLEAN, of : Nat]]
    /\ resp \in [Kinds -> [valid : BOOLEAN, of : Nat]]
    /\ serving \in [Kinds -> Nat]

\* A program is where its command can be.
Placed ==
    \A p \in Programs :
        /\ pc[p] \in MailPlaces => cmd[p] \in Kinds
        /\ pc[p] \in Places \ MailPlaces => cmd[p] \notin Kinds
        /\ pc[p] \in LoopPlaces \cup {"start"} => cmd[p] \in Upgrades

\* An upgrade is open only while its program is on its way to end it.
OpenInv == \A p \in open : pc[p] \in LoopPlaces \/ p \in unclear

\* One register command at a time.
Lonely == \A p, q \in Programs : Active(p) /\ Active(q) => p = q

\* The mailbox holds nothing but what the one command put there.
Mail ==
    /\ \A k \in Kinds : serving[k] # 0 =>
           /\ ~resp[k].valid
           /\ \E p \in Programs : cmd[p] = k /\ pc[p] = "poll" /\ serving[k] = no[p]
    /\ \A k \in Kinds : req[k].valid =>
           \E p \in Programs : cmd[p] = k /\ pc[p] \in {"poll", "withdraw"} /\ req[k].of = no[p]
    /\ \A p \in Programs :
           /\ pc[p] = "offer" => req[cmd[p]].of = no[p]
           /\ pc[p] = "withdraw" => resp[cmd[p]].valid
           /\ pc[p] \in MailPlaces \ {"clear"} /\ resp[cmd[p]].valid => resp[cmd[p]].of = no[p]

MailInv == ~crossed => Lonely /\ Mail

CommandInv == Types /\ Placed /\ OpenInv /\ MailInv /\ OwnAnswer

-----------------------------------------------------------------------------
LEMMA InitCommand == Init => CommandInv
<1> SUFFICES ASSUME Init PROVE CommandInv
  OBVIOUS
<1>1. Types
  <2>1. Empty \in [valid : BOOLEAN, of : Nat]
    BY DEF Empty
  <2> QED
    BY <2>1 DEF Init, Types, Places
<1>2. Placed /\ OpenInv /\ OwnAnswer
  BY DEF Init, Placed, OpenInv, OwnAnswer, Places, MailPlaces, LoopPlaces, Kinds
<1>3. MailInv
  BY DEF Init, MailInv, Lonely, Mail, Active, MailPlaces, Empty
<1> QED
  BY <1>1, <1>2, <1>3 DEF CommandInv

-----------------------------------------------------------------------------
(* Commands that use the library.                                          *)

\* What a program does that is no register command leaves the mailbox to the others.
LEMMA AsideKeepsMail ==
    ASSUME CommandInv, NEW p \in Programs, ~Active(p), ~Active(p)',
           \A q \in Programs \ {p} : pc'[q] = pc[q] /\ cmd'[q] = cmd[q] /\ no'[q] = no[q],
           UNCHANGED mailbox, crossed' = crossed
    PROVE  MailInv' /\ OwnAnswer'
<1>1. OwnAnswer'
  BY DEF CommandInv, OwnAnswer, mailbox
<1>2. SUFFICES ASSUME ~crossed PROVE Lonely' /\ Mail'
  BY <1>1 DEF MailInv
<1>3. Lonely /\ Mail
  BY <1>2 DEF CommandInv, MailInv
<1>4. \A q \in Programs : Active(q)' => q # p /\ Active(q)
  BY DEF Active
<1>5. Lonely'
  BY <1>3, <1>4 DEF Lonely
<1>6. \A q \in Programs : pc[q] \in MailPlaces => q # p
  BY DEF Active
<1>7. \A q \in Programs : pc'[q] \in MailPlaces => q # p
  BY DEF Active
<1>8. Mail'
  BY <1>3, <1>6, <1>7 DEF Mail, mailbox, MailPlaces
<1> QED
  BY <1>5, <1>8

\* The steps of a command up to usb_uninit, and the end of one.
LEMMA LibraryKeeps ==
    ASSUME NEW p \in Programs
    PROVE  CommandInv /\ (\/ usb_init(p) \/ usb_uninit(p) \/ Call(p) \/ Sleep(p) \/ Read(p)
                             \/ Start(p) \/ Query(p) \/ End(p)) => CommandInv'
<1> SUFFICES ASSUME CommandInv,
                    \/ usb_init(p) \/ usb_uninit(p) \/ Call(p) \/ Sleep(p) \/ Read(p)
                    \/ Start(p) \/ Query(p) \/ End(p)
             PROVE  CommandInv'
  OBVIOUS
<1> USE DEF At, Goto, Places, LoopPlaces, MailPlaces
<1>1. CASE usb_init(p)
  <2>1. pc[p] = "init" /\ pc' = [pc EXCEPT ![p] = pc'[p]] /\ pc'[p] \in {"start", "read", "call"}
        /\ (pc'[p] = "start" => cmd[p] \in Upgrades)
        /\ UNCHANGED <<cmd, no, ota, mailbox, cmds, crossed>>
    BY <1>1 DEF usb_init, CommandInv, Types
  <2>2. Types' /\ Placed' /\ OpenInv'
    BY <2>1 DEF CommandInv, Types, Placed, OpenInv, ota, mailbox
  <2> QED
    BY <2>1, <2>2, AsideKeepsMail DEF CommandInv, Types, Active
<1>2. CASE usb_uninit(p)
  <2>1. /\ pc[p] = "uninit" /\ pc' = [pc EXCEPT ![p] = "idle"]
        /\ cmd' = [cmd EXCEPT ![p] = "none"] /\ no' = [no EXCEPT ![p] = 0]
        /\ UNCHANGED <<ota, mailbox, cmds, crossed>>
    BY <1>2 DEF usb_uninit, Ready
  <2>2. Types' /\ Placed' /\ OpenInv'
    BY <2>1 DEF CommandInv, Types, Placed, OpenInv, ota, mailbox, Kinds
  <2> QED
    BY <2>1, <2>2, AsideKeepsMail DEF CommandInv, Types, Active
<1>3. CASE Call(p) \/ Sleep(p) \/ Read(p)
  <2>1. /\ \/ pc[p] = "call" /\ pc' = [pc EXCEPT ![p] = "uninit"]
           \/ pc[p] = "sleep" /\ pc' = [pc EXCEPT ![p] = "loop"]
           \/ pc[p] = "read" /\ (pc' = [pc EXCEPT ![p] = "uninit"] \/ pc' = pc)
        /\ UNCHANGED <<cmd, no, ota, mailbox, cmds, crossed>>
    BY <1>3 DEF Call, Sleep, Read, real
  <2>2. Types' /\ Placed' /\ OpenInv'
    BY <2>1 DEF CommandInv, Types, Placed, OpenInv, ota, mailbox
  <2> QED
    BY <2>1, <2>2, AsideKeepsMail DEF CommandInv, Types, Active
<1>4. CASE Start(p)
  <2>1. /\ pc[p] = "start" /\ UNCHANGED <<cmd, no, mailbox, cmds, crossed>>
        /\ \/ /\ open' = open \cup {p} /\ pc' = [pc EXCEPT ![p] = "loop"] /\ unclear' = unclear \ {p}
           \/ /\ open' = open \cup {p} /\ pc' = [pc EXCEPT ![p] = "uninit"]
              /\ unclear' = unclear \cup {p}
           \/ pc' = [pc EXCEPT ![p] = "uninit"] /\ UNCHANGED <<open, unclear>>
    BY <1>4 DEF Start
  <2>2. Types' /\ Placed'
    BY <2>1 DEF CommandInv, Types, Placed, mailbox, Upgrades, Kinds
  <2>3. OpenInv'
    BY <2>1 DEF CommandInv, Types, OpenInv
  <2> QED
    BY <2>1, <2>2, <2>3, AsideKeepsMail DEF CommandInv, Types, Active
<1>5. CASE Query(p)
  <2>1. /\ pc[p] = "loop" /\ UNCHANGED <<cmd, no, open, mailbox, cmds, crossed>>
        /\ \/ pc' = [pc EXCEPT ![p] = "uninit"] /\ unclear' = unclear \cup {p}
           \/ pc' = [pc EXCEPT ![p] = "end"] /\ UNCHANGED unclear
           \/ pc' = [pc EXCEPT ![p] = "sleep"] /\ UNCHANGED unclear
    BY <1>5 DEF Query, AfterLoop
  <2>2. Types' /\ Placed'
    BY <2>1 DEF CommandInv, Types, Placed, mailbox, Upgrades, Kinds
  <2>3. OpenInv'
    BY <2>1 DEF CommandInv, Types, OpenInv
  <2> QED
    BY <2>1, <2>2, <2>3, AsideKeepsMail DEF CommandInv, Types, Active
<1>6. CASE End(p)
  <2>1. /\ pc[p] = "end" /\ pc' = [pc EXCEPT ![p] = "uninit"]
        /\ UNCHANGED <<cmd, no, mailbox, cmds, crossed>>
        /\ \/ open' = open \ {p} /\ UNCHANGED unclear
           \/ unclear' = unclear \cup {p} /\ UNCHANGED open
    BY <1>6 DEF End
  <2>2. Types' /\ Placed'
    BY <2>1 DEF CommandInv, Types, Placed, mailbox, Upgrades, Kinds
  <2>3. OpenInv'
    BY <2>1 DEF CommandInv, Types, OpenInv
  <2> QED
    BY <2>1, <2>2, <2>3, AsideKeepsMail DEF CommandInv, Types, Active
<1> QED
  BY <1>1, <1>2, <1>3, <1>4, <1>5, <1>6

-----------------------------------------------------------------------------
(* Commands begin, and programs are killed.                                *)

\* A register command that begins alone finds nobody polling, and so nothing of
\* another in the mailbox.
LEMMA EnterKeeps ==
    ASSUME NEW p \in Programs, NEW c, NEW n PROVE CommandInv /\ Enter(p, c, n) => CommandInv'
<1> SUFFICES ASSUME CommandInv, Enter(p, c, n) PROVE CommandInv'
  OBVIOUS
<1>1. /\ pc[p] = "idle" /\ cmds' = cmds + 1
      /\ pc' = [pc EXCEPT ![p] = IF c \in Kinds THEN "clear" ELSE "init"]
      /\ cmd' = [cmd EXCEPT ![p] = c] /\ no' = [no EXCEPT ![p] = cmds + 1]
      /\ crossed' = (crossed \/ (c \in Kinds /\ Overlaps(p)))
      /\ UNCHANGED <<ota, mailbox>>
  BY DEF Enter, At, Goto
<1>2. Types'
  <2>1. pc' \in [Programs -> Places]
    BY <1>1 DEF CommandInv, Types, Places, MailPlaces
  <2>2. cmd' = [q \in Programs |-> cmd'[q]]
    BY <1>1 DEF CommandInv, Types
  <2>4. no' \in [Programs -> Nat] /\ cmds' \in Nat
    <3>1. cmds + 1 \in Nat /\ no \in [Programs -> Nat]
      BY DEF CommandInv, Types
    <3> QED
      BY <1>1, <3>1
  <2>3. crossed' \in BOOLEAN
    BY <1>1 DEF CommandInv, Types, Overlaps
  <2> QED
    BY <1>1, <2>1, <2>2, <2>3, <2>4 DEF CommandInv, Types, ota, mailbox
<1>3. Placed' /\ OpenInv'
  BY <1>1 DEF CommandInv, Types, Placed, OpenInv, Places, MailPlaces, LoopPlaces, ota
<1>4. OwnAnswer'
  BY <1>1 DEF CommandInv, OwnAnswer, mailbox
<1>5. CASE c \notin Kinds
  BY <1>1, <1>2, <1>3, <1>5, AsideKeepsMail DEF CommandInv, Types, Active, MailPlaces
<1>6. CASE c \in Kinds
  <2> SUFFICES ASSUME ~crossed, ~Overlaps(p) PROVE Lonely' /\ Mail'
    BY <1>1, <1>2, <1>3, <1>4, <1>6 DEF CommandInv, MailInv
  <2>1. Mail
    BY DEF CommandInv, MailInv
  <2>2. \A q \in Programs : pc[q] \notin MailPlaces
    BY <1>1 DEF CommandInv, Placed, Overlaps, MailPlaces
  <2>3. \A q \in Programs : pc'[q] \in MailPlaces => q = p /\ pc'[q] = "clear"
    BY <1>1, <1>6, <2>2 DEF CommandInv, Types
  <2>4. Lonely'
    BY <2>3 DEF Lonely, Active
  <2>5. \A k \in Kinds : serving[k] = 0 /\ ~req[k].valid
    BY <2>1, <2>2 DEF Mail, MailPlaces
  <2>6. Mail'
    BY <1>1, <2>3, <2>5 DEF Mail, MailPlaces, mailbox
  <2> QED
    BY <2>4, <2>6
<1> QED
  BY <1>5, <1>6

LEMMA KillKeeps == ASSUME NEW p \in Programs PROVE CommandInv /\ Kill(p) => CommandInv'
<1> SUFFICES ASSUME CommandInv, Kill(p) PROVE CommandInv'
  OBVIOUS
<1>1. /\ pc' = [pc EXCEPT ![p] = "idle"]
      /\ cmd' = [cmd EXCEPT ![p] = "none"] /\ no' = [no EXCEPT ![p] = 0]
      /\ unclear' = IF cmd[p] \in Upgrades THEN unclear \cup {p} ELSE unclear
      /\ crossed' = (crossed \/ cmd[p] \in Kinds)
      /\ UNCHANGED <<open, mailbox, cmds>>
  BY DEF Kill, Ready, Goto
<1>2. Types' /\ Placed'
  BY <1>1 DEF CommandInv, Types, Placed, Places, MailPlaces, LoopPlaces, Kinds, mailbox
<1>3. OpenInv'
  BY <1>1 DEF CommandInv, Types, OpenInv, Placed, LoopPlaces
<1>4. OwnAnswer'
  BY <1>1 DEF CommandInv, OwnAnswer, mailbox
<1>5. CASE cmd[p] \in Kinds
  BY <1>1, <1>2, <1>3, <1>4, <1>5 DEF CommandInv, MailInv, Types
<1>6. CASE cmd[p] \notin Kinds
  <2>1. ~Active(p) /\ ~Active(p)'
    BY <1>1, <1>6 DEF CommandInv, Placed, Types, Active, MailPlaces
  <2> QED
    BY <1>1, <1>2, <1>3, <1>6, <2>1, AsideKeepsMail DEF CommandInv, Types
<1> QED
  BY <1>5, <1>6

-----------------------------------------------------------------------------
(* Register commands.                                                      *)

\* A program that is at such a place is the only one, unless commands crossed.
LEMMA TheOnly ==
    ASSUME CommandInv, ~crossed, NEW p \in Programs, Active(p)
    PROVE  /\ Lonely /\ Mail /\ cmd[p] \in Kinds
           /\ \A q \in Programs : pc[q] \in MailPlaces => q = p
           /\ \A k \in Kinds : serving[k] # 0 => k = cmd[p] /\ pc[p] = "poll" /\ serving[k] = no[p]
           /\ \A k \in Kinds : req[k].valid =>
                  k = cmd[p] /\ pc[p] \in {"poll", "withdraw"} /\ req[k].of = no[p]
<1>1. Lonely /\ Mail /\ cmd[p] \in Kinds
  BY DEF CommandInv, MailInv, Placed, Active
<1>2. \A q \in Programs : pc[q] \in MailPlaces => q = p
  BY <1>1 DEF Lonely, Active
<1> QED
  BY <1>1, <1>2 DEF Mail, MailPlaces

LEMMA RegisterKeeps ==
    ASSUME NEW p \in Programs
    PROVE  CommandInv /\ (init_asic_msg(p) \/ Fill(p) \/ Offer(p) \/ Poll(p) \/ Withdraw(p))
               => CommandInv'
<1> SUFFICES ASSUME CommandInv,
                    init_asic_msg(p) \/ Fill(p) \/ Offer(p) \/ Poll(p) \/ Withdraw(p)
             PROVE  CommandInv'
  OBVIOUS
<1> USE DEF At, Goto, MailPlaces
<1>0. Active(p) /\ cmd[p] \in Kinds
  BY DEF CommandInv, Placed, Active, init_asic_msg, Fill, Offer, Poll, Withdraw
<1>1. CASE init_asic_msg(p)
  <2>1. /\ pc[p] = "clear" /\ pc' = [pc EXCEPT ![p] = "fill"]
        /\ \A k \in Kinds : req'[k] = Empty /\ resp'[k] = Empty
        /\ req' = [k \in Kinds |-> Empty] /\ resp' = [k \in Kinds |-> Empty]
        /\ UNCHANGED <<serving, shown, cmd, no, ota, cmds, crossed>>
    BY <1>1 DEF init_asic_msg, Cleared
  <2>2. Types'
    <3>1. Empty \in [valid : BOOLEAN, of : Nat]
      BY DEF Empty
    <3>2. req' \in [Kinds -> [valid : BOOLEAN, of : Nat]] /\ resp' \in [Kinds -> [valid : BOOLEAN, of : Nat]]
      BY <2>1, <3>1
    <3> QED
      BY <2>1, <3>2 DEF CommandInv, Types, Places, ota
  <2>3. Placed' /\ OpenInv' /\ OwnAnswer'
    BY <1>0, <2>1 DEF CommandInv, Types, Placed, OpenInv, OwnAnswer, Places, LoopPlaces, ota
  <2>4. ASSUME ~crossed PROVE Lonely' /\ Mail'
    <3>1. /\ \A q \in Programs : pc'[q] \in MailPlaces => q = p
          /\ \A k \in Kinds : serving[k] = 0
          /\ pc'[p] = "fill"
      BY <1>0, <2>1, <2>4, TheOnly DEF CommandInv, Types
    <3> QED
      BY <1>0, <2>1, <3>1 DEF Lonely, Mail, Active, Empty
  <2> QED
    BY <2>1, <2>2, <2>3, <2>4 DEF CommandInv, MailInv
<1>2. CASE Fill(p)
  <2>1. /\ pc[p] = "fill" /\ pc' = [pc EXCEPT ![p] = "offer"]
        /\ req' = [req EXCEPT ![cmd[p]].of = no[p]]
        /\ UNCHANGED <<resp, serving, shown, cmd, no, ota, cmds, crossed>>
    BY <1>2 DEF Fill
  <2>2. Types'
    BY <1>0, <2>1 DEF CommandInv, Types, Places, ota
  <2>3. Placed' /\ OpenInv' /\ OwnAnswer'
    BY <1>0, <2>1 DEF CommandInv, Types, Placed, OpenInv, OwnAnswer, Places, LoopPlaces, ota
  <2>4. ASSUME ~crossed PROVE Lonely' /\ Mail'
    <3>1. /\ \A q \in Programs : pc'[q] \in MailPlaces => q = p
          /\ \A k \in Kinds : serving[k] = 0 /\ ~req[k].valid
          /\ pc'[p] = "offer" /\ Mail
      BY <1>0, <2>1, <2>4, TheOnly DEF CommandInv, Types
    <3>2. /\ \A k \in Kinds : ~req'[k].valid
          /\ req'[cmd[p]].of = no[p]
      BY <1>0, <2>1, <3>1 DEF CommandInv, Types
    <3> QED
      BY <1>0, <2>1, <3>1, <3>2 DEF Lonely, Mail, Active
  <2> QED
    BY <2>1, <2>2, <2>3, <2>4 DEF CommandInv, MailInv
<1>3. CASE Offer(p)
  <2>1. /\ pc[p] = "offer" /\ pc' = [pc EXCEPT ![p] = "poll"]
        /\ req' = [req EXCEPT ![cmd[p]].valid = TRUE]
        /\ UNCHANGED <<resp, serving, shown, cmd, no, ota, cmds, crossed>>
    BY <1>3 DEF Offer
  <2>2. Types'
    BY <1>0, <2>1 DEF CommandInv, Types, Places, ota
  <2>3. Placed' /\ OpenInv' /\ OwnAnswer'
    BY <1>0, <2>1 DEF CommandInv, Types, Placed, OpenInv, OwnAnswer, Places, LoopPlaces, ota
  <2>4. ASSUME ~crossed PROVE Lonely' /\ Mail'
    <3>1. /\ \A q \in Programs : pc'[q] \in MailPlaces => q = p
          /\ \A k \in Kinds : serving[k] = 0 /\ ~req[k].valid
          /\ pc'[p] = "poll" /\ Mail
      BY <1>0, <2>1, <2>4, TheOnly DEF CommandInv, Types
    <3>2. /\ \A k \in Kinds : req'[k].valid => k = cmd[p]
          /\ req'[cmd[p]].of = no[p]
      BY <1>0, <2>1, <3>1 DEF CommandInv, Types, Mail
    <3> QED
      BY <1>0, <2>1, <3>1, <3>2 DEF Lonely, Mail, Active
  <2> QED
    BY <2>1, <2>2, <2>3, <2>4 DEF CommandInv, MailInv
<1>4. CASE Poll(p)
  <2>1. /\ pc[p] = "poll" /\ pc' = [pc EXCEPT ![p] = "withdraw"] /\ resp[cmd[p]].valid
        /\ shown' = IF crossed THEN shown ELSE shown \cup {<<no[p], resp[cmd[p]].of>>}
        /\ UNCHANGED <<req, resp, serving, cmd, no, ota, cmds, crossed>>
    BY <1>4 DEF Poll
  <2>2. Types'
    BY <1>0, <2>1 DEF CommandInv, Types, Places, ota
  <2>3. Placed' /\ OpenInv'
    BY <1>0, <2>1 DEF CommandInv, Types, Placed, OpenInv, Places, LoopPlaces, ota
  <2>4. ASSUME ~crossed PROVE resp[cmd[p]].of = no[p] /\ Lonely' /\ Mail'
    <3>1. /\ \A q \in Programs : pc'[q] \in MailPlaces => q = p
          /\ \A k \in Kinds : serving[k] = 0
          /\ pc'[p] = "withdraw" /\ Mail /\ resp[cmd[p]].of = no[p]
          /\ \A k \in Kinds : req[k].valid => k = cmd[p] /\ req[k].of = no[p]
      BY <1>0, <2>1, <2>4, TheOnly DEF CommandInv, Types, Mail
    <3> QED
      BY <1>0, <2>1, <3>1 DEF Lonely, Mail, Active
  <2>5. OwnAnswer'
    BY <2>1, <2>4 DEF CommandInv, OwnAnswer
  <2> QED
    BY <2>1, <2>2, <2>3, <2>4, <2>5 DEF CommandInv, MailInv
<1>5. CASE Withdraw(p)
  <2>1. /\ pc[p] = "withdraw" /\ pc' = [pc EXCEPT ![p] = "idle"]
        /\ cmd' = [cmd EXCEPT ![p] = "none"] /\ no' = [no EXCEPT ![p] = 0]
        /\ req' = [req EXCEPT ![cmd[p]].valid = FALSE]
        /\ UNCHANGED <<resp, serving, shown, ota, cmds, crossed>>
    BY <1>5 DEF Withdraw, Ready
  <2>2. Types'
    BY <1>0, <2>1 DEF CommandInv, Types, Places, ota
  <2>3. Placed' /\ OpenInv' /\ OwnAnswer'
    BY <1>0, <2>1 DEF CommandInv, Types, Placed, OpenInv, OwnAnswer, Places, LoopPlaces, Kinds, ota
  <2>4. ASSUME ~crossed PROVE Lonely' /\ Mail'
    <3>1. /\ \A q \in Programs : pc'[q] \notin MailPlaces
          /\ \A k \in Kinds : serving[k] = 0 /\ (req[k].valid => k = cmd[p])
      BY <1>0, <2>1, <2>4, TheOnly DEF CommandInv, Types
    <3>2. \A k \in Kinds : ~req'[k].valid
      BY <1>0, <2>1, <3>1 DEF CommandInv, Types
    <3> QED
      BY <2>1, <3>1, <3>2 DEF Lonely, Mail, Active
  <2> QED
    BY <2>1, <2>2, <2>3, <2>4 DEF CommandInv, MailInv
<1> QED
  BY <1>1, <1>2, <1>3, <1>4, <1>5

-----------------------------------------------------------------------------
(* The device and the service.                                             *)

LEMMA AdvanceKeeps == ASSUME NEW p \in Programs PROVE CommandInv /\ Advance(p) => CommandInv'
BY DEF CommandInv, Types, Placed, OpenInv, MailInv, Lonely, Mail, Active, OwnAnswer, Advance, mailbox

\* The service takes the request of the one that polls, and answers it.
LEMMA ServiceKeeps ==
    ASSUME NEW k \in Kinds PROVE CommandInv /\ (Take(k) \/ Answer(k)) => CommandInv'
<1> SUFFICES ASSUME CommandInv, Take(k) \/ Answer(k) PROVE CommandInv'
  OBVIOUS
<1>1. UNCHANGED <<pc, cmd, no, ota, req, shown, cmds, crossed>>
  BY DEF Take, Answer
<1>2. Types'
  <2>1. /\ req[k].of \in Nat /\ serving[k] \in Nat
        /\ resp \in [Kinds -> [valid : BOOLEAN, of : Nat]] /\ serving \in [Kinds -> Nat]
    BY DEF CommandInv, Types
  <2>2. CASE Take(k)
    BY <1>1, <2>1, <2>2 DEF CommandInv, Types, Take, ota
  <2>3. CASE Answer(k)
    <3>1. [valid |-> TRUE, of |-> serving[k]] \in [valid : BOOLEAN, of : Nat]
      BY <2>1
    <3>2. resp' \in [Kinds -> [valid : BOOLEAN, of : Nat]] /\ serving' \in [Kinds -> Nat]
      BY <2>1, <2>3, <3>1 DEF Answer
    <3> QED
      BY <1>1, <3>2 DEF CommandInv, Types, ota
  <2> QED
    BY <2>2, <2>3
<1>3. Placed' /\ OpenInv' /\ OwnAnswer'
  BY <1>1 DEF CommandInv, Placed, OpenInv, OwnAnswer, ota
<1>4. SUFFICES ASSUME ~crossed PROVE Lonely' /\ Mail'
  BY <1>1, <1>2, <1>3 DEF CommandInv, MailInv
<1>5. Lonely /\ Mail
  BY <1>4 DEF CommandInv, MailInv
<1>6. CASE Take(k)
  <2>1. /\ req[k].valid /\ ~resp[k].valid /\ serving' = [serving EXCEPT ![k] = req[k].of]
        /\ UNCHANGED resp
    BY <1>6 DEF Take
  <2>2. PICK p \in Programs : cmd[p] = k /\ pc[p] \in {"poll", "withdraw"} /\ req[k].of = no[p]
    BY <1>5, <2>1 DEF Mail
  <2>3. pc[p] = "poll" /\ serving'[k] = no[p] /\ \A j \in Kinds \ {k} : serving'[j] = serving[j]
    BY <1>5, <2>1, <2>2 DEF Mail, CommandInv, Types
  <2> QED
    BY <1>1, <1>5, <2>1, <2>2, <2>3 DEF Lonely, Active, Mail
<1>7. CASE Answer(k)
  <2>1. /\ serving[k] # 0 /\ serving' = [serving EXCEPT ![k] = 0]
        /\ resp' = [resp EXCEPT ![k] = [valid |-> TRUE, of |-> serving[k]]]
    BY <1>7 DEF Answer
  <2>2. PICK p \in Programs : cmd[p] = k /\ pc[p] = "poll" /\ serving[k] = no[p]
    BY <1>5, <2>1 DEF Mail
  <2>3. \A q \in Programs : pc[q] \in MailPlaces => q = p
    BY <1>5, <2>2 DEF Lonely, Active, MailPlaces
  <2>4. /\ serving'[k] = 0 /\ resp'[k].valid /\ resp'[k].of = no[p]
        /\ \A j \in Kinds \ {k} : serving'[j] = serving[j] /\ resp'[j] = resp[j]
    BY <2>1, <2>2 DEF CommandInv, Types
  <2>5. Lonely'
    BY <1>1, <1>5 DEF Lonely, Active
  <2>6. \A q \in Programs : pc[q] \in MailPlaces => cmd[q] = k /\ pc[q] = "poll"
    BY <2>2, <2>3
  <2>7. Mail'
    BY <1>1, <1>5, <2>2, <2>3, <2>4, <2>6 DEF Mail, MailPlaces
  <2> QED
    BY <2>5, <2>7
<1> QED
  BY <1>6, <1>7

-----------------------------------------------------------------------------
(* The theorems.                                                           *)

LEMMA NextKeeps == CommandInv /\ [Next]_vars => CommandInv'
<1> SUFFICES ASSUME CommandInv, [Next]_vars PROVE CommandInv'
  OBVIOUS
<1>1. CASE \E p \in Programs : Work(p) \/ Kill(p)
  BY <1>1, LibraryKeeps, RegisterKeeps, KillKeeps DEF Work
<1>2. CASE \E p \in Programs, c \in Commands : Enter(p, c, 0)
  BY <1>2, EnterKeeps
<1>3. CASE \E p \in Programs, n \in Times : Enter(p, "read_real", n)
  BY <1>3, EnterKeeps
<1>4. CASE Others
  BY <1>4, AdvanceKeeps, ServiceKeeps DEF Others
<1>5. CASE UNCHANGED vars
  BY <1>5 DEF CommandInv, Types, Placed, OpenInv, MailInv, Lonely, Mail, Active, OwnAnswer, vars,
              ota, mailbox
<1> QED
  BY <1>1, <1>2, <1>3, <1>4, <1>5 DEF Next

THEOREM CommandInvariant == Spec => []CommandInv
<1>1. Init => CommandInv
  BY InitCommand
<1>2. CommandInv /\ [Next]_vars => CommandInv'
  BY NextKeeps
<1> QED
  BY <1>1, <1>2, PTL DEF Spec

\* However many programs run upgrades, and whatever queries fail (main.cpp
\* ota_upgrade, test1 .. test7): one that has come to its end has told the device,
\* or is known not to have.
THEOREM UpgradesAreClosed == Spec => []UpgradeClosed
<1>1. CommandInv => UpgradeClosed
  BY DEF CommandInv, OpenInv, UpgradeClosed, At, LoopPlaces
<1> QED
  BY <1>1, CommandInvariant, PTL

\* A register command that does not overlap with another prints the answer to its
\* own request, for any number of programs and commands (main.cpp write_asic_reg,
\* mgr_shm.cpp init_asic_msg).
THEOREM AnswersAreOwn == Spec => []OwnAnswer
<1>1. CommandInv => OwnAnswer
  BY DEF CommandInv
<1> QED
  BY <1>1, CommandInvariant, PTL

=============================================================================
