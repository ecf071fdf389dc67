----------------------------- MODULE SafeQueue -----------------------------
(***************************************************************************)
(* The message queue of the log (libusb/queue.h): a std::list, the steps   *)
(* in which Push hangs a message on its end, and the removal of the first  *)
(* one.  Pop_Wait holds the queue's lock; Push does not, so its steps fall *)
(* between those of other threads.                                         *)
(*                                                                         *)
(* A std::list is a ring of nodes through an end node.  push_back reads    *)
(* the last node, links the new one behind it and makes it the last, as    *)
(* the library's _List_node_base::_M_hook does.  A node that was freed     *)
(* may still be written to through a stale pointer; what it holds then is  *)
(* one of the outcomes the build can produce.                              *)
(***************************************************************************)
EXTENDS Integers

CONSTANTS
    Writers,        \* the threads that push
    MaxMsgs,        \* bound: messages that are made
    capacity_       \* 0: as many as there is memory for

ASSUME QueueAssumption == MaxMsgs \in Nat /\ capacity_ \in Nat

VARIABLES
    nxt,            \* the node behind a node
    prv,            \* the node before a node
    size,           \* std::list::size
    tail,           \* the last node, as a writer inside push_back has read it
    at,             \* how far a writer is in Push: out, link or tail
    notified        \* ready_ was notified while the log thread waited

list == <<nxt, prv, size>>
queue == <<nxt, prv, size, tail, at, notified>>

End == 0
Msgs == 1..MaxMsgs
Nodes == 0..MaxMsgs

QueueInit ==
    /\ nxt = [n \in Nodes |-> End] /\ prv = [n \in Nodes |-> End] /\ size = 0
    /\ tail = [w \in Writers |-> End] /\ at = [w \in Writers |-> "out"]
    /\ notified = FALSE

-----------------------------------------------------------------------------
\* The nodes one meets on the way from the end node forwards.
Chain == LET Behind[k \in Nodes] == IF k = 0 THEN nxt[End] ELSE nxt[Behind[k - 1]]
             Ended(k) == \E j \in 0..k : Behind[j] = End
         IN  {Behind[k] : k \in {j \in Nodes : ~Ended(j)}}

Empty == nxt[End] = End

\* Another thread is between the steps of push_back.
Pushing(others) == \E w \in others : at[w] # "out"

\* The list without its first node.
Unhooked ==
    LET m == nxt[End] IN
    [nxt |-> [nxt EXCEPT ![prv[m]] = nxt[m], ![m] = End],
     prv |-> [prv EXCEPT ![nxt[m]] = prv[m], ![m] = End],
     size |-> size - 1]

\* The capacity 0 is taken for one (a plausible mistake).
FullAtAll == size >= capacity_

Overfull == capacity_ # 0 /\ size >= capacity_

-----------------------------------------------------------------------------
(* Push, in three steps: make room and read the last node; link behind     *)
(* it; become the last, count and notify.                                  *)

PushHook(w, m) ==
    LET l == IF Overfull /\ ~Empty THEN Unhooked
             ELSE [nxt |-> nxt, prv |-> prv, size |-> size]
    IN  /\ nxt' = [l.nxt EXCEPT ![m] = End]
        /\ prv' = [l.prv EXCEPT ![m] = l.prv[End]]
        /\ tail' = [tail EXCEPT ![w] = l.prv[End]]
        /\ size' = l.size
        /\ at' = [at EXCEPT ![w] = "link"]
        /\ UNCHANGED notified

PushLink(w, m) ==
    /\ at[w] = "link"
    /\ nxt' = [nxt EXCEPT ![tail[w]] = m]
    /\ at' = [at EXCEPT ![w] = "tail"]
    /\ UNCHANGED <<prv, size, tail, notified>>

PushTail(w, m, waited) ==
    /\ at[w] = "tail"
    /\ prv' = [prv EXCEPT ![End] = m]
    /\ size' = size + 1
    /\ at' = [at EXCEPT ![w] = "out"]
    /\ tail' = [tail EXCEPT ![w] = End]
    /\ notified' = (notified \/ waited)
    /\ UNCHANGED nxt

\* Pop_Wait takes the first message, with the lock.
PopFront ==
    /\ ~Empty
    /\ nxt' = Unhooked.nxt /\ prv' = Unhooked.prv /\ size' = Unhooked.size
    /\ notified' = FALSE
    /\ UNCHANGED <<tail, at>>
=============================================================================
