------------------------------ MODULE XSession ------------------------------
(***************************************************************************)
(* The request/answer core of the library: xsession's synchronous calls    *)
(* (libusb/xsession.cpp), the session ids that xusbadapter_package hands   *)
(* out while it serialises a request (libusb/usbadapter_package.cpp), and  *)
(* the handlers the network thread runs when an answer arrives.            *)
(*                                                                         *)
(* A thread is a user thread inside one of the call_xxx functions, or the  *)
(* worker thread of mgr_network while it sends a heartbeat.  Every access  *)
(* to shared state is a step of its own, as in the DEBUG build build.sh    *)
(* makes: the static s_req_id is guarded by a lock that belongs to the     *)
(* package, hence by no lock at all; m_map_semaphore is written under the  *)
(* write lock, and the handlers hold the read lock while they run.         *)
(*                                                                         *)
(* Requests are numbered 1, 2, ... in the order they take an id; 0 stands  *)
(* for "no request".  A payload is the number of the request it answers.   *)
(* Time is abstracted: a wait may run out at any moment.                   *)
(***************************************************************************)
EXTENDS XBasic

CONSTANTS
    Callers,    \* user threads
    Beater,     \* the mgr_network worker thread, which sends the heartbeats
    MaxId,      \* where the id counter wraps around to 1 (65535 in the code)
    Byte,       \* the values of a byte (256 in the code)
    MaxReq      \* bound: how many requests a behaviour may make

ASSUME ConstantsAssumption ==
    /\ Beater \notin Callers
    /\ MaxId \in Nat /\ MaxId > 1
    /\ Byte \in Nat /\ Byte > 1
    /\ MaxReq \in Nat

Threads == Callers \cup {Beater}
Reqs    == 1 .. MaxReq

\* What a caller does with an answer: take the error code and the data (most
\* calls), the error code alone (power control, frequency), or not wait for
\* one (MT_NOTIFY, and the heartbeat).
CallKinds == {"value", "status", "notify"}

Bumping == {"load", "store", "test", "wrap"}
Labels  == {"idle", "send", "insert", "wait", "errcode", "attdata", "erase"} \cup Bumping

VARIABLES
    s_req_id,           \* the static id counter of serial_to_bin
    pc,                 \* pc[t]: the next step of thread t
    req,                \* req[t]: the request thread t is making, or 0
    kind,               \* kind[t]: what it will do with the answer
    reg,                \* reg[t]: the register of the ++ in serial_to_bin
    nreq,               \* requests that have taken an id
    m_session,          \* m_session[r]: the id of request r, 0 before it has one
    m_map_semaphore,    \* the requests whose semaphore is registered, each under m_session[r]
    semaphore,          \* semaphore[r]: the xlibsemaphore the call of request r created
    output,             \* output[r]: the call's output parameters
    server,             \* sent requests the device manager may still answer
    handler,            \* the network thread, inside a handle_xxx_response
    answer,             \* answer[r]: history, what became of the answer to r
    raced               \* history: two threads were inside the id block at once

sharedVars == <<s_req_id, m_map_semaphore, semaphore>>
threadVars == <<pc, req, kind, reg, output>>
histVars   == <<nreq, m_session, answer, raced>>
vars == <<sharedVars, threadVars, histVars, server, handler>>

NoOutput    == [m_errcode |-> 0, m_att_data |-> 0]
FreshSem    == [count |-> 0, m_errcode |-> 0, m_att_data |-> 0]
HandlerIdle == [at |-> "idle", sem |-> 0, resp |-> 0]
Answers     == {"none", "found", "early", "waiting", "late"}

\* A find, insert or erase that compares no id (a plausible mistake).
UnderAny(id) == m_map_semaphore
\* One that never finds what was inserted (a plausible mistake).
UnderNothing(id) == {}

\* The entries of the map under an id: find(m_session).
Under(id) == {q \in m_map_semaphore : m_session[q] = id}

\* The id in the header of the answer to request r, as parse_msg_header reads it.
\* The device manager puts the id of the request there; if it reads as this side
\* does, the result is the same.
Heard(r) == read_littleendian(m_session[r], Byte)

\* The counter starts at an id that means "no session" (a plausible mistake).
ZeroId == 0

\* The first id, and the one the counter wraps around to.
FirstId == 1

\* The counter wraps one id too early (a plausible mistake).
WrapsEarly == s_req_id >= MaxId - 1

\* ++s_req_id >= 65535
Wraps == s_req_id >= MaxId

Init ==
    /\ s_req_id = FirstId
    /\ pc = [t \in Threads |-> "idle"]
    /\ req = [t \in Threads |-> 0]
    /\ kind = [t \in Threads |-> "notify"]
    /\ reg = [t \in Threads |-> 0]
    /\ nreq = 0
    /\ m_session = [r \in Reqs |-> 0]
    /\ m_map_semaphore = {}
    /\ semaphore = [r \in Reqs |-> FreshSem]
    /\ output = [r \in Reqs |-> NoOutput]
    /\ server = {}
    /\ handler = HandlerIdle
    /\ answer = [r \in Reqs |-> "none"]
    /\ raced = FALSE

-----------------------------------------------------------------------------
(* serial_to_bin: m_session = s_req_id; if(++s_req_id >= 65535) s_req_id = 1. *)

\* A call begins and reads the counter into its package.  MaxReq bounds the run.
TakeId(t, k) ==
    /\ pc[t] = "idle"
    /\ nreq < MaxReq
    /\ t = Beater => k = "notify"
    /\ nreq' = nreq + 1
    /\ m_session' = [m_session EXCEPT ![nreq + 1] = s_req_id]
    /\ raced' = (raced \/ \E u \in Threads : pc[u] \in Bumping)
    /\ req' = [req EXCEPT ![t] = nreq + 1]
    /\ kind' = [kind EXCEPT ![t] = k]
    /\ pc' = [pc EXCEPT ![t] = "load"]
    /\ UNCHANGED <<sharedVars, reg, output, answer, server, handler>>

LoadId(t) ==
    /\ pc[t] = "load"
    /\ reg' = [reg EXCEPT ![t] = s_req_id]
    /\ pc' = [pc EXCEPT ![t] = "store"]
    /\ UNCHANGED <<sharedVars, req, kind, output, histVars, server, handler>>

StoreId(t) ==
    /\ pc[t] = "store"
    /\ s_req_id' = reg[t] + 1
    /\ reg' = [reg EXCEPT ![t] = 0]
    /\ pc' = [pc EXCEPT ![t] = "test"]
    /\ UNCHANGED <<m_map_semaphore, semaphore, req, kind, output, histVars, server, handler>>

\* The comparison reads the counter again.
TestId(t) ==
    /\ pc[t] = "test"
    /\ pc' = [pc EXCEPT ![t] = IF Wraps THEN "wrap" ELSE "send"]
    /\ UNCHANGED <<sharedVars, req, kind, reg, output, histVars, server, handler>>

WrapId(t) ==
    /\ pc[t] = "wrap"
    /\ s_req_id' = FirstId
    /\ pc' = [pc EXCEPT ![t] = "send"]
    /\ UNCHANGED <<m_map_semaphore, semaphore, req, kind, reg, output, histVars, server, handler>>

-----------------------------------------------------------------------------
(* The rest of a call_xxx function, after serial_to_bin. *)

\* The package goes out, or it does not (no connection, nothing serialised):
\* the caller ignores which.  Nobody handles an answer to a notify or to a
\* heartbeat, so those requests end here.
Send(t) ==
    /\ pc[t] = "send"
    /\ IF kind[t] = "notify"
       THEN /\ pc' = [pc EXCEPT ![t] = "idle"]
            /\ req' = [req EXCEPT ![t] = 0]
            /\ UNCHANGED server
       ELSE /\ pc' = [pc EXCEPT ![t] = "insert"]
            /\ server' \in {server, server \cup {req[t]}}
            /\ UNCHANGED req
    /\ UNCHANGED <<sharedVars, kind, reg, output, histVars, handler>>

\* unordered_map::insert leaves an existing entry alone.
Insert(t) ==
    /\ pc[t] = "insert"
    /\ handler = HandlerIdle            \* the write lock
    /\ m_map_semaphore' = IF Under(m_session[req[t]]) = {} THEN m_map_semaphore \cup {req[t]}
                                                ELSE m_map_semaphore
    /\ pc' = [pc EXCEPT ![t] = "wait"]
    /\ UNCHANGED <<s_req_id, semaphore, req, kind, reg, output, histVars, server, handler>>

\* timed_wait finds the semaphore posted ...
Wake(t) ==
    /\ pc[t] = "wait"
    /\ semaphore[req[t]].count > 0
    /\ semaphore' = [semaphore EXCEPT ![req[t]].count = @ - 1]
    /\ pc' = [pc EXCEPT ![t] = "errcode"]
    /\ UNCHANGED <<s_req_id, m_map_semaphore, req, kind, reg, output, histVars, server, handler>>

\* wait() where timed_wait belongs (a plausible mistake).
WaitForever(t) == FALSE /\ UNCHANGED vars

\* ... or gives up after wait_time.
Timeout(t) ==
    /\ pc[t] = "wait"
    /\ semaphore[req[t]].count = 0
    /\ pc' = [pc EXCEPT ![t] = "erase"]
    /\ UNCHANGED <<sharedVars, req, kind, reg, output, histVars, server, handler>>

\* The error code is left as it was (a plausible mistake).
SkipErrcode(t) ==
    /\ pc[t] = "errcode"
    /\ pc' = [pc EXCEPT ![t] = IF kind[t] = "value" THEN "attdata" ELSE "erase"]
    /\ UNCHANGED <<sharedVars, req, kind, reg, output, histVars, server, handler>>

\* The outputs are copied one at a time and under no lock.
CopyErrcode(t) ==
    /\ pc[t] = "errcode"
    /\ output' = [output EXCEPT ![req[t]].m_errcode = semaphore[req[t]].m_errcode]
    /\ pc' = [pc EXCEPT ![t] = IF kind[t] = "value" THEN "attdata" ELSE "erase"]
    /\ UNCHANGED <<sharedVars, req, kind, reg, histVars, server, handler>>

CopyAttData(t) ==
    /\ pc[t] = "attdata"
    /\ output' = [output EXCEPT ![req[t]].m_att_data = semaphore[req[t]].m_att_data]
    /\ pc' = [pc EXCEPT ![t] = "erase"]
    /\ UNCHANGED <<sharedVars, req, kind, reg, histVars, server, handler>>

\* erase(m_session) removes whatever is registered under the id, and the call
\* returns: its semaphore and its package are destroyed with it.
Erase(t) ==
    /\ pc[t] = "erase"
    /\ handler = HandlerIdle            \* the write lock
    /\ m_map_semaphore' = m_map_semaphore \ Under(m_session[req[t]])
    /\ pc' = [pc EXCEPT ![t] = "idle"]
    /\ req' = [req EXCEPT ![t] = 0]
    /\ semaphore' = [semaphore EXCEPT ![req[t]] = FreshSem]
    /\ UNCHANGED <<s_req_id, kind, reg, output, histVars, server, handler>>

-----------------------------------------------------------------------------
(* The network thread: on_recv and the handle_xxx_response it dispatches to. *)

\* When an answer to r finds nothing registered, where was its caller?
Lost(r) ==
    IF \E t \in Callers : req[t] = r /\ pc[t] = "insert" THEN "early"
    ELSE IF \E t \in Callers : req[t] = r /\ pc[t] = "wait" THEN "waiting"
    ELSE "late"

\* The answer to r arrives.  Under the read lock the handler looks its id up
\* and starts to fill the semaphore it finds; an answer it finds none for is dropped.
HandleResponse(r) ==
    /\ handler = HandlerIdle
    /\ r \in server
    /\ server' = server \ {r}
    /\ \/ \E q \in Under(Heard(r)) :
            /\ semaphore' = [semaphore EXCEPT ![q].m_errcode = r]
            /\ handler' = [at |-> "attdata", sem |-> q, resp |-> r]
            /\ answer' = [answer EXCEPT ![r] = "found"]
       \/ /\ Under(Heard(r)) = {}
          /\ answer' = [answer EXCEPT ![r] = Lost(r)]
          /\ UNCHANGED <<semaphore, handler>>
    /\ UNCHANGED <<s_req_id, m_map_semaphore, threadVars, nreq, m_session, raced>>

HandlerAttData ==
    /\ handler.at = "attdata"
    /\ semaphore' = [semaphore EXCEPT ![handler.sem].m_att_data = handler.resp]
    /\ handler' = [handler EXCEPT !.at = "post"]
    /\ UNCHANGED <<s_req_id, m_map_semaphore, threadVars, histVars, server>>

\* post() and the release of the read lock.
HandlerPost ==
    /\ handler.at = "post"
    /\ semaphore' = [semaphore EXCEPT ![handler.sem].count = @ + 1]
    /\ handler' = HandlerIdle
    /\ UNCHANGED <<s_req_id, m_map_semaphore, threadVars, histVars, server>>

-----------------------------------------------------------------------------
\* The bound is used up and every call has returned: the run ends here.
Finished ==
    /\ nreq = MaxReq
    /\ \A t \in Threads : pc[t] = "idle"
    /\ handler = HandlerIdle
    /\ server = {}
    /\ UNCHANGED vars

ThreadStep(t) ==
    \/ \E k \in CallKinds : TakeId(t, k)
    \/ LoadId(t) \/ StoreId(t) \/ TestId(t) \/ WrapId(t)
    \/ Send(t) \/ Insert(t) \/ Wake(t) \/ Timeout(t)
    \/ CopyErrcode(t) \/ CopyAttData(t) \/ Erase(t)

NetworkStep ==
    \/ \E r \in Reqs : HandleResponse(r)
    \/ HandlerAttData
    \/ HandlerPost

Next ==
    \/ \E t \in Threads : ThreadStep(t)
    \/ NetworkStep
    \/ Finished

Spec == Init /\ [][Next]_vars

\* A thread inside a call is scheduled, its wait runs out at the latest when
\* wait_time is over, and a handler that has begun finishes.  Nothing is
\* assumed of the device manager: it may never answer.
Fairness ==
    /\ \A t \in Threads : WF_vars(ThreadStep(t) /\ pc[t] # "idle")
    /\ WF_vars(HandlerAttData \/ HandlerPost)

FairSpec == Spec /\ Fairness

-----------------------------------------------------------------------------
(* Properties *)

TypeOK ==
    /\ s_req_id \in Nat \ {0}
    /\ pc \in [Threads -> Labels]
    /\ req \in [Threads -> Reqs \cup {0}]
    /\ kind \in [Threads -> CallKinds]
    /\ reg \in [Threads -> Nat]
    /\ nreq \in 0 .. MaxReq
    /\ m_session \in [Reqs -> Nat]
    /\ m_map_semaphore \subseteq Reqs
    /\ semaphore \in [Reqs -> [count : Nat, m_errcode : Reqs \cup {0}, m_att_data : Reqs \cup {0}]]
    /\ output \in [Reqs -> [m_errcode : Reqs \cup {0}, m_att_data : Reqs \cup {0}]]
    /\ server \subseteq Reqs
    /\ handler \in [at : {"idle", "attdata", "post"}, sem : Reqs \cup {0}, resp : Reqs \cup {0}]
    /\ answer \in [Reqs -> Answers]
    /\ raced \in BOOLEAN

\* The thread that is making request r has its semaphore registered, or did.
Waiting(t, r) == req[t] = r /\ pc[t] \in {"wait", "errcode", "attdata", "erase"}

\* Every registered semaphore belongs to a call that has not returned yet, no
\* two are registered under one id, and the handler the network thread is
\* inside of fills a semaphore that is still registered: nothing is left
\* behind in m_map_semaphore by an erase that another call's id can reach.
NoDanglingSemaphore ==
    /\ \A r \in m_map_semaphore :
          /\ \E t \in Callers : Waiting(t, r)
          /\ \A q \in m_map_semaphore : m_session[q] = m_session[r] => q = r
    /\ handler.at # "idle" => handler.sem \in m_map_semaphore

\* Whatever the interleaving, what a call gives back was brought by an answer
\* that was handled, and whose session id, as it is read, is that of the call:
\* the error code and the data may come from different answers, but not from one
\* read as meant for another id.  A call that has data also has an error code.
OutputBearsOwnSession ==
    \A r \in Reqs :
        /\ \A a \in {output[r].m_errcode, output[r].m_att_data} \ {0} :
              answer[a] = "found" /\ Heard(a) = m_session[r]
        /\ output[r].m_att_data # 0 => output[r].m_errcode # 0

\* The claim of the lock in serial_to_bin, where it is true: as long as no two
\* threads were inside the id block at once, any MaxId - 1 consecutive
\* requests bear different ids, through the wrap-around too.
DistinctInWindow ==
    ~ raced => \A p, q \in 1 .. nreq :
                  p < q /\ q - p < MaxId - 1 => m_session[p] # m_session[q]

\* Was the id of request r given to another request as well?
Shared(r) == \E q \in Reqs \ {r} : m_session[q] = m_session[r]

\* An answer that comes while its caller is waiting is lost only if the id of
\* that call is not read back as it was written, or was given to a second request
\* as well: otherwise nobody but the caller removes the entry it waits on.
LostOnlyWhenShared ==
    \A r \in Reqs : answer[r] = "waiting" => Shared(r) \/ Heard(r) # m_session[r]

\* Every call returns, whatever the device manager does (wait_time is finite).
EveryCallReturns ==
    \A t \in Threads : pc[t] # "idle" ~> pc[t] = "idle"

\* The session layer implements the synchronous call it promises.
phase ==
    [r \in Reqs |-> IF r > nreq THEN "none"
                    ELSE IF \E t \in Threads : req[t] = r THEN "open" ELSE "closed"]

answered == {r \in Reqs : answer[r] # "none"}

result == [r \in Reqs |-> IF phase[r] = "closed" THEN output[r] ELSE NoOutput]

Sync == INSTANCE SyncCall WITH session <- m_session

ImplementsSyncCall == Sync!Spec

\* libusb/usbadapter_package.cpp:226, the comment on the lock around the id
\* counter: it is there so that session ids are not repeated between threads.
\* Two requests that are being made at the same time never share an id.
SessionsNotRepeated ==
    \A t, u \in Threads :
        t # u /\ req[t] # 0 /\ req[u] # 0 => m_session[req[t]] # m_session[req[u]]

=============================================================================
