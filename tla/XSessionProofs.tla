--------------------------- MODULE XSessionProofs ---------------------------
(***************************************************************************)
(* Proofs about XSession, for any set of callers, any wrap-around value    *)
(* and any number of requests.  The inductive invariant comes in named     *)
(* parts; TLC checks them on the instances of MCSession as well.           *)
(***************************************************************************)
EXTENDS XSession, TLAPS

\* A thread has a request exactly while it is inside a call, and a handler
\* that has begun has an answer and a semaphore: what the steps index by.
IndexInv ==
    /\ \A t \in Threads : req[t] = 0 <=> pc[t] = "idle"
    /\ handler.at # "idle" => handler.sem \in Reqs /\ handler.resp \in Reqs

TypeInv == TypeOK /\ IndexInv

\* No two threads share a request, and only user threads wait for an answer.
RequestsInv ==
    /\ \A t \in Threads : req[t] <= nreq
    /\ \A t, u \in Threads : req[t] = req[u] /\ req[t] # 0 => t = u
    /\ \A t \in Threads : pc[t] \in {"insert", "wait", "errcode", "attdata", "erase"} => kind[t] # "notify"
    /\ kind[Beater] = "notify"

\* A request has an id from the moment it is made, and nothing exists for one
\* that is not made yet.
IssuedInv ==
    /\ \A r \in Reqs : r <= nreq <=> m_session[r] # 0
    /\ \A r \in Reqs : r > nreq =>
          /\ answer[r] = "none"
          /\ semaphore[r] = FreshSem
          /\ output[r] = NoOutput
          /\ r \notin server
    /\ \A r \in server : answer[r] = "none"
    /\ \A t \in Threads : pc[t] \in Bumping \cup {"send"} =>
          answer[req[t]] = "none" /\ req[t] \notin server

\* Whose answer the fields of a semaphore or of an output may hold.
Brought(a, r) == a # 0 => answer[a] = "found" /\ Heard(a) = m_session[r]

\* A semaphore is filled by answers of its own id, error code first, and a
\* caller that was woken finds the error code set.
AnswersInv ==
    /\ \A r \in Reqs :
          /\ Brought(semaphore[r].m_errcode, r)
          /\ Brought(semaphore[r].m_att_data, r)
          /\ semaphore[r].m_errcode = 0 => semaphore[r].count = 0 /\ semaphore[r].m_att_data = 0
    /\ handler.at # "idle" =>
          /\ Brought(handler.resp, handler.sem)
          /\ semaphore[handler.sem].m_errcode # 0
    /\ handler.at = "idle" => handler = HandlerIdle
    /\ \A t \in Threads :
          /\ pc[t] = "errcode" => semaphore[req[t]].m_errcode # 0
          /\ pc[t] = "attdata" => output[req[t]].m_errcode # 0

\* A waiting call is registered, unless another one has or had its id; then its
\* answer is found if its id is read back as it was written.
WaitersInv ==
    /\ \A t \in Callers : pc[t] = "wait" => req[t] \in m_map_semaphore \/ Shared(req[t])
    /\ LostOnlyWhenShared

\* The inductive invariant of the session layer.
SessionInv ==
    /\ RequestsInv
    /\ IssuedInv
    /\ AnswersInv
    /\ NoDanglingSemaphore
    /\ OutputBearsOwnSession
    /\ WaitersInv

-----------------------------------------------------------------------------
(* Type correctness *)

LEMMA InitType == Init => TypeInv
<1> SUFFICES ASSUME Init PROVE TypeInv
  OBVIOUS
<1> USE DEF Init
<1>1. FreshSem \in [count : Nat, m_errcode : Reqs \cup {0}, m_att_data : Reqs \cup {0}]
  BY DEF FreshSem
<1>2. NoOutput \in [m_errcode : Reqs \cup {0}, m_att_data : Reqs \cup {0}]
  BY DEF NoOutput
<1>3. handler \in [at : {"idle", "attdata", "post"}, sem : Reqs \cup {0}, resp : Reqs \cup {0}]
  BY DEF HandlerIdle
<1>4. s_req_id \in Nat \ {0} /\ nreq \in 0 .. MaxReq /\ m_session \in [Reqs -> Nat]
  BY ConstantsAssumption DEF FirstId
<1>5. /\ pc \in [Threads -> Labels] /\ kind \in [Threads -> CallKinds]
      /\ answer \in [Reqs -> Answers]
  BY DEF Labels, CallKinds, Answers
<1>6. TypeOK
  BY <1>1, <1>2, <1>3, <1>4, <1>5 DEF TypeOK
<1>7. IndexInv
  BY DEF IndexInv, HandlerIdle
<1> QED
  BY <1>6, <1>7 DEF TypeInv

\* The network thread's steps keep the types.
LEMMA NetworkType == TypeInv /\ NetworkStep => TypeInv'
<1> SUFFICES ASSUME TypeInv, NetworkStep PROVE TypeInv'
  OBVIOUS
<1> USE DEF TypeInv, TypeOK, IndexInv, sharedVars, threadVars, histVars
<1>1. ASSUME NEW r \in Reqs, HandleResponse(r) PROVE TypeInv'
  <2>1. Lost(r) \in Answers
    BY DEF Lost, Answers
  <2>2. ASSUME NEW q \in Under(Heard(r)),
               semaphore' = [semaphore EXCEPT ![q].m_errcode = r],
               handler' = [at |-> "attdata", sem |-> q, resp |-> r],
               answer' = [answer EXCEPT ![r] = "found"]
        PROVE TypeInv'
    <3>1. q \in Reqs
      BY <2>2 DEF Under
    <3> QED
      BY <1>1, <2>2, <3>1 DEF HandleResponse, Answers
  <2>3. CASE /\ answer' = [answer EXCEPT ![r] = Lost(r)]
             /\ UNCHANGED <<semaphore, handler>>
    BY <1>1, <2>1, <2>3 DEF HandleResponse
  <2> QED
    BY <1>1, <2>2, <2>3 DEF HandleResponse
<1>2. ASSUME HandlerAttData PROVE TypeInv'
  BY <1>2 DEF HandlerAttData
<1>3. ASSUME HandlerPost PROVE TypeInv'
  <2>1. handler.sem \in Reqs
    BY <1>3 DEF HandlerPost
  <2>2. semaphore' \in [Reqs -> [count : Nat, m_errcode : Reqs \cup {0}, m_att_data : Reqs \cup {0}]]
    BY <1>3, <2>1 DEF HandlerPost
  <2> QED
    BY <1>3, <2>2 DEF HandlerPost, HandlerIdle
<1> QED
  BY <1>1, <1>2, <1>3 DEF NetworkStep

\* So do a thread's.
LEMMA ThreadType == ASSUME NEW t \in Threads, TypeInv, ThreadStep(t) PROVE TypeInv'
<1> USE DEF TypeInv, TypeOK, IndexInv, sharedVars, threadVars, histVars, Labels, Bumping
<1>1. ASSUME NEW k \in CallKinds, TakeId(t, k) PROVE TypeInv'
  <2>1. nreq + 1 \in Reqs /\ nreq + 1 \in 0 .. MaxReq /\ nreq + 1 # 0
    BY <1>1, ConstantsAssumption DEF TakeId, Reqs
  <2> QED
    BY <1>1, <2>1 DEF TakeId
<1>2. ASSUME LoadId(t) PROVE TypeInv'
  BY <1>2 DEF LoadId
<1>3. ASSUME StoreId(t) PROVE TypeInv'
  BY <1>3 DEF StoreId
<1>4. ASSUME TestId(t) PROVE TypeInv'
  BY <1>4 DEF TestId
<1>5. ASSUME WrapId(t) PROVE TypeInv'
  BY <1>5 DEF WrapId, FirstId
<1>6. ASSUME Send(t) PROVE TypeInv'
  <2>1. CASE kind[t] = "notify"
    BY <1>6, <2>1 DEF Send
  <2>2. CASE kind[t] # "notify"
    BY <1>6, <2>2 DEF Send
  <2> QED
    BY <2>1, <2>2
<1>7. ASSUME Insert(t) PROVE TypeInv'
  BY <1>7 DEF Insert
<1>8. ASSUME Wake(t) PROVE TypeInv'
  <2>1. req[t] \in Reqs
    BY <1>8 DEF Wake
  <2>2. semaphore' \in [Reqs -> [count : Nat, m_errcode : Reqs \cup {0}, m_att_data : Reqs \cup {0}]]
    BY <1>8, <2>1 DEF Wake
  <2> QED
    BY <1>8, <2>2 DEF Wake
<1>9. ASSUME Timeout(t) PROVE TypeInv'
  BY <1>9 DEF Timeout
<1>10. ASSUME CopyErrcode(t) PROVE TypeInv'
  BY <1>10 DEF CopyErrcode
<1>11. ASSUME CopyAttData(t) PROVE TypeInv'
  BY <1>11 DEF CopyAttData
<1>12. ASSUME Erase(t) PROVE TypeInv'
  BY <1>12 DEF Erase, Under, FreshSem
<1> QED
  BY <1>1, <1>2, <1>3, <1>4, <1>5, <1>6, <1>7, <1>8, <1>9, <1>10, <1>11, <1>12 DEF ThreadStep

LEMMA StutterType == TypeInv /\ UNCHANGED vars => TypeInv'
BY DEF TypeInv, TypeOK, IndexInv, vars, sharedVars, threadVars, histVars

LEMMA NextType == TypeInv /\ [Next]_vars => TypeInv'
BY NetworkType, ThreadType, StutterType DEF Next, Finished

LEMMA TypeInvariant == Spec => []TypeInv
BY InitType, NextType, PTL DEF Spec

\* Every variable keeps its type.
THEOREM TypeCorrect == Spec => []TypeOK
BY TypeInvariant, PTL DEF TypeInv

-----------------------------------------------------------------------------
(* The safety of the session layer *)

LEMMA InitSession == Init => SessionInv
<1> SUFFICES ASSUME Init PROVE SessionInv
  OBVIOUS
<1> USE ConstantsAssumption DEF Init, Threads, FreshSem, NoOutput, HandlerIdle
<1>1. RequestsInv
  BY DEF RequestsInv
<1>2. IssuedInv
  BY DEF IssuedInv, Reqs, Bumping
<1>3. AnswersInv
  BY DEF AnswersInv, Brought, Heard
<1>4. NoDanglingSemaphore /\ OutputBearsOwnSession /\ WaitersInv
  BY DEF NoDanglingSemaphore, OutputBearsOwnSession, Heard, WaitersInv, LostOnlyWhenShared
<1> QED
  BY <1>1, <1>2, <1>3, <1>4 DEF SessionInv

\* A step that only moves a thread between labels of which neither is one of
\* the waiting ones, or from waiting to giving up, keeps everything.
LEMMA QuietStep ==
    ASSUME NEW t \in Threads, NEW l \in Bumping \cup {"send", "erase"},
           TypeInv, SessionInv,
           l = "erase" => pc[t] = "wait",
           l # "erase" => pc[t] \in Bumping,
           pc' = [pc EXCEPT ![t] = l],
           UNCHANGED <<req, kind, nreq, m_session, m_map_semaphore, semaphore,
                       output, server, handler, answer>>
    PROVE  SessionInv'
<1> USE DEF TypeInv, TypeOK, IndexInv, SessionInv, Bumping
<1>1. RequestsInv'
  BY DEF RequestsInv
<1>2. IssuedInv'
  BY DEF IssuedInv
<1>3. AnswersInv'
  BY DEF AnswersInv, Brought, Heard
<1>4. NoDanglingSemaphore'
  BY DEF NoDanglingSemaphore, Waiting, Threads
<1>5. OutputBearsOwnSession'
  BY DEF OutputBearsOwnSession, Heard
<1>6. WaitersInv'
  BY DEF WaitersInv, LostOnlyWhenShared, Heard, Shared, Threads
<1> QED
  BY <1>1, <1>2, <1>3, <1>4, <1>5, <1>6

\* A request that takes an id disturbs no older one.
LEMMA TakeIdSession ==
    ASSUME NEW t \in Threads, NEW k \in CallKinds, TypeInv, SessionInv, TakeId(t, k)
    PROVE  SessionInv'
<1> USE DEF TypeInv, TypeOK, IndexInv, SessionInv, TakeId, sharedVars
<1>0. nreq + 1 \in Reqs /\ nreq \in Nat /\ (\A r \in Reqs : r \in Nat)
  BY ConstantsAssumption DEF Reqs
<1>1. RequestsInv'
  BY <1>0 DEF RequestsInv, Threads
<1>2. IssuedInv'
  <2>1. \A r \in Reqs : r <= nreq' <=> m_session'[r] # 0
    BY <1>0 DEF IssuedInv
  <2>2. \A u \in Threads : pc'[u] \in Bumping \cup {"send"} =>
           answer'[req'[u]] = "none" /\ req'[u] \notin server'
    BY <1>0 DEF IssuedInv, Threads
  <2>3. \A r \in Reqs : r > nreq' => r > nreq
    BY <1>0
  <2> QED
    BY <2>1, <2>2, <2>3 DEF IssuedInv
<1>3. \A r \in Reqs : r # nreq + 1 => m_session'[r] = m_session[r]
  BY <1>0
<1>4. \A r \in Reqs : answer[r] # "none" => r # nreq + 1
  BY <1>0 DEF IssuedInv
<1>5. \A r \in m_map_semaphore : r # nreq + 1
  BY <1>0 DEF NoDanglingSemaphore, Waiting, RequestsInv, Threads
<1>6. AnswersInv'
  <2>1. \A r \in Reqs : Brought(semaphore[r].m_errcode, r)' /\ Brought(semaphore[r].m_att_data, r)'
    BY <1>0, <1>3, <1>4 DEF AnswersInv, Brought, Heard, IssuedInv, FreshSem
  <2>2. handler.at # "idle" => Brought(handler.resp, handler.sem)'
    BY <1>3, <1>4, <1>5 DEF AnswersInv, Brought, Heard, NoDanglingSemaphore
  <2> QED
    BY <2>1, <2>2 DEF AnswersInv, Brought, Heard
<1>7. NoDanglingSemaphore'
  BY <1>3, <1>5 DEF NoDanglingSemaphore, Waiting, Threads
<1>8. OutputBearsOwnSession'
  BY <1>0, <1>3, <1>4 DEF OutputBearsOwnSession, Heard, IssuedInv, NoOutput
<1>9. WaitersInv'
  <2>1. \A r \in Reqs : r <= nreq /\ Shared(r) => Shared(r)'
    BY <1>0, <1>3 DEF Shared, IssuedInv
  <2>2. ASSUME NEW u \in Callers, (pc[u] = "wait")'
        PROVE  (req[u] \in m_map_semaphore \/ Shared(req[u]))'
    <3>1. u # t /\ pc[u] = "wait" /\ req'[u] = req[u]
      BY <2>2 DEF Threads
    <3>2. req[u] \in Reqs /\ req[u] <= nreq
      BY <3>1 DEF Threads, RequestsInv
    <3>3. req[u] \in m_map_semaphore \/ Shared(req[u])
      BY <3>1 DEF WaitersInv, LostOnlyWhenShared, Heard
    <3>4. CASE req[u] \in m_map_semaphore
      BY <3>1, <3>4
    <3>5. CASE Shared(req[u])
      BY <3>1, <3>2, <3>5, <2>1 DEF Shared
    <3> QED
      BY <3>3, <3>4, <3>5
  <2>3. \A r \in Reqs : answer'[r] = "waiting" => (Shared(r) \/ Heard(r) # m_session[r])'
    BY <2>1, <1>0 DEF WaitersInv, LostOnlyWhenShared, Heard, IssuedInv
  <2> QED
    BY <2>2, <2>3 DEF WaitersInv, LostOnlyWhenShared, Heard
<1> QED
  BY <1>1, <1>2, <1>6, <1>7, <1>8, <1>9

LEMMA SendSession ==
    ASSUME NEW t \in Threads, TypeInv, SessionInv, Send(t)
    PROVE  SessionInv'
<1> USE DEF TypeInv, TypeOK, IndexInv, SessionInv, Send, sharedVars, histVars
<1>0. req[t] \in Reqs /\ req[t] # 0 /\ (\A r \in Reqs : r \in Nat) /\ nreq \in Nat
  BY ConstantsAssumption DEF Reqs
<1>1. RequestsInv'
  BY <1>0 DEF RequestsInv, Threads
<1>2. IssuedInv'
  <2>1. \A u \in Threads : (pc[u] \in Bumping \cup {"send"})' =>
           u # t /\ pc[u] \in Bumping \cup {"send"} /\ req'[u] = req[u] /\ req[u] # req[t]
    BY <1>0 DEF RequestsInv, Bumping
  <2>2. \A r \in server' : r \in server \/ r = req[t]
    OBVIOUS
  <2>3. answer[req[t]] = "none" /\ req[t] <= nreq
    BY DEF IssuedInv, RequestsInv
  <2> QED
    BY <1>0, <2>1, <2>2, <2>3 DEF IssuedInv
<1>3. AnswersInv'
  BY DEF AnswersInv, Brought, Heard
<1>4. NoDanglingSemaphore'
  BY DEF NoDanglingSemaphore, Waiting, Threads
<1>5. OutputBearsOwnSession' /\ WaitersInv'
  BY DEF OutputBearsOwnSession, Heard, WaitersInv, LostOnlyWhenShared, Shared, Threads
<1> QED
  BY <1>1, <1>2, <1>3, <1>4, <1>5

LEMMA InsertSession ==
    ASSUME NEW t \in Threads, TypeInv, SessionInv, Insert(t)
    PROVE  SessionInv'
<1> USE DEF TypeInv, TypeOK, IndexInv, SessionInv, Insert, histVars
<1>0. req[t] \in Reqs /\ t \in Callers
  BY DEF RequestsInv, Threads
<1>1. RequestsInv'
  BY <1>0 DEF RequestsInv, Threads
<1>2. IssuedInv'
  BY DEF IssuedInv, Bumping
<1>3. AnswersInv'
  BY DEF AnswersInv, Brought, Heard
<1>4. NoDanglingSemaphore'
  <2>1. handler.at = "idle"
    BY DEF HandlerIdle
  <2>2. \A q \in m_map_semaphore : \E u \in Callers : Waiting(u, q)'
    BY DEF NoDanglingSemaphore, Waiting, Threads
  <2>3. Waiting(t, req[t])'
    BY <1>0 DEF Waiting
  <2> QED
    BY <1>0, <2>1, <2>2, <2>3 DEF NoDanglingSemaphore, Under
<1>5. OutputBearsOwnSession'
  BY DEF OutputBearsOwnSession, Heard
<1>6. WaitersInv'
  <2>1. CASE Under(m_session[req[t]]) = {}
    BY <1>0, <2>1 DEF WaitersInv, LostOnlyWhenShared, Heard, Shared, Threads
  <2>2. CASE Under(m_session[req[t]]) # {}
    BY <1>0, <2>2 DEF WaitersInv, LostOnlyWhenShared, Heard, Shared, Threads, Under
  <2> QED
    BY <2>1, <2>2
<1> QED
  BY <1>1, <1>2, <1>3, <1>4, <1>5, <1>6

LEMMA WakeSession ==
    ASSUME NEW t \in Threads, TypeInv, SessionInv, Wake(t)
    PROVE  SessionInv'
<1> USE DEF TypeInv, TypeOK, IndexInv, SessionInv, Wake, histVars
<1>0. req[t] \in Reqs /\ req[t] <= nreq /\ nreq \in Nat /\ (\A r \in Reqs : r \in Nat)
  BY ConstantsAssumption DEF RequestsInv, Reqs
<1>1. RequestsInv'
  BY DEF RequestsInv, Threads
<1>2. IssuedInv'
  BY <1>0 DEF IssuedInv, Bumping
<1>3. /\ \A r \in Reqs : /\ semaphore'[r].m_errcode = semaphore[r].m_errcode
                         /\ semaphore'[r].m_att_data = semaphore[r].m_att_data
                         /\ r # req[t] => semaphore'[r] = semaphore[r]
      /\ semaphore[req[t]].m_errcode # 0
  BY <1>0 DEF AnswersInv
<1>4. AnswersInv'
  BY <1>0, <1>3 DEF AnswersInv, Brought, Heard
<1>5. NoDanglingSemaphore'
  BY DEF NoDanglingSemaphore, Waiting, Threads
<1>6. OutputBearsOwnSession' /\ WaitersInv'
  BY DEF OutputBearsOwnSession, Heard, WaitersInv, LostOnlyWhenShared, Shared, Threads
<1> QED
  BY <1>1, <1>2, <1>4, <1>5, <1>6

\* Both copies, of the error code and of the data, take a field that an answer
\* of the call's own session id has brought.
LEMMA CopySession ==
    ASSUME NEW t \in Threads, TypeInv, SessionInv, CopyErrcode(t) \/ CopyAttData(t)
    PROVE  SessionInv'
<1> USE DEF TypeInv, TypeOK, IndexInv, SessionInv, histVars, sharedVars
<1>0. req[t] \in Reqs /\ req[t] <= nreq /\ nreq \in Nat /\ (\A r \in Reqs : r \in Nat)
  BY ConstantsAssumption DEF RequestsInv, Reqs, CopyErrcode, CopyAttData
<1>1. RequestsInv'
  BY DEF RequestsInv, Threads, CopyErrcode, CopyAttData
<1>2. IssuedInv'
  <2>1. \A r \in Reqs : r # req[t] => output'[r] = output[r]
    BY <1>0 DEF CopyErrcode, CopyAttData
  <2> QED
    BY <1>0, <2>1 DEF IssuedInv, Bumping, CopyErrcode, CopyAttData
<1>3. AnswersInv'
  <2>1. CASE CopyErrcode(t)
    <3>1. output'[req[t]].m_errcode # 0
      BY <1>0, <2>1 DEF AnswersInv, CopyErrcode
    <3>2. \A u \in Threads : u # t => req[u] # req[t] \/ pc[u] = "idle"
      BY <1>0 DEF RequestsInv
    <3>3. \A u \in Threads : pc'[u] = "attdata" => output'[req'[u]].m_errcode # 0
      BY <1>0, <2>1, <3>1, <3>2 DEF AnswersInv, CopyErrcode
    <3> QED
      BY <2>1, <3>3 DEF AnswersInv, Brought, Heard, CopyErrcode
  <2>2. CASE CopyAttData(t)
    BY <1>0, <2>2 DEF AnswersInv, Brought, Heard, CopyAttData
  <2> QED
    BY <2>1, <2>2
<1>4. NoDanglingSemaphore'
  BY DEF NoDanglingSemaphore, Waiting, Threads, CopyErrcode, CopyAttData
<1>5. OutputBearsOwnSession'
  <2>1. CASE CopyErrcode(t)
    BY <1>0, <2>1 DEF OutputBearsOwnSession, Heard, AnswersInv, Brought, CopyErrcode
  <2>2. CASE CopyAttData(t)
    BY <1>0, <2>2 DEF OutputBearsOwnSession, Heard, AnswersInv, Brought, CopyAttData
  <2> QED
    BY <2>1, <2>2
<1>6. WaitersInv'
  BY DEF WaitersInv, LostOnlyWhenShared, Heard, Shared, Threads, CopyErrcode, CopyAttData
<1> QED
  BY <1>1, <1>2, <1>3, <1>4, <1>5, <1>6

\* The erase takes away what is registered under the id of the call that
\* returns: its own entry if it has one, another call's only if they share it.
LEMMA EraseSession ==
    ASSUME NEW t \in Threads, TypeInv, SessionInv, Erase(t)
    PROVE  SessionInv'
<1> USE DEF TypeInv, TypeOK, IndexInv, SessionInv, Erase, histVars
<1>0. req[t] \in Reqs /\ req[t] <= nreq /\ nreq \in Nat /\ (\A r \in Reqs : r \in Nat)
  BY ConstantsAssumption DEF RequestsInv, Reqs
<1>1. RequestsInv'
  BY <1>0 DEF RequestsInv, Threads
<1>2. IssuedInv'
  BY <1>0 DEF IssuedInv, Bumping
<1>3. AnswersInv'
  <2>1. handler' = HandlerIdle /\ handler'.at = "idle"
    BY DEF HandlerIdle
  <2>2. \A u \in Threads : u # t => req[u] # req[t] \/ pc[u] = "idle"
    BY <1>0 DEF RequestsInv
  <2>3. \A r \in Reqs : r # req[t] => semaphore'[r] = semaphore[r]
    BY <1>0
  <2>4. semaphore'[req[t]] = FreshSem
    BY <1>0
  <2>5. \A r \in Reqs :
          /\ Brought(semaphore'[r].m_errcode, r)
          /\ Brought(semaphore'[r].m_att_data, r)
          /\ semaphore'[r].m_errcode = 0 => semaphore'[r].count = 0 /\ semaphore'[r].m_att_data = 0
    BY <2>3, <2>4 DEF AnswersInv, FreshSem, Brought, Heard
  <2>6. \A u \in Threads :
          /\ pc'[u] = "errcode" => semaphore'[req'[u]].m_errcode # 0
          /\ pc'[u] = "attdata" => output'[req'[u]].m_errcode # 0
    BY <1>0, <2>2, <2>3 DEF AnswersInv
  <2> QED
    BY <2>1, <2>5, <2>6 DEF AnswersInv, Brought, Heard
<1>4. NoDanglingSemaphore'
  <2>1. handler'.at = "idle"
    BY DEF HandlerIdle
  <2>2. ASSUME NEW q \in m_map_semaphore'
        PROVE  \E u \in Callers : Waiting(u, q)'
    <3>1. q \in m_map_semaphore /\ m_session[q] # m_session[req[t]]
      BY <2>2, <1>0 DEF Under
    <3>2. PICK u \in Callers : Waiting(u, q)
      BY <3>1 DEF NoDanglingSemaphore
    <3>3. u # t
      BY <3>1, <3>2 DEF Waiting
    <3> QED
      BY <3>2, <3>3 DEF Waiting, Threads
  <2> QED
    BY <2>1, <2>2 DEF NoDanglingSemaphore, Under
<1>5. OutputBearsOwnSession'
  BY DEF OutputBearsOwnSession, Heard
<1>6. WaitersInv'
  <2>1. ASSUME NEW u \in Callers, (pc[u] = "wait")'
        PROVE  (req[u] \in m_map_semaphore \/ Shared(req[u]))'
    <3>1. u # t /\ pc[u] = "wait" /\ req'[u] = req[u] /\ req[u] \in Reqs
      BY <2>1, <1>0 DEF Threads
    <3>2. req[u] # req[t]
      BY <3>1, <1>0 DEF RequestsInv, Threads
    <3>3. CASE m_session[req[u]] = m_session[req[t]]
      BY <3>1, <3>2, <3>3, <1>0 DEF Shared
    <3>4. CASE m_session[req[u]] # m_session[req[t]]
      BY <3>1, <3>4 DEF WaitersInv, LostOnlyWhenShared, Heard, Shared, Under
    <3> QED
      BY <3>3, <3>4
  <2>2. \A r \in Reqs : answer'[r] = "waiting" => (Shared(r) \/ Heard(r) # m_session[r])'
    BY DEF WaitersInv, LostOnlyWhenShared, Heard, Shared
  <2> QED
    BY <2>1, <2>2 DEF WaitersInv, LostOnlyWhenShared, Heard
<1> QED
  BY <1>1, <1>2, <1>3, <1>4, <1>5, <1>6

\* An answer arrives: it is given to the semaphore registered under its id, or
\* it is dropped, and then its caller is not waiting or shares its id.
LEMMA ResponseSession ==
    ASSUME NEW r \in Reqs, TypeInv, SessionInv, HandleResponse(r)
    PROVE  SessionInv'
<1> USE DEF TypeInv, TypeOK, IndexInv, SessionInv, HandleResponse, threadVars
<1>0. /\ answer[r] = "none" /\ r <= nreq
      /\ nreq \in Nat /\ (\A q \in Reqs : q \in Nat /\ q # 0)
  BY ConstantsAssumption DEF IssuedInv, Reqs
<1>1. RequestsInv'
  BY DEF RequestsInv
<1>2. \A a, q \in Reqs : Brought(a, q) => Brought(a, q)'
  BY <1>0 DEF Brought, Heard, Answers
<1>3. OutputBearsOwnSession'
  BY <1>0 DEF OutputBearsOwnSession, Heard
<1>4. ASSUME NEW q \in Under(Heard(r)),
             semaphore' = [semaphore EXCEPT ![q].m_errcode = r],
             handler' = [at |-> "attdata", sem |-> q, resp |-> r],
             answer' = [answer EXCEPT ![r] = "found"]
      PROVE  IssuedInv' /\ AnswersInv' /\ NoDanglingSemaphore' /\ WaitersInv'
  <2>1. q \in Reqs /\ q \in m_map_semaphore /\ m_session[q] = Heard(r) /\ q <= nreq
    BY <1>4, <1>0 DEF Under, NoDanglingSemaphore, Waiting, RequestsInv, Threads
  <2>2. IssuedInv'
    BY <1>0, <1>4, <2>1 DEF IssuedInv, Bumping
  <2>3. Brought(r, q)'
    BY <1>4, <2>1 DEF Brought, Heard
  <2>4. AnswersInv'
    <3>1. \A p \in Reqs : p # q => semaphore'[p] = semaphore[p]
      BY <1>4, <2>1
    <3>2. /\ semaphore'[q].m_errcode = r
          /\ semaphore'[q].m_att_data = semaphore[q].m_att_data
      BY <1>4, <2>1
    <3>3. \A p \in Reqs : /\ Brought(semaphore[p].m_errcode, p)'
                          /\ Brought(semaphore[p].m_att_data, p)'
      BY <1>0, <1>2, <2>3, <3>1, <3>2 DEF AnswersInv, Brought, Heard
    <3>4. \A p \in Reqs : semaphore'[p].m_errcode = 0 =>
                             semaphore'[p].count = 0 /\ semaphore'[p].m_att_data = 0
      BY <1>0, <3>1, <3>2 DEF AnswersInv
    <3>5. \A t \in Threads :
             /\ pc'[t] = "errcode" => semaphore'[req'[t]].m_errcode # 0
             /\ pc'[t] = "attdata" => output'[req'[t]].m_errcode # 0
      BY <1>0, <3>1, <3>2 DEF AnswersInv
    <3> QED
      BY <1>0, <1>4, <2>3, <3>2, <3>3, <3>4, <3>5 DEF AnswersInv
  <2>5. NoDanglingSemaphore'
    BY <1>4, <2>1 DEF NoDanglingSemaphore, Waiting
  <2>6. WaitersInv'
    BY <1>4 DEF WaitersInv, LostOnlyWhenShared, Heard, Shared, Answers
  <2> QED
    BY <2>2, <2>4, <2>5, <2>6
<1>5. ASSUME Under(Heard(r)) = {}, answer' = [answer EXCEPT ![r] = Lost(r)],
             UNCHANGED <<semaphore, handler>>
      PROVE  IssuedInv' /\ AnswersInv' /\ NoDanglingSemaphore' /\ WaitersInv'
  <2>1. IssuedInv'
    BY <1>0, <1>5 DEF IssuedInv, Bumping
  <2>2. AnswersInv'
    BY <1>2, <1>5 DEF AnswersInv, Brought, Heard
  <2>3. NoDanglingSemaphore'
    BY <1>5 DEF NoDanglingSemaphore, Waiting
  <2>4. Lost(r) = "waiting" => Shared(r) \/ Heard(r) # m_session[r]
    BY <1>5 DEF Lost, WaitersInv, LostOnlyWhenShared, Heard, Under
  <2>5. WaitersInv'
    BY <1>5, <2>4 DEF WaitersInv, LostOnlyWhenShared, Heard, Shared
  <2> QED
    BY <2>1, <2>2, <2>3, <2>5
<1> QED
  BY <1>1, <1>3, <1>4, <1>5

LEMMA HandlerSession ==
    ASSUME TypeInv, SessionInv, HandlerAttData \/ HandlerPost
    PROVE  SessionInv'
<1> USE DEF TypeInv, TypeOK, IndexInv, SessionInv, threadVars, histVars
<1>0. /\ handler.sem \in Reqs /\ handler.resp \in Reqs /\ handler.sem <= nreq
      /\ nreq \in Nat /\ (\A q \in Reqs : q \in Nat /\ q # 0)
      /\ semaphore[handler.sem].m_errcode # 0 /\ Brought(handler.resp, handler.sem)
  BY ConstantsAssumption DEF AnswersInv, IssuedInv, FreshSem, Reqs, HandlerAttData, HandlerPost
<1>1. RequestsInv' /\ OutputBearsOwnSession' /\ WaitersInv'
  BY DEF RequestsInv, OutputBearsOwnSession, Heard, WaitersInv, LostOnlyWhenShared, Shared,
         HandlerAttData, HandlerPost
<1>2. IssuedInv'
  BY <1>0 DEF IssuedInv, Bumping, HandlerAttData, HandlerPost
<1>3. AnswersInv'
  <2>1. \A q \in Reqs : q # handler.sem => semaphore'[q] = semaphore[q]
    BY <1>0 DEF HandlerAttData, HandlerPost
  <2>2. /\ semaphore'[handler.sem].m_errcode = semaphore[handler.sem].m_errcode
        /\ semaphore'[handler.sem].m_att_data \in {semaphore[handler.sem].m_att_data, handler.resp}
    BY <1>0 DEF HandlerAttData, HandlerPost
  <2>3. \A q \in Reqs : /\ Brought(semaphore'[q].m_errcode, q)
                        /\ Brought(semaphore'[q].m_att_data, q)
                        /\ semaphore'[q].m_errcode = 0 =>
                              semaphore'[q].count = 0 /\ semaphore'[q].m_att_data = 0
    BY <1>0, <2>1, <2>2 DEF AnswersInv
  <2>4. \A t \in Threads : pc[t] = "errcode" => semaphore'[req[t]].m_errcode # 0
    BY <1>0, <2>1, <2>2 DEF AnswersInv
  <2>5. CASE HandlerAttData
    BY <1>0, <2>2, <2>3, <2>4, <2>5 DEF AnswersInv, Brought, Heard, HandlerAttData
  <2>6. CASE HandlerPost
    BY <2>3, <2>4, <2>6 DEF AnswersInv, Brought, Heard, HandlerPost, HandlerIdle
  <2> QED
    BY <2>5, <2>6
<1>4. NoDanglingSemaphore'
  BY DEF NoDanglingSemaphore, Waiting, HandlerAttData, HandlerPost, HandlerIdle
<1> QED
  BY <1>1, <1>2, <1>3, <1>4

LEMMA StutterSession == SessionInv /\ UNCHANGED vars => SessionInv'
BY DEF SessionInv, RequestsInv, IssuedInv, AnswersInv, Brought, Heard, NoDanglingSemaphore, Waiting,
   OutputBearsOwnSession, WaitersInv, LostOnlyWhenShared, Shared, vars, sharedVars, threadVars, histVars

\* One step of a thread, action by action.
LEMMA ThreadSession ==
    ASSUME NEW t \in Threads, TypeInv, SessionInv, ThreadStep(t)
    PROVE  SessionInv'
<1>1. ASSUME LoadId(t) \/ StoreId(t) \/ TestId(t) \/ WrapId(t) \/ Timeout(t)
      PROVE  SessionInv'
  <2>1. PICK l \in Bumping \cup {"send", "erase"} :
           /\ pc' = [pc EXCEPT ![t] = l]
           /\ l = "erase" => pc[t] = "wait"
           /\ l # "erase" => pc[t] \in Bumping
    BY <1>1 DEF LoadId, StoreId, TestId, WrapId, Timeout, Bumping
  <2>2. UNCHANGED <<req, kind, nreq, m_session, m_map_semaphore, semaphore,
                    output, server, handler, answer>>
    BY <1>1 DEF LoadId, StoreId, TestId, WrapId, Timeout, sharedVars, histVars
  <2> QED
    BY <2>1, <2>2, QuietStep
<1> QED
  BY <1>1, TakeIdSession, SendSession, InsertSession, WakeSession, CopySession, EraseSession
  DEF ThreadStep

LEMMA SessionInvariant == Spec => []SessionInv
<1>1. TypeInv /\ SessionInv /\ [Next]_vars => SessionInv'
  BY ThreadSession, ResponseSession, HandlerSession, StutterSession
  DEF Next, NetworkStep, Finished
<1> QED
  BY InitSession, <1>1, TypeInvariant, PTL DEF Spec

\* No semaphore outlives its call in m_map_semaphore, and the network thread
\* never fills one that is not registered any more.
THEOREM NothingDangles == Spec => []NoDanglingSemaphore
BY SessionInvariant, PTL DEF SessionInv

\* What a call gives back was brought by answers of its own session id.
THEOREM OutputsBearOwnSession == Spec => []OutputBearsOwnSession
BY SessionInvariant, PTL DEF SessionInv

\* An answer that finds its caller waiting is lost only if the id is shared.
THEOREM OnlySharedAreLost == Spec => []LostOnlyWhenShared
<1>1. SessionInv => LostOnlyWhenShared
  BY DEF SessionInv, WaitersInv, Shared, LostOnlyWhenShared, Heard
<1> QED
  BY <1>1, SessionInvariant, PTL

-----------------------------------------------------------------------------
(* Session ids do not come round early: while no two threads are inside    *)
(* the id block at once, any MaxId - 1 consecutive requests bear           *)
(* different ids, for every MaxId.                                         *)

\* The id that follows i.
Succ(i) == IF i + 1 >= MaxId THEN FirstId ELSE i + 1

\* At most one thread is inside the id block.
Alone == \A t, u \in Threads : pc[t] \in Bumping /\ pc[u] \in Bumping => t = u

\* The counter is one step behind or ahead of the last id given, according to
\* how far the thread inside the block has come.
CounterInv ==
    /\ nreq = 0 => s_req_id = FirstId /\ \A t \in Threads : pc[t] \notin Bumping
    /\ nreq > 0 =>
          /\ (\A t \in Threads : pc[t] \notin Bumping) => s_req_id = Succ(m_session[nreq])
          /\ \A t \in Threads :
                /\ pc[t] = "load" => s_req_id = m_session[nreq]
                /\ pc[t] = "store" => reg[t] = m_session[nreq]
                /\ pc[t] = "test" => s_req_id = m_session[nreq] + 1
                /\ pc[t] = "wrap" => s_req_id = m_session[nreq] + 1 /\ s_req_id >= MaxId

\* Requests d apart, with d less than a whole turn, have ids d apart, or d
\* less a turn.
ApartInv ==
    /\ \A r \in 1 .. nreq : m_session[r] \in 1 .. MaxId - 1
    /\ \A p, q \in 1 .. nreq : p < q /\ q - p < MaxId - 1 =>
          \/ m_session[q] - m_session[p] = q - p
          \/ m_session[q] - m_session[p] = q - p - (MaxId - 1)

IdsInv == ~ raced => Alone /\ CounterInv /\ ApartInv

LEMMA InitIds == Init => IdsInv
BY DEF Init, IdsInv, Alone, CounterInv, ApartInv, Bumping, FirstId

\* A new request: nobody else is in the block, so the counter is the successor
\* of the last id, and the distances to all earlier requests grow by one.
LEMMA TakeIdIds ==
    ASSUME NEW t \in Threads, NEW k \in CallKinds, TypeInv, IdsInv, TakeId(t, k)
    PROVE  IdsInv'
<1> SUFFICES ASSUME ~ raced' PROVE (Alone /\ CounterInv /\ ApartInv)'
  BY DEF IdsInv
<1> USE DEF TakeId, TypeInv, TypeOK
<1> DEFINE n == nreq + 1
<1>1. /\ ~ raced /\ \A u \in Threads : pc[u] \notin Bumping
      /\ Alone /\ CounterInv /\ ApartInv
  BY DEF IdsInv
<1>2. n \in Reqs /\ nreq \in Nat /\ n # 0 /\ nreq' = n /\ MaxId \in Nat /\ MaxId > 1
  BY ConstantsAssumption DEF Reqs
<1>3. /\ m_session'[n] = s_req_id
      /\ \A r \in 1 .. nreq : m_session'[r] = m_session[r] /\ r \in Reqs
  BY <1>2, ConstantsAssumption DEF Reqs
<1>4. s_req_id = IF nreq = 0 THEN 1 ELSE Succ(m_session[nreq])
  BY <1>1, <1>2 DEF CounterInv, FirstId
<1>5. /\ pc' = [pc EXCEPT ![t] = "load"] /\ pc \in [Threads -> Labels]
      /\ s_req_id' = s_req_id
  BY DEF sharedVars
<1>6. Alone'
  BY <1>1, <1>5 DEF Alone
<1>7. CounterInv'
  BY <1>1, <1>2, <1>3, <1>5 DEF CounterInv, Bumping
<1>8. ApartInv'
  <2>1. nreq > 0 => m_session[nreq] \in 1 .. MaxId - 1
    BY <1>1, <1>2 DEF ApartInv
  <2>2. s_req_id \in 1 .. MaxId - 1
    BY <1>2, <1>4, <2>1 DEF Succ, FirstId
  <2>3. \A r \in 1 .. nreq' : m_session'[r] \in 1 .. MaxId - 1
    BY <1>1, <1>2, <1>3, <2>2 DEF ApartInv
  <2>4. ASSUME NEW p \in 1 .. nreq, n - p < MaxId - 1
        PROVE  \/ m_session'[n] - m_session'[p] = n - p
               \/ m_session'[n] - m_session'[p] = n - p - (MaxId - 1)
    <3>1. /\ m_session[p] \in 1 .. MaxId - 1 /\ m_session[nreq] \in 1 .. MaxId - 1
          /\ m_session'[p] = m_session[p] /\ nreq > 0
      BY <1>1, <1>2, <1>3 DEF ApartInv
    <3>2. p < nreq => \/ m_session[nreq] - m_session[p] = nreq - p
                      \/ m_session[nreq] - m_session[p] = nreq - p - (MaxId - 1)
      BY <1>1, <1>2, <2>4 DEF ApartInv
    <3> HIDE DEF TakeId, TypeInv, TypeOK
    <3>3. p = nreq => m_session[p] = m_session[nreq]
      OBVIOUS
    <3>4. ASSUME NEW a \in 1 .. MaxId - 1, NEW b \in 1 .. MaxId - 1,
                 p = nreq => a = b,
                 p < nreq => b - a = nreq - p \/ b - a = nreq - p - (MaxId - 1)
          PROVE  \/ Succ(b) - a = nreq + 1 - p
                 \/ Succ(b) - a = nreq + 1 - p - (MaxId - 1)
      <4>1. CASE b + 1 >= MaxId
        <5>1. Succ(b) = 1 /\ b = MaxId - 1
          BY <1>2, <4>1 DEF Succ, FirstId
        <5>2. p < nreq => b - a = nreq - p
          BY <1>2, <2>4, <3>4, <5>1
        <5> QED
          BY <1>2, <2>4, <3>4, <5>1, <5>2
      <4>2. CASE ~ (b + 1 >= MaxId)
        <5>1. Succ(b) = b + 1
          BY <4>2 DEF Succ
        <5> QED
          BY <1>2, <2>4, <3>4, <5>1
      <4> QED
        BY <4>1, <4>2
    <3>5. \/ Succ(m_session[nreq]) - m_session[p] = nreq + 1 - p
          \/ Succ(m_session[nreq]) - m_session[p] = nreq + 1 - p - (MaxId - 1)
      BY <3>1, <3>2, <3>3, <3>4
    <3> QED
      BY <1>2, <1>3, <1>4, <3>1, <3>5
  <2>5. ASSUME NEW p \in 1 .. nreq, NEW q \in 1 .. nreq, p < q, q - p < MaxId - 1
        PROVE  \/ m_session'[q] - m_session'[p] = q - p
               \/ m_session'[q] - m_session'[p] = q - p - (MaxId - 1)
    BY <1>1, <1>3, <2>5 DEF ApartInv
  <2>6. \A p, q \in 1 .. nreq' : p < q => p \in 1 .. nreq /\ (q = n \/ q \in 1 .. nreq)
    BY <1>2
  <2> QED
    BY <2>3, <2>4, <2>5, <2>6 DEF ApartInv
<1> QED
  BY <1>6, <1>7, <1>8

\* The steps inside the block.
LEMMA BumpIds ==
    ASSUME NEW t \in Threads, TypeInv, IdsInv,
           LoadId(t) \/ StoreId(t) \/ TestId(t) \/ WrapId(t)
    PROVE  IdsInv'
<1> SUFFICES ASSUME ~ raced' PROVE (Alone /\ CounterInv /\ ApartInv)'
  BY DEF IdsInv
<1> USE DEF LoadId, StoreId, TestId, WrapId, TypeInv, TypeOK, sharedVars, histVars
<1>1. /\ Alone /\ CounterInv /\ ApartInv
      /\ UNCHANGED <<nreq, m_session>>
      /\ nreq \in Nat /\ MaxId \in Nat
      /\ pc[t] \in Bumping /\ nreq > 0
  BY ConstantsAssumption DEF IdsInv, CounterInv, Bumping
<1>2. \A u \in Threads : u # t => pc[u] \notin Bumping /\ pc'[u] = pc[u]
  BY <1>1 DEF Alone
<1>3. Alone'
  BY <1>2 DEF Alone
<1>4. ApartInv'
  BY <1>1 DEF ApartInv
<1>5. m_session[nreq] \in 1 .. MaxId - 1
  BY <1>1 DEF ApartInv
<1>6. CounterInv'
  <2>1. CASE LoadId(t)
    BY <1>1, <1>2, <2>1 DEF CounterInv, Bumping
  <2>2. CASE StoreId(t)
    BY <1>1, <1>2, <2>2 DEF CounterInv, Bumping
  <2>3. CASE TestId(t)
    BY <1>1, <1>2, <1>5, <2>3 DEF CounterInv, Bumping, Wraps, Succ
  <2>4. CASE WrapId(t)
    BY <1>1, <1>2, <1>5, <2>4 DEF CounterInv, Bumping, Succ
  <2> QED
    BY <2>1, <2>2, <2>3, <2>4
<1> QED
  BY <1>3, <1>4, <1>6

\* Nobody else touches the counter, an id, or the place of a thread in the block.
LEMMA OtherIds ==
    ASSUME IdsInv, TypeInv,
           UNCHANGED <<s_req_id, reg, nreq, m_session, raced>>,
           \A u \in Threads : (pc[u] \in Bumping \/ pc'[u] \in Bumping) => pc'[u] = pc[u]
    PROVE  IdsInv'
<1> SUFFICES ASSUME ~ raced' PROVE (Alone /\ CounterInv /\ ApartInv)'
  BY DEF IdsInv
<1>1. Alone /\ CounterInv /\ ApartInv
  BY DEF IdsInv
<1>2. Alone' /\ ApartInv'
  BY <1>1 DEF Alone, ApartInv
<1>3. CounterInv'
  BY <1>1 DEF CounterInv, Bumping
<1> QED
  BY <1>2, <1>3

LEMMA NextIds == TypeInv /\ IdsInv /\ [Next]_vars => IdsInv'
<1> SUFFICES ASSUME TypeInv, IdsInv, [Next]_vars PROVE IdsInv'
  OBVIOUS
<1>1. ASSUME NEW t \in Threads, ThreadStep(t) PROVE IdsInv'
  <2>1. CASE Send(t) \/ Insert(t) \/ Wake(t) \/ Timeout(t)
             \/ CopyErrcode(t) \/ CopyAttData(t) \/ Erase(t)
    <3>1. UNCHANGED <<s_req_id, reg, nreq, m_session, raced>>
      BY <2>1 DEF Send, Insert, Wake, Timeout, CopyErrcode, CopyAttData, Erase,
                  sharedVars, histVars
    <3>2. PICK l \in Labels \ Bumping :
             pc[t] \notin Bumping /\ pc' = [pc EXCEPT ![t] = l]
      BY <2>1 DEF Send, Insert, Wake, Timeout, CopyErrcode, CopyAttData, Erase,
                  Labels, Bumping
    <3>3. pc \in [Threads -> Labels]
      BY DEF TypeInv, TypeOK
    <3>4. \A u \in Threads : (pc[u] \in Bumping \/ pc'[u] \in Bumping) => pc'[u] = pc[u]
      BY <3>2, <3>3
    <3> QED
      BY <3>1, <3>4, OtherIds
  <2> QED
    BY <1>1, <2>1, TakeIdIds, BumpIds DEF ThreadStep
<1>2. ASSUME NetworkStep PROVE IdsInv'
  <2>1. UNCHANGED <<s_req_id, reg, nreq, m_session, raced, pc>>
    BY <1>2 DEF NetworkStep, HandleResponse, HandlerAttData, HandlerPost, threadVars, histVars
  <2> QED
    BY <2>1, OtherIds
<1>3. ASSUME UNCHANGED vars PROVE IdsInv'
  <2>1. UNCHANGED <<s_req_id, reg, nreq, m_session, raced, pc>>
    BY <1>3 DEF vars, sharedVars, threadVars, histVars
  <2> QED
    BY <2>1, OtherIds
<1> QED
  BY <1>1, <1>2, <1>3 DEF Next, Finished

\* The lock around the id counter does what its comment says as long as it is
\* not needed: without a race, ids are distinct for a whole turn of the counter.
THEOREM IdsDistinctInWindow == Spec => []DistinctInWindow
<1>1. Spec => []IdsInv
  BY InitIds, NextIds, TypeInvariant, PTL DEF Spec
<1>2. TypeInv /\ IdsInv => DistinctInWindow
  <2> SUFFICES ASSUME TypeInv, IdsInv, ~ raced,
                      NEW p \in 1 .. nreq, NEW q \in 1 .. nreq,
                      p < q, q - p < MaxId - 1
               PROVE  m_session[p] # m_session[q]
    BY DEF DistinctInWindow
  <2>1. nreq \in Nat /\ MaxId \in Nat
    BY ConstantsAssumption DEF TypeInv, TypeOK
  <2>2. m_session[p] \in 1 .. MaxId - 1 /\ m_session[q] \in 1 .. MaxId - 1
    BY DEF IdsInv, ApartInv
  <2> QED
    BY <2>1, <2>2 DEF IdsInv, ApartInv
<1> QED
  BY <1>1, <1>2, TypeInvariant, PTL

-----------------------------------------------------------------------------
(* The session layer implements SyncCall: with its locks, semaphores,      *)
(* handlers and interleaved copies, a call_xxx is a request that is        *)
(* opened, answered at most once, and closed with nothing or with what     *)
(* answers of its own session id brought.                                  *)

\* Is request r being made?
Open(r) == \E t \in Threads : req[t] = r

\* The mapping, request by request.
LEMMA PhaseOf ==
    ASSUME NEW r \in Reqs
    PROVE  /\ phase[r] = IF r > nreq THEN "none" ELSE IF Open(r) THEN "open" ELSE "closed"
           /\ phase'[r] = IF r > nreq' THEN "none" ELSE IF Open(r)' THEN "open" ELSE "closed"
           /\ result[r] = IF phase[r] = "closed" THEN output[r] ELSE NoOutput
           /\ result'[r] = IF phase'[r] = "closed" THEN output'[r] ELSE NoOutput
BY DEF phase, result, Open

LEMMA PhaseIsFunction ==
    /\ phase = [r \in Reqs |-> phase[r]]
    /\ phase' = [r \in Reqs |-> phase'[r]]
BY DEF phase

LEMMA InitRefines == Init => Sync!Init
<1> SUFFICES ASSUME Init PROVE Sync!Init
  OBVIOUS
<1>1. \A r \in Reqs : r > nreq
  BY ConstantsAssumption DEF Init, Reqs
<1>2. phase = [r \in Reqs |-> "none"]
  BY <1>1 DEF phase
<1>3. result = [r \in Reqs |-> NoOutput]
  BY <1>2 DEF result
<1>4. answered = {} /\ m_session = [r \in Reqs |-> 0]
  BY DEF answered, Init
<1> QED
  BY <1>2, <1>3, <1>4 DEF Sync!Init, Sync!Reqs, Reqs, Sync!NoResult, NoOutput

\* A step that gives out no request, returns from no call, handles no answer
\* and changes no output of a call that has returned is not seen.
LEMMA QuietRefines ==
    ASSUME UNCHANGED <<nreq, m_session, answer>>,
           \A r \in Reqs : Open(r)' <=> Open(r),
           \A r \in Reqs : r <= nreq /\ ~ Open(r) => output'[r] = output[r],
           nreq \in Nat
    PROVE  UNCHANGED Sync!vars
<1>1. phase' = phase
  BY DEF phase, Open
<1>2. \A r \in Reqs : phase[r] = "closed" => output'[r] = output[r]
  BY ConstantsAssumption, PhaseOf DEF Reqs
<1>3. result' = result
  BY <1>1, <1>2 DEF result
<1>4. answered' = answered
  BY DEF answered
<1> QED
  BY <1>1, <1>3, <1>4 DEF Sync!vars

\* TakeId opens the request.
LEMMA TakeIdRefines ==
    ASSUME NEW t \in Threads, NEW k \in CallKinds, TypeInv, SessionInv, TakeId(t, k)
    PROVE  \E r \in Reqs : Sync!Open(r)
<1> PICK n \in Reqs : n = nreq + 1
  BY ConstantsAssumption DEF TypeInv, TypeOK, TakeId, Reqs
<1>1. /\ nreq \in Nat /\ nreq' = n /\ \A r \in Reqs : r \in Nat /\ r # 0
      /\ s_req_id \in Nat /\ m_session \in [Reqs -> Nat] /\ req \in [Threads -> Reqs \cup {0}]
  BY ConstantsAssumption DEF TypeInv, TypeOK, TakeId, Reqs
<1>2. /\ m_session' = [m_session EXCEPT ![n] = s_req_id]
      /\ req' = [req EXCEPT ![t] = n]
      /\ UNCHANGED <<output, answer>>
      /\ req[t] = 0
  BY DEF TakeId, TypeInv, IndexInv
<1>3. \A u \in Threads : req[u] <= nreq
  BY DEF SessionInv, RequestsInv
<1>4. \A r \in Reqs : r # n => (Open(r)' <=> Open(r))
  BY <1>1, <1>2 DEF Open
<1>5. Open(n)' /\ ~ Open(n)
  BY <1>1, <1>2, <1>3 DEF Open
<1>6. \A r \in Reqs : phase'[r] = IF r = n THEN "open" ELSE phase[r]
  BY <1>1, <1>4, <1>5, PhaseOf
<1>7. phase[n] = "none" /\ phase' = [phase EXCEPT ![n] = "open"]
  BY <1>1, <1>6, PhaseOf, PhaseIsFunction
<1>8. result' = result
  BY <1>2, <1>6, <1>7 DEF result
<1>9. answered' = answered
  BY <1>2 DEF answered
<1>10. m_session'[n] \in Nat /\ m_session' = [m_session EXCEPT ![n] = m_session'[n]]
  BY <1>1, <1>2
<1> QED
  BY <1>1, <1>7, <1>8, <1>9, <1>10 DEF Sync!Open

\* A notify that was sent, and the end of a call, close the request: what the
\* outputs hold is what the abstract call may return.
LEMMA CloseRefines ==
    ASSUME NEW t \in Threads, TypeInv, SessionInv,
           Erase(t) \/ (Send(t) /\ kind[t] = "notify")
    PROVE  \E r \in Reqs : Sync!Close(r)
<1> PICK r \in Reqs : r = req[t]
  BY DEF TypeInv, TypeOK, IndexInv, Erase, Send
<1>0. /\ req[t] <= nreq
      /\ req \in [Threads -> Reqs \cup {0}]
      /\ output \in [Reqs -> [m_errcode : Reqs \cup {0}, m_att_data : Reqs \cup {0}]]
  BY DEF SessionInv, RequestsInv, TypeInv, TypeOK
<1>1. /\ r <= nreq /\ nreq \in Nat
      /\ \A q \in Reqs : q \in Nat /\ q # 0
  BY <1>0, ConstantsAssumption DEF TypeInv, TypeOK, Reqs
<1>2. /\ req' = [req EXCEPT ![t] = 0]
      /\ UNCHANGED <<output, nreq, m_session, answer>>
  BY DEF Erase, Send, histVars
<1>3. \A u \in Threads : u # t => req[u] # r
  BY <1>0, <1>1 DEF SessionInv, RequestsInv
<1>4. Open(r) /\ ~ Open(r)'
  BY <1>0, <1>1, <1>2, <1>3 DEF Open
<1>5. \A q \in Reqs : q # r => (Open(q)' <=> Open(q))
  BY <1>0, <1>1, <1>2 DEF Open
<1>6. \A q \in Reqs : phase'[q] = IF q = r THEN "closed" ELSE phase[q]
  BY <1>1, <1>2, <1>4, <1>5, PhaseOf
<1>7. phase[r] = "open" /\ phase' = [phase EXCEPT ![r] = "closed"]
  BY <1>1, <1>4, <1>6, PhaseOf, PhaseIsFunction
<1>8. result' = [result EXCEPT ![r] = output[r]]
  BY <1>1, <1>2, <1>6, <1>7 DEF result
<1>9. answered' = answered
  BY <1>2 DEF answered
<1> DEFINE e == output[r].m_errcode
           d == output[r].m_att_data
<1>10. output[r] = [m_errcode |-> e, m_att_data |-> d]
  BY <1>0
<1>11. \A a \in {e, d} : a = 0 \/ a \in Sync!Matching(r)
  <2>1. \A v : Sync!read_littleendian(v, Byte) = read_littleendian(v, Byte)
    BY DEF Sync!read_littleendian, read_littleendian
  <2> QED
    BY <1>0, <2>1 DEF SessionInv, OutputBearsOwnSession, Heard, Sync!Matching, answered
<1>12. e = 0 => d = 0
  BY <1>0 DEF SessionInv, OutputBearsOwnSession, Heard
<1> QED
  BY <1>1, <1>2, <1>7, <1>8, <1>9, <1>10, <1>11, <1>12 DEF Sync!Close

\* The network thread handles an answer: found, or dropped.
LEMMA AnswerRefines ==
    ASSUME NEW r \in Reqs, TypeInv, SessionInv, HandleResponse(r)
    PROVE  Sync!Answer(r)
<1>1. /\ UNCHANGED <<req, output, nreq, m_session>>
      /\ r \in server
      /\ \E v \in Answers \ {"none"} : answer' = [answer EXCEPT ![r] = v]
      /\ answer \in [Reqs -> Answers] /\ nreq \in Nat
  BY DEF HandleResponse, threadVars, Lost, Answers, TypeInv, TypeOK
<1>2. answer[r] = "none" /\ ~ (r > nreq)
  BY <1>1 DEF SessionInv, IssuedInv
<1>3. phase' = phase
  BY <1>1 DEF phase
<1>4. result' = result
  BY <1>1, <1>3 DEF result
<1>5. phase[r] # "none"
  BY <1>2, PhaseOf
<1>6. r \notin answered /\ answered' = answered \cup {r}
  BY <1>1, <1>2 DEF answered
<1> QED
  BY <1>1, <1>3, <1>4, <1>5, <1>6 DEF Sync!Answer

LEMMA StepRefines == TypeInv /\ SessionInv /\ [Next]_vars => [Sync!Next]_(Sync!vars)
<1> SUFFICES ASSUME TypeInv, SessionInv, [Next]_vars PROVE Sync!Next \/ UNCHANGED Sync!vars
  OBVIOUS
<1>0. nreq \in Nat /\ \A r \in Reqs : r \in Nat
  BY ConstantsAssumption DEF TypeInv, TypeOK, Reqs
<1>1. Sync!Reqs = Reqs
  BY DEF Sync!Reqs, Reqs
<1>2. ASSUME NEW t \in Threads, ThreadStep(t) PROVE Sync!Next \/ UNCHANGED Sync!vars
  <2>1. CASE LoadId(t) \/ StoreId(t) \/ TestId(t) \/ WrapId(t) \/ Insert(t) \/ Wake(t)
             \/ Timeout(t) \/ (Send(t) /\ kind[t] # "notify")
    <3>1. UNCHANGED <<req, output, nreq, m_session, answer>>
      BY <2>1 DEF LoadId, StoreId, TestId, WrapId, Insert, Wake, Timeout, Send, histVars
    <3> QED
      BY <1>0, <3>1, QuietRefines DEF Open
  <2>2. CASE CopyErrcode(t) \/ CopyAttData(t)
    <3>1. UNCHANGED <<req, nreq, m_session, answer>>
      BY <2>2 DEF CopyErrcode, CopyAttData, histVars
    <3>2. \A r \in Reqs : ~ Open(r) => output'[r] = output[r]
      BY <2>2 DEF CopyErrcode, CopyAttData, Open, TypeInv, TypeOK
    <3> QED
      BY <1>0, <3>1, <3>2, QuietRefines DEF Open
  <2>3. CASE Erase(t) \/ (Send(t) /\ kind[t] = "notify")
    BY <1>1, <2>3, CloseRefines DEF Sync!Next
  <2>4. CASE \E k \in CallKinds : TakeId(t, k)
    BY <1>1, <2>4, TakeIdRefines DEF Sync!Next
  <2> QED
    BY <1>2, <2>1, <2>2, <2>3, <2>4 DEF ThreadStep
<1>3. CASE \E r \in Reqs : HandleResponse(r)
  BY <1>1, <1>3, AnswerRefines DEF Sync!Next
<1>4. CASE HandlerAttData \/ HandlerPost \/ UNCHANGED vars
  <2>1. UNCHANGED <<req, output, nreq, m_session, answer>>
    BY <1>4 DEF HandlerAttData, HandlerPost, threadVars, histVars, vars
  <2> QED
    BY <1>0, <2>1, QuietRefines DEF Open
<1> QED
  BY <1>2, <1>3, <1>4 DEF Next, NetworkStep, Finished

\* The session layer implements the synchronous, blocking request and answer
\* that docs/architecture.md promises, as SyncCall states it.
THEOREM SessionImplementsSyncCall == Spec => ImplementsSyncCall
BY InitRefines, StepRefines, TypeInvariant, SessionInvariant, PTL
DEF Spec, ImplementsSyncCall, Sync!Spec
=============================================================================
