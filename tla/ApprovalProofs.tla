--------------------------- MODULE ApprovalProofs ---------------------------
(***************************************************************************)
(* Theorems about the approval service, for every set of workers, clients, *)
(* requests and events, every lifetime of a request and every clock bound. *)
(***************************************************************************)
EXTENDS Approval, TLAPS

-----------------------------------------------------------------------------
(* Type correctness                                                        *)

Pc == {"idle", "resolve", "duplicate", "lock", "clock", "decided", "commit"}

\* TypeOK in two parts: what the clients and what the workers change.
TablesOK ==
    /\ requests \in [Keys -> Request \cup {NoRow}]
    /\ decisions \subseteq Decision
    /\ now \in Nat
    /\ cpc \in [Clients -> {"idle", "insert"}]
    /\ want \in [Clients -> Want \cup {NoRow}]
    /\ \A c \in Clients :
          cpc[c] = "insert" \/ got[c] # "none" => want[c] \in Want
    /\ got \in [Clients -> {"none", "request", "key conflict"}]

WorkersOK ==
    /\ rowLock \in [Keys -> Workers \cup {Free}]
    /\ pc \in [Workers -> Pc]
    /\ event \in [Workers -> Events \cup {NoEvent}]
    /\ \A w \in Workers : pc[w] # "idle" => event[w] \in Events
    /\ actor \in [Workers -> Actor]
    /\ at \in [Workers -> Nat]
    /\ granted \in [Workers -> Nat]
    /\ answer \in [Workers -> Outcome]

\* TypeOK is the conjunction of its two parts, before and after a step.
LEMMA TypeParts == /\ TypeOK <=> TablesOK /\ WorkersOK
                   /\ TypeOK' <=> TablesOK' /\ WorkersOK'
  BY DEF TypeOK, TablesOK, WorkersOK, Pc

\* The components of an event that is being handled have their types.
LEMMA EventType ==
  ASSUME TypeOK, NEW w \in Workers, pc[w] # "idle"
  PROVE  /\ event[w] \in Events /\ event[w].request \in Keys
         /\ event[w].open \in OpenIds /\ event[w].id \in STRING
         /\ event[w].action \in {"approve", "reject", "wait"}
         /\ UserOf[event[w].open] \in Users \cup {NoRow}
<1>1. event[w] \in Event
  BY ApprovalConstants DEF TypeOK
<1>2. event[w].open \in OpenIds
  BY <1>1 DEF Event
<1>3. UserOf[event[w].open] \in Users \cup {NoRow}
  BY <1>2, ApprovalConstants
<1> QED BY <1>1, <1>3 DEF TypeOK, Event

\* The actor of a text command is a user without a mapping.
LEMMA NoActorType == NoActor \in Actor
  BY ApprovalConstants DEF NoActor, Actor

\* Closing a session keeps the types and drops its row locks only.
LEMMA AnswerType ==
  ASSUME TypeOK, NEW w \in Workers, NEW code \in Outcome, Answer(w, code)
  PROVE  /\ rowLock' \in [Keys -> Workers \cup {Free}]
         /\ pc' \in [Workers -> Pc] /\ answer' \in [Workers -> Outcome]
         /\ pc'[w] = "idle" /\ answer'[w] = code
         /\ \A v \in Workers \ {w} : pc'[v] = pc[v] /\ answer'[v] = answer[v]
         /\ \A k \in Keys : rowLock[k] # w => rowLock'[k] = rowLock[k]
         /\ \A v \in Workers : pc'[v] # "idle" => pc[v] # "idle"
  BY DEF Answer, TypeOK, Pc

\* Going on to the next statement keeps the types and the answers.
LEMMA GotoType ==
  ASSUME TypeOK, NEW w \in Workers, NEW label \in Pc, Goto(w, label)
  PROVE  /\ pc' \in [Workers -> Pc] /\ answer' \in [Workers -> Outcome]
         /\ pc'[w] = label
         /\ answer' = answer
         /\ \A v \in Workers \ {w} : pc'[v] = pc[v]
  BY DEF Goto, TypeOK, Pc

\* A new request is a row, and not the absence of one.
LEMMA NewRequestType ==
  ASSUME NEW b \in BOOLEAN, NEW u \in Users, NEW s \in Subjects, NEW t \in Nat
  PROVE  /\ NewRequest(b, u, s, t) \in Request
         /\ NewRequest(b, u, s, t) # NoRow
<1>1. t + Ttl \in Nat
  BY ApprovalConstants
<1> QED BY <1>1, ApprovalConstants DEF NewRequest, Request

\* The row a worker is about to insert is a decision.
LEMMA NewDecisionType ==
  ASSUME TypeOK, NEW w \in Workers, pc[w] = "commit"
  PROVE  NewDecision(w) \in Decision
  BY EventType DEF NewDecision, Decision, CodeOf, TypeOK

-----------------------------------------------------------------------------
(* What a step does to the tables                                          *)

\* A step of a client or of a deployment that binds its request: at most one
\* request is inserted, no worker moves.
LEMMA ClientStep ==
  ASSUME TypeOK,
         \/ \E c \in Clients : Create(c)
         \/ \E k \in Keys, u \in Users, s \in Subjects : BindRequest(k, u, s)
  PROVE  /\ TypeOK'
         /\ UNCHANGED <<decisions, now, workers>>
         /\ \/ UNCHANGED requests
            \/ \E k \in Keys : \E r \in Request :
                  /\ requests[k] = NoRow
                  /\ requests' = [requests EXCEPT ![k] = r]
<1>0. UNCHANGED workers => (WorkersOK => WorkersOK')
  BY DEF workers, locals, WorkersOK
<1>1. TablesOK /\ WorkersOK
  BY TypeParts
<1>2. ASSUME NEW c \in Clients, NEW k \in Keys, NEW u \in Users,
             NEW s \in Subjects, LookUpRequest(c, k, u, s)
      PROVE  TablesOK' /\ UNCHANGED <<requests, decisions, now, workers>>
  BY <1>1, <1>2 DEF LookUpRequest, TablesOK, tables, Want
<1>3. ASSUME NEW c \in Clients, InsertRequest(c) \/ ClientFails(c)
      PROVE  /\ TablesOK' /\ UNCHANGED <<decisions, now, workers>>
             /\ \/ UNCHANGED requests
                \/ \E k \in Keys : \E r \in Request :
                      /\ requests[k] = NoRow
                      /\ requests' = [requests EXCEPT ![k] = r]
  <2>1. /\ want[c] \in Want /\ want[c].key \in Keys
        /\ NewRequest(FALSE, want[c].user, want[c].subject, want[c].start)
              \in Request
    <3>1. want[c] \in Want
      BY <1>1, <1>3 DEF InsertRequest, ClientFails, TablesOK
    <3> QED BY <3>1, NewRequestType DEF Want
  <2>2. CASE InsertRequest(c)
    BY <1>1, <2>1, <2>2, ZenonT(40) DEF InsertRequest, TablesOK
  <2>3. CASE ClientFails(c)
    BY <1>1, <2>1, <2>3 DEF ClientFails, TablesOK
  <2> QED BY <1>3, <2>2, <2>3
<1>4. ASSUME NEW k \in Keys, NEW u \in Users, NEW s \in Subjects,
             BindRequest(k, u, s)
      PROVE  /\ TablesOK' /\ UNCHANGED <<decisions, now, workers>>
             /\ \E q \in Keys : \E r \in Request :
                   /\ requests[q] = NoRow
                   /\ requests' = [requests EXCEPT ![q] = r]
  <2>1. NewRequest(TRUE, u, s, now) \in Request
    BY <1>1, NewRequestType DEF TablesOK
  <2> QED BY <1>1, <1>4, <2>1 DEF BindRequest, TablesOK, clients
<1> QED BY <1>0, <1>1, <1>2, <1>3, <1>4, TypeParts DEF Create

-----------------------------------------------------------------------------
(* The inductive invariant                                                 *)

\* Between its FOR UPDATE and its COMMIT or ROLLBACK
InTransaction(w) == pc[w] \in {"clock", "decided", "commit"}


\* The row lock a transaction was granted is still its own, the row exists,
\* and the check of the actor made then still holds.
OwnsRowLock(w) ==
    InTransaction(w) =>
        /\ rowLock[event[w].request] = w
        /\ requests[event[w].request] # NoRow
        /\ ~Forbidden(w)

\* The clock was read after the lock was granted and before the expiry.
ClockInOrder(w) ==
    /\ pc[w] = "clock" => granted[w] <= now
    /\ pc[w] \in {"decided", "commit"} =>
          /\ granted[w] <= at[w] /\ at[w] <= now
          /\ at[w] < requests[event[w].request].expires

\* What was found undecided under the row lock is undecided at the COMMIT.
UndecidedAtCommit(w) ==
    pc[w] = "commit" =>
        /\ event[w].action # "wait"
        /\ \A d \in decisions : d.request # event[w].request

WorkerSafe(w) == OwnsRowLock(w) /\ ClockInOrder(w) /\ UndecidedAtCommit(w)

DecisionsHaveRequests == \A d \in decisions : requests[d.request] # NoRow

TableSafe == /\ DecisionsHaveRequests
             /\ OneDecision /\ SeparationOfDuties /\ NoLateDecision

Inv == /\ TypeOK
       /\ \A w \in Workers : WorkerSafe(w)
       /\ TableSafe
       /\ AnswersTruthful
       /\ KeyMeansContent

\* The invariant holds in the initial state.
LEMMA InitInv == Init => Inv
<1> SUFFICES ASSUME Init PROVE Inv
  OBVIOUS
<1>1. TypeOK
  BY NoActorType DEF Init, TypeOK, Outcome
<1>2. \A w \in Workers : WorkerSafe(w)
  BY DEF Init, WorkerSafe, OwnsRowLock, ClockInOrder, UndecidedAtCommit,
         InTransaction
<1>3. TableSafe
  BY DEF Init, TableSafe, DecisionsHaveRequests, OneDecision,
         SeparationOfDuties, NoLateDecision
<1>4. AnswersTruthful /\ KeyMeansContent
  BY DEF Init, AnswersTruthful, KeyMeansContent
<1> QED BY <1>1, <1>2, <1>3, <1>4 DEF Inv

-----------------------------------------------------------------------------
(* Requests never change, and what was decided about them stays decided.   *)

\* A step that inserts at most one new request keeps everything that was
\* established about the requests there were.
LEMMA ClientsPreserve ==
  ASSUME Inv,
         \/ \E c \in Clients : Create(c)
         \/ \E k \in Keys, u \in Users, s \in Subjects : BindRequest(k, u, s)
  PROVE  Inv'
<1>1. TypeOK /\ TypeOK' /\ UNCHANGED <<decisions, now, workers>>
  BY ClientStep DEF Inv
<1>2. \A k \in Keys : requests[k] # NoRow => requests'[k] = requests[k]
  <2>1. CASE UNCHANGED requests
    BY <2>1
  <2>2. ASSUME NEW k \in Keys, NEW r \in Request, requests[k] = NoRow,
               requests' = [requests EXCEPT ![k] = r]
        PROVE  \A q \in Keys : requests[q] # NoRow => requests'[q] = requests[q]
    BY <1>1, <2>2 DEF TypeOK
  <2> QED BY <2>1, <2>2, ClientStep DEF Inv
<1>3. ASSUME NEW w \in Workers PROVE WorkerSafe(w)'
  <2>1. pc[w] # "idle" => event[w].request \in Keys
    BY <1>1, EventType
  <2> QED BY <1>1, <1>2, <2>1 DEF Inv, WorkerSafe, OwnsRowLock, ClockInOrder,
             UndecidedAtCommit, InTransaction, Forbidden, workers, locals
<1>4. TableSafe'
  <2>1. \A d \in decisions : d.request \in Keys
    BY <1>1 DEF TypeOK, Decision
  <2> QED BY <1>1, <1>2, <2>1 DEF Inv, TableSafe, DecisionsHaveRequests,
             OneDecision, SeparationOfDuties, NoLateDecision
<1>5. AnswersTruthful'
  BY <1>1 DEF Inv, AnswersTruthful, workers, locals, CodeOf
<1>6. KeyMeansContent'
  <2> SUFFICES ASSUME NEW c \in Clients, got'[c] = "request"
               PROVE  /\ requests'[want'[c].key] # NoRow
                      /\ Matches(requests'[want'[c].key], want'[c])
    BY DEF KeyMeansContent, Matches
  <2>0. \A k \in Keys : requests[k] \in Request \cup {NoRow}
    BY <1>1 DEF TypeOK
  <2>1. CASE UNCHANGED <<want, got>>
    <3>1. want[c].key \in Keys
      BY <1>1, <2>1 DEF TypeOK, Want
    <3> QED BY <1>1, <1>2, <2>1, <3>1 DEF Inv, KeyMeansContent
  <2>2. ASSUME NEW b \in Clients, NEW k \in Keys, NEW u \in Users,
               NEW s \in Subjects, LookUpRequest(b, k, u, s)
        PROVE  /\ requests'[want'[c].key] # NoRow
               /\ Matches(requests'[want'[c].key], want'[c])
    <3>1. CASE b = c
      BY <1>1, <2>2, <3>1, ZenonT(40)
         DEF LookUpRequest, TypeOK, tables, Matches
    <3>2. CASE b # c
      BY <1>1, <2>2, <3>2, ZenonT(40)
         DEF LookUpRequest, TypeOK, tables, Inv, KeyMeansContent
    <3> QED BY <3>1, <3>2
  <2>3. ASSUME NEW b \in Clients, InsertRequest(b)
        PROVE  /\ requests'[want'[c].key] # NoRow
               /\ Matches(requests'[want'[c].key], want'[c])
    <3>0. UNCHANGED want /\ got'[c] = IF b = c THEN got'[b] ELSE got[c]
      BY <1>1, <2>3, ZenonT(40) DEF InsertRequest, TypeOK
    <3>1. CASE b = c
      <4>1. want[c] \in Want
        BY <1>1, <2>3, <3>1 DEF InsertRequest, TypeOK
      <4>2. NewRequest(FALSE, want[c].user, want[c].subject, want[c].start)
               # NoRow
        BY <4>1, NewRequestType DEF Want
      <4>3. CASE requests[want[c].key] = NoRow
        <5>1. requests'[want[c].key] =
                 NewRequest(FALSE, want[c].user, want[c].subject, want[c].start)
          BY <1>1, <2>3, <3>1, <4>1, <4>3, ZenonT(40)
             DEF InsertRequest, TypeOK, Want
        <5> QED BY <3>0, <4>1, <4>2, <5>1 DEF NewRequest, Matches
      <4>4. CASE requests[want[c].key] # NoRow
        <5>1. Matches(requests[want[c].key], want[c]) /\ UNCHANGED requests
          BY <1>1, <2>3, <3>1, <4>4, ZenonT(40) DEF InsertRequest, TypeOK
        <5> QED BY <3>0, <4>4, <5>1
      <4> QED BY <4>3, <4>4
    <3>2. CASE b # c
      <4>1. got[c] = "request" /\ want[c].key \in Keys
        BY <1>1, <3>0, <3>2 DEF TypeOK, Want
      <4> QED BY <1>2, <3>0, <4>1 DEF Inv, KeyMeansContent
    <3> QED BY <3>1, <3>2
  <2>4. ASSUME NEW b \in Clients, ClientFails(b)
        PROVE  UNCHANGED <<want, got>>
    BY <2>4 DEF ClientFails
  <2>5. ASSUME NEW k \in Keys, NEW u \in Users, NEW s \in Subjects,
               BindRequest(k, u, s)
        PROVE  UNCHANGED <<want, got>>
    BY <2>5 DEF BindRequest, clients
  <2> QED BY <2>1, <2>2, <2>3, <2>4, <2>5 DEF Create
<1> QED BY <1>1, <1>3, <1>4, <1>5, <1>6 DEF Inv

-----------------------------------------------------------------------------
(* Steps of a worker                                                       *)

\* What worker w leaves alone when it takes a step: the other workers and
\* the row locks they have.
OthersUntouched(w) ==
    /\ \A v \in Workers \ {w} :
          /\ pc'[v] = pc[v] /\ event'[v] = event[v] /\ actor'[v] = actor[v]
          /\ at'[v] = at[v] /\ granted'[v] = granted[v]
          /\ answer'[v] = answer[v]
    /\ \A k \in Keys : rowLock[k] \in Workers \ {w} => rowLock'[k] = rowLock[k]

\* A step of one worker that leaves the tables alone preserves the invariant
\* when it does so for the worker itself.
LEMMA OneWorker ==
  ASSUME Inv, WorkersOK', NEW w \in Workers, OthersUntouched(w),
         UNCHANGED <<tables, now, clients>>, WorkerSafe(w)',
         answer'[w] \notin {"recorded", "duplicate"} \/ AnswersTruthful'
  PROVE  Inv'
<1>1. TypeOK /\ TypeOK'
  BY TypeParts DEF Inv, TablesOK, tables, clients
<1>2. ASSUME NEW v \in Workers, v # w PROVE WorkerSafe(v)'
  <2>1. pc[v] # "idle" => event[v].request \in Keys
    BY <1>1, EventType
  <2> QED BY <1>1, <1>2, <2>1 DEF Inv, WorkerSafe, OwnsRowLock, ClockInOrder,
             UndecidedAtCommit, InTransaction, Forbidden, OthersUntouched,
             tables
<1>3. TableSafe' /\ KeyMeansContent'
  BY DEF Inv, TableSafe, DecisionsHaveRequests, OneDecision,
     SeparationOfDuties, NoLateDecision, KeyMeansContent, Matches, tables,
     clients
<1>4. AnswersTruthful'
  BY DEF Inv, AnswersTruthful, OthersUntouched, tables, CodeOf
<1> QED BY <1>1, <1>2, <1>3, <1>4 DEF Inv

\* A worker that closes its session without a decision; its locals may change.
LEMMA SessionEnds ==
  ASSUME Inv, NEW w \in Workers, NEW code \in Outcome, Answer(w, code),
         code \notin {"recorded", "duplicate"} \/
            (event' = event /\ AnswersTruthful'),
         event' \in [Workers -> Events \cup {NoEvent}],
         actor' \in [Workers -> Actor], at' \in [Workers -> Nat],
         granted' \in [Workers -> Nat],
         \A v \in Workers \ {w} :
            /\ event'[v] = event[v] /\ actor'[v] = actor[v]
            /\ at'[v] = at[v] /\ granted'[v] = granted[v],
         UNCHANGED <<tables, now, clients>>
  PROVE  Inv'
<1>1. TypeOK
  BY DEF Inv
<1>2. WorkersOK' /\ OthersUntouched(w)
  <2>1. /\ rowLock' \in [Keys -> Workers \cup {Free}]
        /\ pc' \in [Workers -> Pc] /\ answer' \in [Workers -> Outcome]
        /\ pc'[w] = "idle"
        /\ \A v \in Workers \ {w} : pc'[v] = pc[v] /\ answer'[v] = answer[v]
        /\ \A k \in Keys : rowLock[k] # w => rowLock'[k] = rowLock[k]
    BY <1>1, AnswerType
  <2>2. \A v \in Workers : pc'[v] # "idle" => event'[v] \in Events
    BY <1>1, <2>1 DEF TypeOK
  <2> QED BY <2>1, <2>2 DEF WorkersOK, OthersUntouched
<1>3. WorkerSafe(w)'
  BY <1>1, AnswerType DEF WorkerSafe, OwnsRowLock, ClockInOrder,
     UndecidedAtCommit, InTransaction
<1>4. answer'[w] = code
  BY <1>1, AnswerType
<1> QED BY <1>2, <1>3, <1>4, OneWorker

\* The same when only the session is closed.
LEMMA SessionEndsQuietly ==
  ASSUME Inv, NEW w \in Workers, NEW code \in Outcome, Answer(w, code),
         code \notin {"recorded", "duplicate"},
         UNCHANGED <<tables, now, locals, clients>>
  PROVE  Inv'
<1>1. TypeOK
  BY DEF Inv
<1>2. /\ event' \in [Workers -> Events \cup {NoEvent}]
      /\ actor' \in [Workers -> Actor] /\ at' \in [Workers -> Nat]
      /\ granted' \in [Workers -> Nat]
  BY <1>1 DEF TypeOK, locals
<1> QED BY <1>2, SessionEnds DEF locals

\* A worker that is not in a transaction yet goes on with its locals.
LEMMA GoesOnWithoutLock ==
  ASSUME Inv, NEW w \in Workers, pc[w] # "idle",
         NEW label \in {"resolve", "duplicate", "lock"}, Goto(w, label),
         actor' \in [Workers -> Actor],
         \A v \in Workers \ {w} : actor'[v] = actor[v],
         UNCHANGED <<tables, now, clients, rowLock, event, at, granted>>
  PROVE  Inv'
<1>1. TypeOK
  BY DEF Inv
<1>2. WorkersOK' /\ OthersUntouched(w)
  BY <1>1, GotoType, ZenonT(60) DEF WorkersOK, OthersUntouched, TypeOK, Pc
<1>3. WorkerSafe(w)'
  BY <1>1, GotoType DEF WorkerSafe, OwnsRowLock, ClockInOrder,
     UndecidedAtCommit, InTransaction, Pc
<1>4. AnswersTruthful'
  BY <1>1, GotoType DEF Inv, AnswersTruthful, tables, CodeOf, Pc
<1> QED BY <1>2, <1>3, <1>4, OneWorker

\* A delivery begins with fresh locals and without a row lock.
LEMMA ReceivePreserves ==
  ASSUME Inv, NEW w \in Workers, NEW e \in Events, Receive(w, e)
  PROVE  Inv'
<1>1. TypeOK
  BY DEF Inv
<1>2. /\ event' \in [Workers -> Events \cup {NoEvent}]
      /\ actor' \in [Workers -> Actor] /\ at' \in [Workers -> Nat]
      /\ granted' \in [Workers -> Nat]
      /\ event'[w] = e
      /\ \A v \in Workers \ {w} :
            /\ event'[v] = event[v] /\ actor'[v] = actor[v]
            /\ at'[v] = at[v] /\ granted'[v] = granted[v]
      /\ UNCHANGED <<tables, now, clients>>
  BY <1>1, NoActorType DEF Receive, TypeOK
<1>3. CASE Answer(w, "unauthorized")
  BY <1>2, <1>3, SessionEnds DEF Outcome
<1>4. ASSUME NEW label \in {"resolve", "duplicate"},
             pc' = [pc EXCEPT ![w] = label],
             answer' = [answer EXCEPT ![w] = "none"], UNCHANGED rowLock
      PROVE  Inv'
  <2>1. WorkersOK' /\ OthersUntouched(w)
    BY <1>1, <1>2, <1>4 DEF WorkersOK, OthersUntouched, TypeOK, Pc, Outcome
  <2>2. WorkerSafe(w)' /\ answer'[w] = "none"
    BY <1>1, <1>4 DEF WorkerSafe, OwnsRowLock, ClockInOrder,
       UndecidedAtCommit, InTransaction, TypeOK
  <2> QED BY <1>2, <2>1, <2>2, OneWorker
<1> QED BY <1>3, <1>4 DEF Receive

\* handle_card_action resolves the operator or ends the session.
LEMMA ResolvePreserves ==
  ASSUME Inv, NEW w \in Workers, ResolveActor(w)
  PROVE  Inv'
<1>1. TypeOK /\ pc[w] = "resolve"
  BY DEF Inv, ResolveActor
<1>2. UserOf[event[w].open] \in Users \cup {NoRow}
  BY <1>1, EventType
<1>3. /\ actor' \in [Workers -> Actor]
      /\ \A v \in Workers \ {w} : actor'[v] = actor[v]
  <2>1. CASE UNCHANGED actor
    BY <1>1, <2>1 DEF TypeOK
  <2>2. ASSUME NEW a \in Actor, actor' = [actor EXCEPT ![w] = a]
        PROVE  /\ actor' \in [Workers -> Actor]
               /\ \A v \in Workers \ {w} : actor'[v] = actor[v]
    BY <1>1, <2>2 DEF TypeOK
  <2>3. UserOf[event[w].open] # NoRow =>
          [user |-> UserOf[event[w].open], mapped |-> TRUE] \in Actor
    BY <1>2 DEF Actor
  <2> QED BY <2>1, <2>2, <2>3, NoActorType DEF ResolveActor
<1>4. /\ event' \in [Workers -> Events \cup {NoEvent}]
      /\ at' \in [Workers -> Nat] /\ granted' \in [Workers -> Nat]
      /\ UNCHANGED <<tables, now, clients, event, at, granted>>
  BY <1>1 DEF ResolveActor, TypeOK
<1>5. \/ Answer(w, "malformed") \/ Answer(w, "unauthorized")
      \/ Goto(w, "lock") /\ UNCHANGED rowLock
      \/ Goto(w, "duplicate") /\ UNCHANGED rowLock
  BY DEF ResolveActor
<1>6. CASE Answer(w, "malformed") \/ Answer(w, "unauthorized")
  BY <1>3, <1>4, <1>6, SessionEnds DEF Outcome
<1>7. CASE Goto(w, "lock") /\ UNCHANGED rowLock
  BY <1>1, <1>3, <1>4, <1>7, GoesOnWithoutLock
<1>8. CASE Goto(w, "duplicate") /\ UNCHANGED rowLock
  BY <1>1, <1>3, <1>4, <1>8, GoesOnWithoutLock
<1> QED BY <1>5, <1>6, <1>7, <1>8

\* A redelivery is answered from the decision that is in the table.
LEMMA DuplicatePreserves ==
  ASSUME Inv, NEW w \in Workers, CheckDuplicate(w)
  PROVE  Inv'
<1>1. /\ TypeOK /\ pc[w] = "duplicate"
      /\ UNCHANGED <<tables, now, locals, clients>>
  BY DEF Inv, CheckDuplicate
<1>2. /\ actor' \in [Workers -> Actor]
      /\ event' \in [Workers -> Events \cup {NoEvent}]
      /\ at' \in [Workers -> Nat] /\ granted' \in [Workers -> Nat]
      /\ UNCHANGED <<event, actor, at, granted>>
  BY <1>1 DEF TypeOK, locals
<1>3. CASE Goto(w, "lock") /\ UNCHANGED rowLock
  BY <1>1, <1>2, <1>3, GoesOnWithoutLock
<1>4. CASE Answer(w, "event_conflict")
  BY <1>1, <1>4, SessionEndsQuietly DEF Outcome
<1>5. ASSUME NEW d \in decisions, d.event = event[w].id,
             MatchingDuplicate(d, w), Answer(w, "duplicate")
      PROVE  Inv'
  <2>1. AnswersTruthful'
    <3>1. \A v \in Workers \ {w} : answer'[v] = answer[v]
      BY <1>1, <1>5, AnswerType DEF Outcome
    <3> QED BY <1>1, <1>2, <1>5, <3>1 DEF Inv, AnswersTruthful, tables,
               MatchingDuplicate, CodeOf
  <2> QED BY <1>1, <1>2, <1>5, <2>1, SessionEnds DEF Outcome
<1> QED BY <1>3, <1>4, <1>5 DEF CheckDuplicate

\* A granted row lock starts a transaction on an existing request by an
\* actor who may decide.
LEMMA LockPreserves ==
  ASSUME Inv, NEW w \in Workers, LockRequest(w)
  PROVE  Inv'
<1>1. /\ TypeOK /\ pc[w] = "lock"
      /\ UNCHANGED <<tables, now, event, actor, at, clients>>
  BY DEF Inv, LockRequest
<1>2. CASE (Answer(w, "unknown_request") \/ Answer(w, "unauthorized"))
           /\ UNCHANGED granted
  BY <1>1, <1>2, SessionEndsQuietly DEF Outcome, locals
<1>3. ASSUME requests[event[w].request] # NoRow,
             rowLock[event[w].request] = Free, ~Forbidden(w),
             rowLock' = [rowLock EXCEPT ![event[w].request] = w],
             granted' = [granted EXCEPT ![w] = now], Goto(w, "clock")
      PROVE  Inv'
  <2>1. event[w].request \in Keys /\ event[w] \in Events
    BY <1>1, EventType
  <2>2. /\ pc' \in [Workers -> Pc] /\ answer' = answer /\ pc'[w] = "clock"
        /\ \A v \in Workers \ {w} : pc'[v] = pc[v]
    BY <1>1, <1>3, GotoType DEF Pc
  <2>3. WorkersOK'
    BY <1>1, <1>3, <2>1, <2>2 DEF WorkersOK, TypeOK
  <2>4. OthersUntouched(w)
    BY <1>1, <1>3, <2>1, <2>2, ApprovalConstants DEF OthersUntouched, TypeOK
  <2>5. WorkerSafe(w)'
    <3>1. Forbidden(w)' <=> Forbidden(w)
      BY <1>1 DEF Forbidden, tables
    <3>2. /\ rowLock'[event[w].request] = w /\ granted'[w] = now
          /\ UNCHANGED <<now, requests, event>>
      BY <1>1, <1>3, <2>1 DEF TypeOK, tables
    <3>3. now \in Nat /\ now <= now
      <4>1. now \in Nat
        BY <1>1 DEF TypeOK
      <4> QED BY <4>1
    <3> QED BY <1>3, <2>2, <3>1, <3>2, <3>3 DEF WorkerSafe, OwnsRowLock,
               ClockInOrder, UndecidedAtCommit, InTransaction
  <2>6. AnswersTruthful'
    BY <1>1, <2>2 DEF Inv, AnswersTruthful, tables, CodeOf
  <2> QED BY <1>1, <2>3, <2>4, <2>5, <2>6, OneWorker
<1> QED BY <1>2, <1>3 DEF LockRequest

\* The clock is read under the row lock and compared with the expiry.
LEMMA ClockPreserves ==
  ASSUME Inv, NEW w \in Workers, ReadClock(w)
  PROVE  Inv'
<1>1. /\ TypeOK /\ pc[w] = "clock" /\ at' = [at EXCEPT ![w] = now]
      /\ UNCHANGED <<tables, now, event, actor, granted, clients>>
  BY DEF Inv, ReadClock
<1>2. /\ actor' \in [Workers -> Actor]
      /\ event' \in [Workers -> Events \cup {NoEvent}]
      /\ at' \in [Workers -> Nat] /\ granted' \in [Workers -> Nat]
      /\ at'[w] = now /\ \A v \in Workers \ {w} : at'[v] = at[v]
  BY <1>1 DEF TypeOK
<1>3. CASE Answer(w, "expired")
  BY <1>1, <1>2, <1>3, SessionEnds DEF Outcome
<1>4. ASSUME ~(now >= requests[event[w].request].expires),
             Goto(w, "decided"), UNCHANGED rowLock
      PROVE  Inv'
  <2>1. event[w].request \in Keys /\ event[w] \in Events
    BY <1>1, EventType
  <2>2. /\ pc' \in [Workers -> Pc] /\ answer' = answer /\ pc'[w] = "decided"
        /\ \A v \in Workers \ {w} : pc'[v] = pc[v]
    BY <1>1, <1>4, GotoType DEF Pc
  <2>3. WorkersOK' /\ OthersUntouched(w)
    BY <1>1, <1>2, <1>4, <2>1, <2>2 DEF WorkersOK, OthersUntouched, TypeOK
  <2>4. OwnsRowLock(w) /\ granted[w] <= now /\ now <= now
    <3>1. OwnsRowLock(w) /\ granted[w] <= now
      BY <1>1 DEF Inv, WorkerSafe, ClockInOrder
    <3>2. now \in Nat
      BY <1>1 DEF TypeOK
    <3> QED BY <3>1, <3>2
  <2>5. now < requests[event[w].request].expires
    <3>1. requests[event[w].request] # NoRow
      BY <1>1, <2>4 DEF OwnsRowLock, InTransaction
    <3>2. requests[event[w].request] \in Request
      BY <1>1, <2>1, <3>1 DEF TypeOK
    <3>3. requests[event[w].request].expires \in Nat /\ now \in Nat
      BY <1>1, <3>2 DEF Request, TypeOK
    <3> QED BY <1>4, <3>3
  <2>6. WorkerSafe(w)'
    <3>1. Forbidden(w)' <=> Forbidden(w)
      BY <1>1 DEF Forbidden, tables
    <3>2. OwnsRowLock(w)'
      BY <1>1, <1>4, <2>4, <3>1 DEF OwnsRowLock, InTransaction, tables
    <3>3. ClockInOrder(w)'
      BY <1>1, <1>2, <2>2, <2>4, <2>5 DEF ClockInOrder, tables
    <3> QED BY <2>2, <3>2, <3>3 DEF WorkerSafe, UndecidedAtCommit
  <2>7. AnswersTruthful'
    BY <1>1, <2>2 DEF Inv, AnswersTruthful, tables, CodeOf
  <2> QED BY <1>1, <2>3, <2>6, <2>7, OneWorker
<1> QED BY <1>3, <1>4 DEF ReadClock

\* Whether the request is decided is looked up under the row lock.
LEMMA DecidedPreserves ==
  ASSUME Inv, NEW w \in Workers, CheckDecided(w)
  PROVE  Inv'
<1>1. /\ TypeOK /\ pc[w] = "decided"
      /\ UNCHANGED <<tables, now, locals, clients>>
  BY DEF Inv, CheckDecided
<1>2. CASE Answer(w, "already_decided") \/ Answer(w, "waiting")
  BY <1>1, <1>2, SessionEndsQuietly DEF Outcome
<1>3. ASSUME \A d \in decisions : d.request # event[w].request,
             event[w].action # "wait", Goto(w, "commit"), UNCHANGED rowLock
      PROVE  Inv'
  <2>1. event[w].request \in Keys /\ event[w] \in Events
    BY <1>1, EventType
  <2>2. /\ pc' \in [Workers -> Pc] /\ answer' = answer /\ pc'[w] = "commit"
        /\ \A v \in Workers \ {w} : pc'[v] = pc[v]
    BY <1>1, <1>3, GotoType DEF Pc
  <2>3. WorkersOK' /\ OthersUntouched(w)
    BY <1>1, <1>3, <2>1, <2>2 DEF WorkersOK, OthersUntouched, TypeOK, locals
  <2>4. WorkerSafe(w)'
    BY <1>1, <1>3, <2>2 DEF Inv, WorkerSafe, OwnsRowLock, ClockInOrder,
       UndecidedAtCommit, InTransaction, Forbidden, tables, locals
  <2>5. AnswersTruthful'
    BY <1>1, <2>2 DEF Inv, AnswersTruthful, tables, locals, CodeOf
  <2> QED BY <1>1, <2>3, <2>4, <2>5, OneWorker
<1> QED BY <1>2, <1>3 DEF CheckDecided

\* An inserted decision is the first of its request and of its event, made in
\* time by somebody who may; and the row lock keeps the other workers that
\* are about to commit away from its request.
LEMMA DecisionInserted ==
  ASSUME Inv, NEW w \in Workers, pc[w] = "commit", ~UniqueViolation(w),
         decisions' = decisions \cup {NewDecision(w)},
         NEW code \in {"recorded", "unavailable"}, Answer(w, code),
         UNCHANGED <<requests, now, locals, clients>>
  PROVE  Inv'
<1>1. /\ TypeOK /\ event[w].request \in Keys /\ event[w] \in Events
      /\ NewDecision(w) \in Decision
  BY EventType, NewDecisionType DEF Inv
<1>2. /\ rowLock' \in [Keys -> Workers \cup {Free}]
      /\ pc' \in [Workers -> Pc] /\ answer' \in [Workers -> Outcome]
      /\ pc'[w] = "idle" /\ answer'[w] = code
      /\ \A v \in Workers \ {w} : pc'[v] = pc[v] /\ answer'[v] = answer[v]
      /\ \A k \in Keys : rowLock[k] # w => rowLock'[k] = rowLock[k]
      /\ \A v \in Workers : pc'[v] # "idle" => pc[v] # "idle"
  BY <1>1, AnswerType DEF Outcome
<1>3. TypeOK'
  BY <1>1, <1>2 DEF TypeOK, Pc, locals, clients
<1>4. /\ rowLock[event[w].request] = w /\ requests[event[w].request] # NoRow
      /\ ~Forbidden(w) /\ event[w].action # "wait"
      /\ granted[w] <= at[w] /\ at[w] < requests[event[w].request].expires
  BY DEF Inv, WorkerSafe, OwnsRowLock, ClockInOrder, UndecidedAtCommit,
     InTransaction
<1>5. ASSUME NEW v \in Workers PROVE WorkerSafe(v)'
  <2>1. CASE v = w
    BY <1>2, <2>1 DEF WorkerSafe, OwnsRowLock, ClockInOrder,
       UndecidedAtCommit, InTransaction
  <2>2. CASE v # w
    <3>1. pc'[v] = pc[v] /\ WorkerSafe(v)
      BY <1>2, <2>2 DEF Inv
    <3>2. /\ InTransaction(v)' <=> InTransaction(v)
          /\ Forbidden(v)' <=> Forbidden(v)
      BY <3>1 DEF InTransaction, Forbidden, locals
    <3>3. InTransaction(v) =>
             /\ event[v].request \in Keys
             /\ rowLock'[event[v].request] = rowLock[event[v].request]
             /\ event[v].request # event[w].request
      BY <1>1, <1>2, <1>4, <2>2, <3>1, EventType DEF WorkerSafe, OwnsRowLock,
         InTransaction
    <3>4. OwnsRowLock(v)' /\ ClockInOrder(v)'
      BY <3>1, <3>2, <3>3 DEF WorkerSafe, OwnsRowLock, ClockInOrder, locals
    <3>5. UndecidedAtCommit(v)'
      BY <3>1, <3>3 DEF WorkerSafe, UndecidedAtCommit, InTransaction,
         NewDecision, locals
    <3> QED BY <3>4, <3>5 DEF WorkerSafe
  <2> QED BY <2>1, <2>2
<1>6. TableSafe'
  <2>1. DecisionsHaveRequests'
    BY <1>4 DEF Inv, TableSafe, DecisionsHaveRequests, NewDecision
  <2>2. OneDecision'
    BY DEF Inv, TableSafe, OneDecision, UniqueViolation, NewDecision
  <2>3. SeparationOfDuties'
    BY <1>4 DEF Inv, TableSafe, SeparationOfDuties, Forbidden, NewDecision
  <2>4. NoLateDecision'
    BY <1>4 DEF Inv, TableSafe, NoLateDecision, NewDecision
  <2> QED BY <2>1, <2>2, <2>3, <2>4 DEF TableSafe
<1>7. AnswersTruthful'
  <2>1. /\ UNCHANGED event
        /\ \A v \in Workers : CodeOf(event[v])' = CodeOf(event[v])
    BY DEF locals, CodeOf
  <2>2. /\ NewDecision(w) \in decisions'
        /\ NewDecision(w).event = event[w].id
        /\ NewDecision(w).request = event[w].request
        /\ NewDecision(w).code = CodeOf(event[w])
        /\ NewDecision(w).open = event[w].open
    BY DEF NewDecision
  <2> SUFFICES ASSUME NEW v \in Workers,
                      answer'[v] \in {"recorded", "duplicate"}
               PROVE  \E d \in decisions' :
                         /\ d.event = event[v].id
                         /\ d.request = event[v].request
                         /\ d.code = CodeOf(event[v])
                         /\ d.open = event[v].open
    BY <2>1 DEF AnswersTruthful
  <2>3. CASE v = w
    BY <2>2, <2>3
  <2>4. CASE v # w
    BY <1>2, <2>4 DEF Inv, AnswersTruthful
  <2> QED BY <2>3, <2>4
<1>8. KeyMeansContent'
  BY DEF Inv, KeyMeansContent, Matches, clients
<1> QED BY <1>3, <1>5, <1>6, <1>7, <1>8 DEF Inv

\* A commit inserts the decision or leaves the table alone, whatever the
\* worker gets to know of it.
LEMMA CommitPreserves ==
  ASSUME Inv, NEW w \in Workers, CommitDecision(w) \/ CommitLost(w)
  PROVE  Inv'
<1>1. /\ pc[w] = "commit"
      /\ UNCHANGED <<requests, now, locals, clients>>
  BY DEF CommitDecision, CommitLost
<1>2. CASE (Answer(w, "conflict") \/ Answer(w, "unavailable"))
           /\ UNCHANGED decisions
  BY <1>1, <1>2, SessionEndsQuietly DEF Outcome, tables
<1>3. ASSUME ~UniqueViolation(w),
             decisions' = decisions \cup {NewDecision(w)},
             Answer(w, "recorded") \/ Answer(w, "unavailable")
      PROVE  Inv'
  BY <1>1, <1>3, DecisionInserted
<1> QED BY <1>2, <1>3 DEF CommitDecision, CommitLost

\* A failed statement or a dead worker only closes the session.
LEMMA FailPreserves ==
  ASSUME Inv, NEW w \in Workers, StatementFails(w) \/ WorkerDies(w)
  PROVE  Inv'
  BY SessionEndsQuietly DEF StatementFails, WorkerDies, Outcome

\* Time passes: nothing that was in time becomes late.
LEMMA TickPreserves == ASSUME Inv, Tick PROVE Inv'
<1>1. TypeOK /\ TypeOK' /\ now \in Nat /\ now' = now + 1
      /\ UNCHANGED <<tables, workers, clients>>
  <2>1. TypeOK /\ now \in Nat /\ now' = now + 1
    BY DEF Inv, Tick, TypeOK
  <2>2. now' \in Nat
    BY <2>1
  <2> QED BY <2>1, <2>2 DEF Tick, TypeOK, tables, workers, locals, clients
<1>2. ASSUME NEW w \in Workers PROVE WorkerSafe(w)'
  <2>1. Forbidden(w)' <=> Forbidden(w)
    BY <1>1 DEF Forbidden, tables, workers, locals
  <2>2. granted[w] \in Nat /\ at[w] \in Nat
    BY <1>1 DEF TypeOK
  <2>3. ClockInOrder(w)'
    BY <1>1, <2>2 DEF Inv, WorkerSafe, ClockInOrder, tables, workers, locals
  <2>4. OwnsRowLock(w)' /\ UndecidedAtCommit(w)'
    BY <1>1, <2>1 DEF Inv, WorkerSafe, OwnsRowLock, UndecidedAtCommit,
       InTransaction, tables, workers, locals
  <2> QED BY <2>3, <2>4 DEF WorkerSafe
<1>3. TableSafe' /\ AnswersTruthful' /\ KeyMeansContent'
  BY DEF Inv, Tick, TableSafe, DecisionsHaveRequests, OneDecision,
     SeparationOfDuties, NoLateDecision, AnswersTruthful, CodeOf,
     KeyMeansContent, Matches, tables, workers, locals, clients
<1> QED BY <1>1, <1>2, <1>3 DEF Inv

\* Every step preserves the invariant.
LEMMA NextInv == Inv /\ [Next]_vars => Inv'
<1> SUFFICES ASSUME Inv, [Next]_vars PROVE Inv'
  OBVIOUS
<1>1. CASE UNCHANGED vars
  <2>1. UNCHANGED <<tables, workers, now, clients>>
    BY <1>1 DEF vars
  <2>2. TypeOK'
    BY <2>1 DEF Inv, TypeOK, tables, workers, locals, clients
  <2>3. ASSUME NEW w \in Workers PROVE WorkerSafe(w)'
    BY <2>1 DEF Inv, WorkerSafe, OwnsRowLock, ClockInOrder,
       UndecidedAtCommit, InTransaction, Forbidden, tables, workers, locals
  <2>4. TableSafe' /\ AnswersTruthful'
    BY <2>1 DEF Inv, TableSafe, DecisionsHaveRequests, OneDecision,
       SeparationOfDuties, NoLateDecision, AnswersTruthful, CodeOf, tables,
       workers, locals
  <2>5. KeyMeansContent'
    BY <2>1 DEF Inv, KeyMeansContent, Matches, tables, clients
  <2> QED BY <2>2, <2>3, <2>4, <2>5 DEF Inv
<1>2. CASE Next
  BY <1>2, ReceivePreserves, ResolvePreserves, DuplicatePreserves,
     LockPreserves, ClockPreserves, DecidedPreserves, CommitPreserves,
     FailPreserves, ClientsPreserve, TickPreserves
     DEF Next, Handle, Fail
<1> QED BY <1>1, <1>2

\* The invariant holds in every reachable state.
LEMMA Invariant == Spec => []Inv
  BY InitInv, NextInv, PTL DEF Spec

-----------------------------------------------------------------------------
(* Theorems                                                                *)

\* Every variable of the approval service keeps its type.
THEOREM TypeCorrect == Spec => []TypeOK
  BY Invariant, PTL DEF Inv

\* No request and no Feishu event ever has two decisions
\* (record_approval_decision and the constraints of approval_decisions).
THEOREM DecidedOnce == Spec => []OneDecision
  BY Invariant, PTL DEF Inv, TableSafe

\* Only a resolved person who is not the requester decides on a deployment:
\* the check made under the row lock still holds at the commit.
THEOREM DutiesSeparated == Spec => []SeparationOfDuties
  BY Invariant, PTL DEF Inv, TableSafe

\* A decision is made before the expiry of its request by a clock that was
\* read after the row lock was granted.
THEOREM DecidedInTime == Spec => []NoLateDecision
  BY Invariant, PTL DEF Inv, TableSafe

\* "recorded" and "duplicate" are only answered when the decision of the
\* event is in the table.
THEOREM AnsweredTruthfully == Spec => []AnswersTruthful
  BY Invariant, PTL DEF Inv

\* create_approval_request never gives a client somebody else's request.
THEOREM KeysIdentifyContent == Spec => []KeyMeansContent
  BY Invariant, PTL DEF Inv

\* The row lock alone serialises the decisions on one request: no two
\* handlers are between FOR UPDATE and COMMIT for it, and one that gets to
\* its INSERT finds no decision on it, so that only the constraint on the
\* event id can still refuse the row.
RowLockSerialises ==
    /\ \A v, w \in Workers :
          /\ InTransaction(v) /\ InTransaction(w)
          /\ event[v].request = event[w].request
          => v = w
    /\ \A w \in Workers : pc[w] = "commit" =>
          \A d \in decisions : d.request # event[w].request

\* FOR UPDATE in record_approval_decision serialises the decisions on a
\* request; its unique constraint is a second line of defence.
THEOREM RowLockSuffices == Spec => []RowLockSerialises
<1>1. Inv => RowLockSerialises
  BY DEF Inv, WorkerSafe, OwnsRowLock, UndecidedAtCommit, RowLockSerialises
<1> QED BY <1>1, Invariant, PTL

-----------------------------------------------------------------------------
(* The abstract specification                                              *)

\* A decision is what the abstract specification sees of its request.
LEMMA DecisionSeen ==
  ASSUME OneDecision, NEW d \in decisions
  PROVE  DecisionOf(d.request) =
            [code |-> d.code, user |-> d.actor.user, at |-> d.at]
<1>1. (CHOOSE e \in decisions : e.request = d.request) = d
  BY DEF OneDecision
<1> QED BY <1>1 DEF DecisionOf

\* Without a row the abstract request is undecided.
LEMMA NoDecisionSeen ==
  ASSUME NEW k, \A d \in decisions : d.request # k
  PROVE  DecisionOf(k) = NoRow
  BY DEF DecisionOf

\* An inserted row is one abstract decision.
LEMMA DecisionSimulated ==
  ASSUME Inv, Inv', NEW w \in Workers, pc[w] = "commit", ~UniqueViolation(w),
         decisions' = decisions \cup {NewDecision(w)},
         UNCHANGED <<requests, now>>
  PROVE  Authority!Next
<1> DEFINE k == event[w].request
           d == NewDecision(w)
           Seen == [q \in Keys |-> DecisionOf(q)]
<1>1. TypeOK /\ k \in Keys /\ d \in Decision
  BY EventType, NewDecisionType DEF Inv
<1>2. d.request = k /\ d.at = at[w] /\ d.actor = actor[w]
  BY DEF NewDecision
<1>3. Seen[k] = NoRow
  BY <1>1, NoDecisionSeen DEF UniqueViolation
<1>4. Seen'[k] = [code |-> d.code, user |-> d.actor.user, at |-> d.at]
  <2>1. OneDecision' /\ d \in decisions'
    BY DEF Inv, TableSafe
  <2>2. (CHOOSE e \in decisions' : e.request = k) = d
    BY <1>2, <2>1 DEF OneDecision
  <2> QED BY <1>1, <1>2, <2>1, <2>2 DEF DecisionOf
<1>5. ASSUME NEW q \in Keys, q # k PROVE Seen'[q] = Seen[q]
  <2>1. CASE \E e \in decisions : e.request = q
    <3>1. PICK e \in decisions : e.request = q
      BY <2>1
    <3>2. (CHOOSE x \in decisions : x.request = q) = e
      BY <3>1 DEF Inv, TableSafe, OneDecision
    <3>3. (CHOOSE x \in decisions' : x.request = q) = e
      BY <3>1 DEF Inv, TableSafe, OneDecision
    <3> QED BY <3>1, <3>2, <3>3 DEF DecisionOf
  <2>2. CASE \A e \in decisions : e.request # q
    <3>1. \A e \in decisions' : e.request # q
      BY <1>2, <1>5, <2>2
    <3> QED BY <2>2, <3>1 DEF DecisionOf
  <2> QED BY <2>1, <2>2
<1>6. Seen' = [Seen EXCEPT ![k] = Seen'[k]]
  BY <1>5
<1>7. /\ requests[k] # NoRow /\ ~Forbidden(w) /\ event[w].action # "wait"
      /\ at[w] <= now /\ at[w] < requests[k].expires
  BY DEF Inv, WorkerSafe, OwnsRowLock, ClockInOrder, UndecidedAtCommit,
     InTransaction
<1>8. Seen'[k] \in Authority!Decision
  BY <1>1, <1>4 DEF Authority!Decision, Decision, Actor
<1>9. requests[k].bound => actor[w].user # requests[k].user
  BY <1>7 DEF Forbidden
<1>10. Authority!Decide(k)
  BY <1>2, <1>3, <1>4, <1>6, <1>7, <1>8, <1>9 DEF Authority!Decide
<1> QED BY <1>1, <1>10 DEF Authority!Next

\* Every step of a worker is a decision or changes no table.
LEMMA WorkerTables ==
  ASSUME NEW w \in Workers,
         (\E e \in Events : Receive(w, e)) \/ Handle(w) \/ Fail(w)
  PROVE  /\ UNCHANGED <<requests, now>>
         /\ \/ UNCHANGED decisions
            \/ /\ pc[w] = "commit" /\ ~UniqueViolation(w)
               /\ decisions' = decisions \cup {NewDecision(w)}
  BY DEF Handle, Fail, Receive, ResolveActor, CheckDuplicate, LockRequest,
     ReadClock, CheckDecided, CommitDecision, CommitLost, StatementFails,
     WorkerDies, tables

\* Concurrent, failing and redelivered handling implements the approval
\* authority: every step is an abstract step or changes nothing it can see.
THEOREM Refinement == Spec => ImplementsAuthority
<1>1. Init => Authority!Init
  BY DEF Init, Authority!Init, DecisionOf
<1>2. Inv /\ Inv' /\ [Next]_vars => [Authority!Next]_(Authority!vars)
  <2> SUFFICES ASSUME Inv, Inv', [Next]_vars
               PROVE  Authority!Next \/ UNCHANGED Authority!vars
    OBVIOUS
  <2>1. CASE UNCHANGED tables /\ UNCHANGED now
    BY <2>1 DEF Authority!vars, tables, DecisionOf
  <2>2. CASE UNCHANGED vars
    BY <2>1, <2>2 DEF vars
  <2>3. ASSUME NEW w \in Workers,
               (\E e \in Events : Receive(w, e)) \/ Handle(w) \/ Fail(w)
        PROVE  Authority!Next \/ UNCHANGED Authority!vars
    BY <2>1, <2>3, WorkerTables, DecisionSimulated DEF tables
  <2>4. CASE \/ \E c \in Clients : Create(c)
             \/ \E k \in Keys, u \in Users, s \in Subjects :
                   BindRequest(k, u, s)
    <3>1. TypeOK /\ UNCHANGED <<decisions, now>>
      BY <2>4, ClientStep DEF Inv
    <3>2. ASSUME NEW k \in Keys, NEW r \in Request, requests[k] = NoRow,
                 requests' = [requests EXCEPT ![k] = r]
          PROVE  Authority!Next
      <4>1. requests'[k] = r
        BY <3>1, <3>2 DEF TypeOK
      <4>2. Authority!Open(k)
        BY <3>1, <3>2, <4>1 DEF Authority!Open, Authority!Request, Request,
           DecisionOf
      <4> QED BY <4>2 DEF Authority!Next
    <3> QED BY <2>1, <2>4, <3>1, <3>2, ClientStep DEF Inv, tables
  <2>5. CASE Tick
    BY <2>5 DEF Tick, Authority!Next, Authority!Tick, tables, DecisionOf
  <2> QED BY <2>2, <2>3, <2>4, <2>5 DEF Next
<1> QED BY <1>1, <1>2, Invariant, PTL
           DEF Spec, ImplementsAuthority, Authority!Spec
=============================================================================
