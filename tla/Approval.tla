------------------------------ MODULE Approval ------------------------------
(***************************************************************************)
(* Approval requests and decisions (app/services/approval_service.py) as   *)
(* the Feishu worker (app/feishu_worker.py) and the supervision CLI use    *)
(* them on one PostgreSQL database under READ COMMITTED.                   *)
(*                                                                         *)
(* Feishu delivers an event any number of times and in any order; every    *)
(* delivery is handled by a worker in its own session.  A worker may die   *)
(* between two statements and any statement may fail: the session is       *)
(* closed and its row lock is gone.                                        *)
(***************************************************************************)
EXTENDS Naturals

CONSTANTS
    Workers,        \* concurrent event handlers
    Clients,        \* concurrent processes that create requests
    Keys,           \* idempotency keys; a request is identified with its key
    Users,          \* canonical users
    Subjects,       \* action, repository, pull request, SHA, environment
    OpenIds,        \* Feishu accounts
    Approvers,      \* approver_open_ids of the settings
    UserOf,         \* resolve_feishu_principal: account -> user or NoRow
    DefaultUser,    \* settings.default_user_id
    Events,         \* the events Feishu may deliver
    Ttl,            \* lifetime of a request in clock ticks
    MaxTime,        \* bound: the clock stops here
    NoRow,          \* absence of a database row or of a mapping
    Free            \* owner of a row lock nobody holds

Event == [id : STRING, via : {"text", "card"},
          action : {"approve", "reject", "wait"},
          request : Keys, open : OpenIds]

Request == [bound : BOOLEAN, user : Users, subject : Subjects, expires : Nat]

ASSUME ApprovalConstants ==
    /\ Approvers \subseteq OpenIds
    /\ UserOf \in [OpenIds -> Users \cup {NoRow}]
    /\ DefaultUser \in Users
    /\ Events \subseteq Event
    /\ Ttl \in Nat \ {0} /\ MaxTime \in Nat
    /\ Free \notin Workers
    /\ NoRow \notin Users \cup Request

VARIABLES
    requests,   \* table approval_requests
    decisions,  \* table approval_decisions
    now,        \* clock_timestamp()
    rowLock,    \* FOR UPDATE locks on approval_requests
    pc,         \* where each worker is
    event,      \* the event it handles, or handled last
    actor,      \* actor_user_id and whether a mapping was resolved
    at,         \* database_now it read
    granted,    \* history: when it got its row lock
    answer,     \* outcome it answered last
    cpc,        \* where each client is
    want,       \* what it asks for: key, user, subject, transaction start
    got         \* what create_approval_request returned to it

tables  == <<requests, decisions>>
locals  == <<event, actor, at, granted>>
workers == <<rowLock, pc, locals, answer>>
clients == <<cpc, want, got>>
vars    == <<tables, now, workers, clients>>

-----------------------------------------------------------------------------
(* Data                                                                    *)

Actor == [user : Users, mapped : BOOLEAN]

Decision == [request : Keys, code : {"approved", "rejected"}, actor : Actor,
             open : OpenIds, event : STRING, at : Nat, granted : Nat]

Want == [key : Keys, user : Users, subject : Subjects, start : Nat]

Outcome == {"none", "malformed", "unauthorized", "unknown_request", "expired",
            "already_decided", "event_conflict", "conflict", "unavailable",
            "duplicate", "recorded", "waiting"}

NoEvent == NoRow
NoActor == [user |-> DefaultUser, mapped |-> FALSE]

TypeOK ==
    /\ requests \in [Keys -> Request \cup {NoRow}]
    /\ decisions \subseteq Decision
    /\ now \in Nat
    /\ rowLock \in [Keys -> Workers \cup {Free}]
    /\ pc \in [Workers -> {"idle", "resolve", "duplicate", "lock", "clock",
                           "decided", "commit"}]
    /\ event \in [Workers -> Events \cup {NoEvent}]
    /\ \A w \in Workers : pc[w] # "idle" => event[w] \in Events
    /\ actor \in [Workers -> Actor]
    /\ at \in [Workers -> Nat]
    /\ granted \in [Workers -> Nat]
    /\ answer \in [Workers -> Outcome]
    /\ cpc \in [Clients -> {"idle", "insert"}]
    /\ want \in [Clients -> Want \cup {NoRow}]
    /\ \A c \in Clients :
          cpc[c] = "insert" \/ got[c] # "none" => want[c] \in Want
    /\ got \in [Clients -> {"none", "request", "key conflict"}]

Init ==
    /\ requests = [k \in Keys |-> NoRow]
    /\ decisions = {}
    /\ now = 0
    /\ rowLock = [k \in Keys |-> Free]
    /\ pc = [w \in Workers |-> "idle"]
    /\ event = [w \in Workers |-> NoEvent]
    /\ actor = [w \in Workers |-> NoActor]
    /\ at = [w \in Workers |-> 0]
    /\ granted = [w \in Workers |-> 0]
    /\ answer = [w \in Workers |-> "none"]
    /\ cpc = [c \in Clients |-> "idle"]
    /\ want = [c \in Clients |-> NoRow]
    /\ got = [c \in Clients |-> "none"]

-----------------------------------------------------------------------------
(* create_approval_request() and create_bound_production_approval()        *)

\* require_matching(): the idempotency key alone does not identify a request;
\* whether the request is bound to a deployment is not compared.
Matches(r, x) == r.user = x.user /\ r.subject = x.subject

\* The first SELECT also fixes CURRENT_TIMESTAMP for the transaction.
LookUpRequest(c, k, u, s) ==
    /\ cpc[c] = "idle"
    /\ LET x == [key |-> k, user |-> u, subject |-> s, start |-> now] IN
       /\ want' = [want EXCEPT ![c] = x]
       /\ \/ /\ requests[k] = NoRow
             /\ cpc' = [cpc EXCEPT ![c] = "insert"]
             /\ got' = [got EXCEPT ![c] = "none"]
          \/ /\ requests[k] # NoRow
             /\ got' = [got EXCEPT ![c] =
                    IF Matches(requests[k], x) THEN "request"
                                               ELSE "key conflict"]
             /\ UNCHANGED cpc
    /\ UNCHANGED <<tables, now, workers>>

NewRequest(bound, u, s, start) ==
    [bound |-> bound, user |-> u, subject |-> s, expires |-> start + Ttl]

\* Mutant: the request that won the race is returned unseen.
InsertRequest_NoRecheck(c) ==
    /\ cpc[c] = "insert"
    /\ LET x == want[c] IN
          requests' = IF requests[x.key] = NoRow
              THEN [requests EXCEPT ![x.key] =
                       NewRequest(FALSE, x.user, x.subject, x.start)]
              ELSE requests
    /\ got' = [got EXCEPT ![c] = "request"]
    /\ cpc' = [cpc EXCEPT ![c] = "idle"]
    /\ UNCHANGED <<decisions, now, workers, want>>

\* INSERT and COMMIT; when another client was faster the unique constraint
\* on the key fails and the other request is compared instead.
InsertRequest(c) ==
    /\ cpc[c] = "insert"
    /\ LET x == want[c] IN
       \/ /\ requests[x.key] = NoRow
          /\ requests' = [requests EXCEPT ![x.key] =
                             NewRequest(FALSE, x.user, x.subject, x.start)]
          /\ got' = [got EXCEPT ![c] = "request"]
       \/ /\ requests[x.key] # NoRow
          /\ got' = [got EXCEPT ![c] =
                 IF Matches(requests[x.key], x) THEN "request"
                                                ELSE "key conflict"]
          /\ UNCHANGED requests
    /\ cpc' = [cpc EXCEPT ![c] = "idle"]
    /\ UNCHANGED <<decisions, now, workers, want>>

\* The client dies, or its connection is lost before or after the commit
\* was applied.
ClientFails(c) ==
    /\ cpc[c] = "insert"
    /\ cpc' = [cpc EXCEPT ![c] = "idle"]
    /\ LET x == want[c] IN
       \/ UNCHANGED requests
       \/ /\ requests[x.key] = NoRow
          /\ requests' = [requests EXCEPT ![x.key] =
                             NewRequest(FALSE, x.user, x.subject, x.start)]
    /\ UNCHANGED <<decisions, now, workers, want, got>>

\* The request of a deployment: refused when the key is taken, by a request
\* that was there before or by the unique constraint.
BindRequest(k, u, s) ==
    /\ requests[k] = NoRow
    /\ requests' = [requests EXCEPT ![k] = NewRequest(TRUE, u, s, now)]
    /\ UNCHANGED <<decisions, now, workers, clients>>

-----------------------------------------------------------------------------
(* handle_message(), handle_card_action(), process_approval_...()          *)

Goto(w, label) ==
    /\ pc' = [pc EXCEPT ![w] = label]
    /\ UNCHANGED answer

\* The outcome is answered and the session closed, which ends its
\* transaction and drops its row lock.
Answer(w, code) ==
    /\ pc' = [pc EXCEPT ![w] = "idle"]
    /\ answer' = [answer EXCEPT ![w] = code]
    /\ rowLock' = [k \in Keys |-> IF rowLock[k] = w THEN Free ELSE rowLock[k]]

\* authorize_feishu_message and the approver list
Authorized(e) == e.open \in Approvers

\* A text command acts as the default user, without a resolved mapping.
Receive(w, e) ==
    /\ pc[w] = "idle"
    /\ event' = [event EXCEPT ![w] = e]
    /\ actor' = [actor EXCEPT ![w] = NoActor]
    /\ at' = [at EXCEPT ![w] = 0]
    /\ granted' = [granted EXCEPT ![w] = 0]
    /\ \/ /\ e.via = "card"
          /\ pc' = [pc EXCEPT ![w] = "resolve"]
          /\ answer' = [answer EXCEPT ![w] = "none"]
          /\ UNCHANGED rowLock
       \/ /\ e.via = "text" /\ Authorized(e)
          /\ pc' = [pc EXCEPT ![w] = "duplicate"]
          /\ answer' = [answer EXCEPT ![w] = "none"]
          /\ UNCHANGED rowLock
       \/ /\ e.via = "text" /\ ~Authorized(e)
          /\ Answer(w, "unauthorized")
    /\ UNCHANGED <<tables, now, clients>>

\* The card handler looks at the request, without a lock, to see whether
\* the operator's identity has to be resolved.
ResolveActor(w) ==
    /\ pc[w] = "resolve"
    /\ LET e == event[w]
           r == requests[e.request]
           bound == r # NoRow /\ r.bound IN
       \/ /\ bound /\ UserOf[e.open] = NoRow
          /\ Answer(w, "malformed")
          /\ UNCHANGED actor
       \/ /\ ~bound \/ UserOf[e.open] # NoRow
          /\ actor' = [actor EXCEPT ![w] =
                 IF bound THEN [user |-> UserOf[e.open], mapped |-> TRUE]
                          ELSE NoActor]
          /\ \/ /\ ~Authorized(e)
                /\ Answer(w, "unauthorized")
             \/ /\ Authorized(e)
                /\ Goto(w, IF e.action = "wait" THEN "lock" ELSE "duplicate")
                /\ UNCHANGED rowLock
    /\ UNCHANGED <<tables, now, event, at, granted, clients>>

-----------------------------------------------------------------------------
(* record_approval_decision() and inspect_pending_approval_request()       *)

CodeOf(e) == IF e.action = "approve" THEN "approved" ELSE "rejected"

\* Mutant: a decision with this event id is taken for a redelivery.
MatchingDuplicate_AnyContent(d, w) == TRUE

\* _matching_duplicate()
MatchingDuplicate(d, w) ==
    /\ d.request = event[w].request
    /\ d.code = CodeOf(event[w])
    /\ d.actor.user = actor[w].user
    /\ d.open = event[w].open

CheckDuplicate(w) ==
    /\ pc[w] = "duplicate"
    /\ LET same == {d \in decisions : d.event = event[w].id} IN
       \/ /\ same = {}
          /\ Goto(w, "lock")
          /\ UNCHANGED rowLock
       \/ \E d \in same :
             Answer(w, IF MatchingDuplicate(d, w) THEN "duplicate"
                                                  ELSE "event_conflict")
    /\ UNCHANGED <<tables, now, locals, clients>>

\* Mutant: only the requester is refused, not an unresolved actor.
Forbidden_RequesterOnly(w) ==
    LET r == requests[event[w].request] IN
    r.bound /\ event[w].action # "wait" /\ r.user = actor[w].user

\* Mutant: only an unresolved actor is refused, not the requester.
Forbidden_UnresolvedOnly(w) ==
    LET r == requests[event[w].request] IN
    r.bound /\ event[w].action # "wait" /\ ~actor[w].mapped

\* A decision on a deployment needs a resolved actor who is not its
\* requester; inspecting a request does not.
Forbidden(w) ==
    LET r == requests[event[w].request] IN
    /\ r.bound
    /\ event[w].action # "wait"
    /\ ~actor[w].mapped \/ r.user = actor[w].user

\* SELECT ... FOR UPDATE: waits while another transaction has the row.
LockRequest(w) ==
    /\ pc[w] = "lock"
    /\ LET k == event[w].request IN
       \/ /\ requests[k] = NoRow
          /\ Answer(w, "unknown_request")
          /\ UNCHANGED granted
       \/ /\ requests[k] # NoRow /\ rowLock[k] = Free
          /\ Forbidden(w)
          /\ Answer(w, "unauthorized")
          /\ UNCHANGED granted
       \/ /\ requests[k] # NoRow /\ rowLock[k] = Free
          /\ ~Forbidden(w)
          /\ rowLock' = [rowLock EXCEPT ![k] = w]
          /\ granted' = [granted EXCEPT ![w] = now]
          /\ Goto(w, "clock")
    /\ UNCHANGED <<tables, now, event, actor, at, clients>>

\* Mutant: off by one, a request is still alive at its expiry time.
ReadClock_Inclusive(w) ==
    /\ pc[w] = "clock"
    /\ at' = [at EXCEPT ![w] = now]
    /\ IF now > requests[event[w].request].expires
       THEN Answer(w, "expired")
       ELSE Goto(w, "decided") /\ UNCHANGED rowLock
    /\ UNCHANGED <<tables, now, event, actor, granted, clients>>

\* Mutant: the session of an expired request is not closed.
ReadClock_KeepsLock(w) ==
    /\ pc[w] = "clock"
    /\ at' = [at EXCEPT ![w] = now]
    /\ IF now >= requests[event[w].request].expires
       THEN /\ pc' = [pc EXCEPT ![w] = "idle"]
            /\ answer' = [answer EXCEPT ![w] = "expired"]
       ELSE Goto(w, "decided")
    /\ UNCHANGED <<tables, now, rowLock, event, actor, granted, clients>>

\* clock_timestamp() is read after the row lock was granted.
ReadClock(w) ==
    /\ pc[w] = "clock"
    /\ at' = [at EXCEPT ![w] = now]
    /\ IF now >= requests[event[w].request].expires
       THEN Answer(w, "expired")
       ELSE Goto(w, "decided") /\ UNCHANGED rowLock
    /\ UNCHANGED <<tables, now, event, actor, granted, clients>>

CheckDecided(w) ==
    /\ pc[w] = "decided"
    /\ \/ /\ \E d \in decisions : d.request = event[w].request
          /\ Answer(w, "already_decided")
       \/ /\ \A d \in decisions : d.request # event[w].request
          /\ \/ event[w].action = "wait" /\ Answer(w, "waiting")
             \/ /\ event[w].action # "wait"
                /\ Goto(w, "commit")
                /\ UNCHANGED rowLock
    /\ UNCHANGED <<tables, now, locals, clients>>

\* Mutant: the constraint on feishu_event_id is missing.
UniqueViolation_RequestOnly(w) ==
    \E d \in decisions : d.request = event[w].request

\* uq_approval_decisions_request_id and uq_approval_decisions_feishu_event_id
UniqueViolation(w) ==
    \E d \in decisions :
        d.request = event[w].request \/ d.event = event[w].id

\* Mutant: the verb of the event is stored instead of the decision.
NewDecision_Verb(w) ==
    [request |-> event[w].request, code |-> event[w].action,
     actor |-> actor[w], open |-> event[w].open, event |-> event[w].id,
     at |-> at[w], granted |-> granted[w]]

NewDecision(w) ==
    [request |-> event[w].request, code |-> CodeOf(event[w]),
     actor |-> actor[w], open |-> event[w].open, event |-> event[w].id,
     at |-> at[w], granted |-> granted[w]]

CommitDecision(w) ==
    /\ pc[w] = "commit"
    /\ \/ /\ UniqueViolation(w)
          /\ Answer(w, "conflict")
          /\ UNCHANGED decisions
       \/ /\ ~UniqueViolation(w)
          /\ decisions' = decisions \cup {NewDecision(w)}
          /\ Answer(w, "recorded")
    /\ UNCHANGED <<requests, now, locals, clients>>

\* The connection is lost during COMMIT, which may have been applied, or
\* after it, when the card handler reads the request again for its answer.
CommitLost(w) ==
    /\ pc[w] = "commit"
    /\ \/ UNCHANGED decisions
       \/ /\ ~UniqueViolation(w)
          /\ decisions' = decisions \cup {NewDecision(w)}
    /\ Answer(w, "unavailable")
    /\ UNCHANGED <<requests, now, locals, clients>>

\* Any earlier statement fails, or the card handler cannot read the request
\* again for the answer to a redelivered or a "wait" event.
StatementFails(w) ==
    /\ pc[w] \in {"resolve", "duplicate", "lock", "clock", "decided"}
    /\ Answer(w, "unavailable")
    /\ UNCHANGED <<tables, now, locals, clients>>

WorkerDies(w) ==
    /\ pc[w] # "idle"
    /\ Answer(w, "none")
    /\ UNCHANGED <<tables, now, locals, clients>>

-----------------------------------------------------------------------------
(* The specification                                                       *)

Tick ==
    /\ now < MaxTime
    /\ now' = now + 1
    /\ UNCHANGED <<tables, workers, clients>>

Handle(w) ==
    \/ ResolveActor(w) \/ CheckDuplicate(w) \/ LockRequest(w)
    \/ ReadClock(w) \/ CheckDecided(w) \/ CommitDecision(w)

Fail(w) == CommitLost(w) \/ StatementFails(w) \/ WorkerDies(w)

Create(c) ==
    \/ \E k \in Keys, u \in Users, s \in Subjects : LookUpRequest(c, k, u, s)
    \/ InsertRequest(c)
    \/ ClientFails(c)

Next ==
    \/ \E w \in Workers :
          \/ \E e \in Events : Receive(w, e)
          \/ Handle(w)
          \/ Fail(w)
    \/ \E c \in Clients : Create(c)
    \/ \E k \in Keys, u \in Users, s \in Subjects : BindRequest(k, u, s)
    \/ Tick

Spec == Init /\ [][Next]_vars

\* A handler keeps running; PostgreSQL queues the sessions that wait for a
\* row lock, so none of them waits for ever while the row is released again
\* and again.
FairSpec ==
    Spec /\ \A w \in Workers : WF_vars(Handle(w)) /\ SF_vars(LockRequest(w))

-----------------------------------------------------------------------------
(* Properties                                                              *)

\* Neither a request nor a Feishu event has two decisions, however often
\* and in whatever order events are delivered and handled concurrently
\* (record_approval_decision and the constraints of approval_decisions).
OneDecision ==
    \A d, e \in decisions : d.request = e.request \/ d.event = e.event => d = e

\* A request bound to a deployment is only decided by a resolved person who
\* is not its requester, even if it was bound while the event was handled
\* (the check after FOR UPDATE in record_approval_decision).
SeparationOfDuties ==
    \A d \in decisions :
        requests[d.request].bound =>
            d.actor.mapped /\ d.actor.user # requests[d.request].user

\* Waiting for a competing decision does not extend the lifetime of a
\* request: the decision was taken before expiry, by a clock read that is
\* not older than the row lock.
NoLateDecision ==
    \A d \in decisions :
        d.granted <= d.at /\ d.at < requests[d.request].expires

\* When a worker answers "recorded" or "duplicate", exactly the decision of
\* its event is in the table (record_approval_decision).
AnswersTruthful ==
    \A w \in Workers :
        answer[w] \in {"recorded", "duplicate"} =>
            \E d \in decisions :
                /\ d.event = event[w].id
                /\ d.request = event[w].request
                /\ d.code = CodeOf(event[w])
                /\ d.open = event[w].open

\* create_approval_request returns a request only to a client that asked for
\* its contents, also to the client that lost a race for the key.
KeyMeansContent ==
    \A c \in Clients :
        got[c] = "request" =>
            /\ requests[want[c].key] # NoRow
            /\ Matches(requests[want[c].key], want[c])

\* Every delivery that is being handled comes to an end.
EveryDeliveryEnds == \A w \in Workers : pc[w] # "idle" ~> pc[w] = "idle"

\* The decision of each request, as the abstract specification sees it
DecisionOf(k) ==
    IF \E d \in decisions : d.request = k
    THEN LET d == CHOOSE d \in decisions : d.request = k
         IN [code |-> d.code, user |-> d.actor.user, at |-> d.at]
    ELSE NoRow

Authority ==
    INSTANCE ApprovalAuthority
        WITH decisions <- [k \in Keys |-> DecisionOf(k)]

\* Concurrent, failing and redelivered handling implements the approval
\* authority: requests are immutable and decided at most once, in time and
\* by the right person.
ImplementsAuthority == Authority!Spec
=============================================================================
