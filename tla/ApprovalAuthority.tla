------------------------- MODULE ApprovalAuthority -------------------------
(***************************************************************************)
(* What the approval service promises, with no workers, transactions or    *)
(* row locks: a request is created once and never changes, it receives at  *)
(* most one decision, that decision was taken during the lifetime of the   *)
(* request and, for a request bound to a deployment, by somebody else than *)
(* its requester.                                                          *)
(***************************************************************************)
EXTENDS Naturals

CONSTANTS
    Keys,       \* idempotency keys; a request is identified with its key
    Users,      \* canonical users
    Subjects,   \* what is to be approved (action, repository, SHA, ...)
    NoRow       \* absence of a database row

VARIABLES
    requests,   \* approval_requests, by idempotency key
    decisions,  \* approval_decisions, by the key of the request
    now         \* the database clock

vars == <<requests, decisions, now>>

Request == [bound : BOOLEAN, user : Users, subject : Subjects, expires : Nat]

Decision == [code : {"approved", "rejected"}, user : Users, at : Nat]

Init ==
    /\ requests = [k \in Keys |-> NoRow]
    /\ decisions = [k \in Keys |-> NoRow]
    /\ now = 0

Open(k) ==
    /\ requests[k] = NoRow
    /\ requests'[k] \in Request
    /\ requests' = [requests EXCEPT ![k] = requests'[k]]
    /\ UNCHANGED <<decisions, now>>

Decide(k) ==
    /\ requests[k] # NoRow
    /\ decisions[k] = NoRow
    /\ decisions'[k] \in Decision
    /\ decisions'[k].at <= now
    /\ decisions'[k].at < requests[k].expires
    /\ requests[k].bound => decisions'[k].user # requests[k].user
    /\ decisions' = [decisions EXCEPT ![k] = decisions'[k]]
    /\ UNCHANGED <<requests, now>>

Tick ==
    /\ now' = now + 1
    /\ UNCHANGED <<requests, decisions>>

Next == Tick \/ \E k \in Keys : Open(k) \/ Decide(k)

Spec == Init /\ [][Next]_vars
=============================================================================
