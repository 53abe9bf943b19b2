-------------------------- MODULE LeaseTransactions --------------------------
(***************************************************************************)
(* The operations on the production lease and                              *)
(* start_production_deployment (app/services/deployment_service.py) as     *)
(* PostgreSQL transactions at READ COMMITTED, statement by statement.      *)
(*                                                                         *)
(* SELECT ... FOR UPDATE takes its snapshot, waits for the row and gives   *)
(* no row when the one it saw was deleted meanwhile.  An INSERT of a row   *)
(* with a foreign key locks the row it refers to.  The operations on the   *)
(* lease lock the lease first and the intent afterwards, when their        *)
(* evidence row is inserted; start_production_deployment locks the intent  *)
(* first.  A transaction that waits in a cycle is aborted by PostgreSQL,   *)
(* and any transaction may lose its connection.                            *)
(*                                                                         *)
(* ProductionLock describes the same operations as atomic steps; it is     *)
(* shown to be implemented.                                                *)
(***************************************************************************)
EXTENDS Naturals

CONSTANTS
    Deployments,        \* deployment intents; all of them exist
    Callers,            \* processes, each with one session
    LeaseTicks,         \* lease_seconds in clock ticks
    MaxTime,            \* bound: the clock stops here
    MaxAcquisitions,    \* bound: the insert of one more row fails
    NoRow               \* absence of a row, a lease or a transaction

ASSUME TransactionConstants ==
    /\ LeaseTicks \in Nat \ {0}
    /\ MaxTime \in Nat /\ MaxAcquisitions \in Nat
    /\ NoRow \notin Deployments \cup Callers
    /\ "lease" \notin Deployments

VARIABLES
    lock,           \* the committed row of deployment_locks
    attempts,       \* committed deployment_execution_attempts
    now,            \* clock_timestamp()
    tx,             \* the open transaction of each caller
    rowOwner,       \* who has locked the lease and the intents
    held,           \* the ProductionLease each caller was given last
    acquisitions    \* history: how many rows were inserted so far

vars == <<lock, attempts, now, tx, rowOwner, held, acquisitions>>

-----------------------------------------------------------------------------
(* Data                                                                    *)

Rows == {"lease"} \cup Deployments

LockRow == [deployment : Deployments, token : Nat, acquired : Nat,
            expires : Nat, nth : Nat]

ProductionLease == [deployment : Deployments, token : Nat]

Step == {"startIntent", "select", "lock", "insert", "intent", "commit"}

\* saw is the row the snapshot of SELECT ... FOR UPDATE had, by its nth;
\* 0 when there was none.  new: the transaction has inserted the row.
Transaction == [op : {"acquire", "renew", "release", "start"},
                deployment : Deployments, token : Nat, at : Nat, step : Step,
                saw : Nat, new : BOOLEAN]

\* What the atomic operations of ProductionLock see of a transaction
Operation == [op : {"acquire", "renew"}, deployment : Deployments, at : Nat]

ASSUME AbsenceIsNoRecord == NoRow \notin Transaction \cup Operation

\* lessee is history: whose lease the attempt was started under.
Attempt == [token : Nat, lessee : Deployments]

TypeOK ==
    /\ lock \in LockRow \cup {NoRow}
    /\ attempts \in [Deployments -> Attempt \cup {NoRow}]
    /\ now \in Nat
    /\ tx \in [Callers -> Transaction \cup {NoRow}]
    /\ rowOwner \in [Rows -> Callers \cup {NoRow}]
    /\ held \in [Callers -> ProductionLease \cup {NoRow}]
    /\ acquisitions \in Nat

Init ==
    /\ lock = NoRow
    /\ attempts = [d \in Deployments |-> NoRow]
    /\ now = 0
    /\ tx = [c \in Callers |-> NoRow]
    /\ rowOwner = [r \in Rows |-> NoRow]
    /\ held = [c \in Callers |-> NoRow]
    /\ acquisitions = 0

-----------------------------------------------------------------------------
(* Transactions                                                            *)

At(c, step) == tx[c] # NoRow /\ tx[c].step = step

Free(r, c) == rowOwner[r] \in {NoRow, c}

Take(r, c) == rowOwner' = [rowOwner EXCEPT ![r] = c]

Goto(c, step) == tx' = [tx EXCEPT ![c].step = step]

database == <<lock, attempts, held, acquisitions>>

\* Mutant: the error path leaves the session open with its row locks.
Rollback_KeepsRowLocks(c) ==
    /\ tx' = [tx EXCEPT ![c] = NoRow]
    /\ UNCHANGED <<database, rowOwner>>

\* db.rollback(), and what closing the session does on any other error
Rollback(c) ==
    /\ tx' = [tx EXCEPT ![c] = NoRow]
    /\ rowOwner' = [r \in Rows |-> IF rowOwner[r] = c THEN NoRow ELSE rowOwner[r]]
    /\ UNCHANGED database

Begin(c, op, d, token, step) ==
    tx' = [tx EXCEPT ![c] =
              [op |-> op, deployment |-> d, token |-> token,
               at |-> IF op \in {"acquire", "renew"} THEN now ELSE 0,
               step |-> step, saw |-> 0, new |-> FALSE]]

\* acquire_deployment_lock up to its clock read
BeginAcquire(c, d) ==
    /\ tx[c] = NoRow
    /\ Begin(c, "acquire", d, 0, "select")
    /\ UNCHANGED <<database, rowOwner, now>>

\* renew_deployment_lock up to its clock read, release_deployment_lock and
\* start_production_deployment: a caller names the lease it was given.
BeginWithLease(c, op) ==
    /\ tx[c] = NoRow
    /\ held[c] # NoRow
    /\ Begin(c, op, held[c].deployment, held[c].token,
             IF op = "start" THEN "startIntent" ELSE "select")
    /\ UNCHANGED <<database, rowOwner, now>>

\* start_production_deployment: SELECT of the intent FOR UPDATE; an attempt
\* that exists is returned, otherwise the clock is read.
StartLocksIntent(c) ==
    /\ At(c, "startIntent")
    /\ Free(tx[c].deployment, c)
    /\ IF attempts[tx[c].deployment] # NoRow
       THEN Rollback(c)
       ELSE /\ Take(tx[c].deployment, c)
            /\ tx' = [tx EXCEPT ![c].step = "select", ![c].at = now]
            /\ UNCHANGED database
    /\ UNCHANGED now

\* The snapshot of SELECT ... FOR UPDATE on deployment_locks
SelectLease(c) ==
    /\ At(c, "select")
    /\ tx' = [tx EXCEPT ![c].step = "lock",
                        ![c].saw = IF lock = NoRow THEN 0 ELSE lock.nth]
    /\ UNCHANGED <<database, rowOwner, now>>

\* Mutant: a start only compares the fencing token.
RowAccepted_TokenOnly(t) ==
    /\ t.op # "start" => lock.deployment = t.deployment
    /\ t.op # "acquire" => lock.token = t.token
    /\ t.op # "release" => lock.expires > t.at
    /\ t.op = "renew" => t.at + LeaseTicks > lock.acquired

\* Mutant: whose row it releases is not looked at.
RowAccepted_ReleaseAny(t) ==
    /\ t.op # "release" => lock.deployment = t.deployment
    /\ t.op # "acquire" => lock.token = t.token
    /\ t.op # "release" => lock.expires > t.at
    /\ t.op = "renew" => t.at + LeaseTicks > lock.acquired

\* What each operation requires of the row it has locked.  The renewed row
\* must also satisfy the CHECK lease_expires_at > acquired_at.
RowAccepted(t) ==
    /\ lock.deployment = t.deployment
    /\ t.op # "acquire" => lock.token = t.token
    /\ t.op # "release" => lock.expires > t.at
    /\ t.op = "renew" => t.at + LeaseTicks > lock.acquired

StillThere(c) == lock # NoRow /\ lock.nth = tx[c].saw

\* The row is locked and looked at: lock_conflict,
\* stale_lock_reconciliation_required, lock_not_owned or
\* deployment_lock_or_approval_invalid end the transaction.
LockLease(c) ==
    /\ At(c, "lock")
    /\ StillThere(c)
    /\ Free("lease", c)
    /\ IF RowAccepted(tx[c])
       THEN /\ Take("lease", c)
            /\ Goto(c, IF tx[c].op = "start" THEN "commit" ELSE "intent")
            /\ UNCHANGED database
       ELSE Rollback(c)
    /\ UNCHANGED now

\* The snapshot had no row, or the row was deleted while this waited.
LeaseNotFound(c) ==
    /\ At(c, "lock")
    /\ ~StillThere(c)
    /\ IF tx[c].op = "acquire"
       THEN Goto(c, "insert") /\ UNCHANGED <<database, rowOwner>>
       ELSE Rollback(c)
    /\ UNCHANGED now

\* INSERT INTO deployment_locks waits for another insert of the same key
\* and fails when that was committed.
InsertLease(c) ==
    /\ At(c, "insert")
    /\ Free("lease", c)
    /\ IF lock = NoRow /\ acquisitions < MaxAcquisitions
       THEN /\ Take("lease", c)
            /\ tx' = [tx EXCEPT ![c].step = "intent", ![c].new = TRUE]
            /\ UNCHANGED database
       ELSE Rollback(c)
    /\ UNCHANGED now

\* The foreign keys of the new rows lock the intent.  No new evidence row is
\* needed when the call repeats an evidence key.
ReferToIntent(c) ==
    /\ At(c, "intent")
    /\ \/ /\ Free(tx[c].deployment, c)
          /\ Take(tx[c].deployment, c)
       \/ /\ ~tx[c].new
          /\ UNCHANGED rowOwner
    /\ Goto(c, "commit")
    /\ UNCHANGED <<database, now>>

-----------------------------------------------------------------------------
(* Commit                                                                  *)

GiveLease(c, row) ==
    held' = [held EXCEPT ![c] = [deployment |-> row.deployment,
                                 token |-> row.token]]

EndTransaction(c) ==
    /\ tx' = [tx EXCEPT ![c] = NoRow]
    /\ rowOwner' = [r \in Rows |-> IF rowOwner[r] = c THEN NoRow ELSE rowOwner[r]]

CommitAcquire(c) ==
    /\ At(c, "commit") /\ tx[c].op = "acquire"
    /\ IF tx[c].new
       THEN /\ acquisitions' = acquisitions + 1
            /\ lock' = [deployment |-> tx[c].deployment, token |-> 1,
                        acquired |-> tx[c].at,
                        expires |-> tx[c].at + LeaseTicks,
                        nth |-> acquisitions + 1]
       ELSE UNCHANGED <<lock, acquisitions>>
    /\ GiveLease(c, lock')
    /\ EndTransaction(c)
    /\ UNCHANGED <<attempts, now>>

\* Mutant: a renewal counts from the old expiry.
CommitRenew_FromExpiry(c) ==
    /\ At(c, "commit") /\ tx[c].op = "renew"
    /\ lock' = [lock EXCEPT !.expires = @ + LeaseTicks]
    /\ EndTransaction(c)
    /\ UNCHANGED <<attempts, held, acquisitions, now>>

CommitRenew(c) ==
    /\ At(c, "commit") /\ tx[c].op = "renew"
    /\ lock' = [lock EXCEPT !.expires = tx[c].at + LeaseTicks]
    /\ EndTransaction(c)
    /\ UNCHANGED <<attempts, held, acquisitions, now>>

CommitRelease(c) ==
    /\ At(c, "commit") /\ tx[c].op = "release"
    /\ lock' = NoRow
    /\ held' = [held EXCEPT ![c] = NoRow]
    /\ EndTransaction(c)
    /\ UNCHANGED <<attempts, acquisitions, now>>

\* The approval is taken to be valid: Deployment has what it requires.
CommitStart(c) ==
    /\ At(c, "commit") /\ tx[c].op = "start"
    /\ attempts' = [attempts EXCEPT ![tx[c].deployment] =
                       [token |-> tx[c].token, lessee |-> lock.deployment]]
    /\ EndTransaction(c)
    /\ UNCHANGED <<lock, held, acquisitions, now>>

-----------------------------------------------------------------------------
(* PostgreSQL                                                              *)

\* The row a transaction can wait for; NoRow when it waits for none.
Wants(c) ==
    IF tx[c] = NoRow THEN NoRow
    ELSE CASE tx[c].step \in {"startIntent", "intent"} -> tx[c].deployment
           [] tx[c].step = "insert"                    -> "lease"
           [] tx[c].step = "lock" /\ StillThere(c)     -> "lease"
           [] OTHER                                    -> NoRow

WaitsFor(c, d) == Wants(c) # NoRow /\ c # d /\ rowOwner[Wants(c)] = d

InWaitCycle(c) ==
    \E S \in SUBSET Callers :
        /\ c \in S
        /\ \A x \in S : (\E y \in S : WaitsFor(x, y)) /\ (\E y \in S : WaitsFor(y, x))

\* deadlock detected: one transaction of the cycle is aborted.
DeadlockAbort(c) ==
    /\ InWaitCycle(c)
    /\ Rollback(c)
    /\ UNCHANGED now

\* A lost connection, a used evidence key or any other database error
TransactionFails(c) ==
    /\ tx[c] # NoRow
    /\ Rollback(c)
    /\ UNCHANGED now

-----------------------------------------------------------------------------
(* The specification                                                       *)

Begins(c) ==
    \/ \E d \in Deployments : BeginAcquire(c, d)
    \/ \E op \in {"renew", "release", "start"} : BeginWithLease(c, op)

Locks(c) ==
    StartLocksIntent(c) \/ LockLease(c) \/ InsertLease(c) \/ ReferToIntent(c)

Runs(c) ==
    \/ SelectLease(c) \/ LeaseNotFound(c)
    \/ CommitAcquire(c) \/ CommitRenew(c) \/ CommitRelease(c) \/ CommitStart(c)

ClockTick ==
    /\ now < MaxTime
    /\ now' = now + 1
    /\ UNCHANGED <<database, tx, rowOwner>>

Next ==
    \/ \E c \in Callers :
          \/ Begins(c) \/ Locks(c) \/ Runs(c)
          \/ DeadlockAbort(c) \/ TransactionFails(c)
    \/ ClockTick

Spec == Init /\ [][Next]_vars

\* A transaction goes on by itself, PostgreSQL lets those that wait for a row
\* have it in turn, and its deadlock detector runs again and again.
Fairness ==
    /\ \A c \in Callers :
          /\ WF_vars(Runs(c))
          /\ SF_vars(Locks(c))
    /\ WF_vars(\E c \in Callers : DeadlockAbort(c))

FairSpec == Spec /\ Fairness

-----------------------------------------------------------------------------
(* Properties                                                              *)

LockOp(c) ==
    IF tx[c] # NoRow /\ tx[c].op \in {"acquire", "renew"}
    THEN [op |-> tx[c].op, deployment |-> tx[c].deployment, at |-> tx[c].at]
    ELSE NoRow

Atomic ==
    INSTANCE ProductionLock
        WITH Lease <- LeaseTicks, lockOp <- [c \in Callers |-> LockOp(c)]

\* The statements of concurrent transactions have the effect of the atomic
\* operations: what an operation checked of the row still holds when it
\* commits (acquire_, renew_ and release_deployment_lock).  So production
\* changes hands only by a release, also when a lease has expired.
ImplementsLease == Atomic!LockSpec

\* A caller that lost its lease to another deployment while its start was
\* waiting does not start under that deployment's lease, although the two
\* have the same fencing token (start_production_deployment).
StartedUnderOwnLease ==
    \A d \in Deployments : attempts[d] # NoRow => attempts[d].lessee = d

\* A lease ends at most one lease time from now, whatever stale clock a
\* renewal that had to wait for the row brings with it.
LeaseIsBounded == lock # NoRow => lock.expires <= now + LeaseTicks

\* Every transaction ends: start locks the intent before the lease and the
\* other operations the lease before the intent, but who waits in a cycle is
\* aborted and every way out gives the row locks back.
EveryTransactionEnds == \A c \in Callers : tx[c] # NoRow ~> tx[c] = NoRow
=============================================================================
