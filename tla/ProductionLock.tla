--------------------------- MODULE ProductionLock ---------------------------
(***************************************************************************)
(* The lease on production (acquire_, renew_ and release_deployment_lock   *)
(* of app/services/deployment_service.py): one row of deployment_locks for *)
(* the conflict domain production:global.                                  *)
(*                                                                         *)
(* An operation reads the database clock first and waits for the row lock  *)
(* afterwards; from then to its commit it is alone, so the rest of it is   *)
(* one action.  Every operation may also fail without an effect (row lock  *)
(* conflict, evidence key already used, lost connection).                  *)
(*                                                                         *)
(* No code sets stale_reconciled_at, so an expired lease is never taken    *)
(* over and the branch that increments the fencing token is never taken.   *)
(* LeaseTransactions has the operations statement by statement.            *)
(***************************************************************************)
EXTENDS Naturals

CONSTANTS
    Deployments,        \* deployment intents
    Callers,            \* processes that call the operations
    Lease,              \* lease_seconds in clock ticks
    MaxTime,            \* bound: the clock stops here
    MaxAcquisitions,    \* bound: rows inserted into deployment_locks
    NoRow               \* absence of a row, a lease or an operation

ASSUME LockConstants ==
    /\ Lease \in Nat \ {0}
    /\ MaxTime \in Nat /\ MaxAcquisitions \in Nat
    /\ NoRow \notin Deployments

VARIABLES
    lock,           \* the row of deployment_locks
    now,            \* clock_timestamp()
    lockOp,         \* the operation each caller is in, after its clock read
    held,           \* the ProductionLease each caller was given last
    acquisitions    \* history: how many rows were inserted so far

lockVars == <<lock, lockOp, held, acquisitions>>

\* nth is history: the how many-th row this is.
LockRow == [deployment : Deployments, token : Nat, acquired : Nat,
            expires : Nat, nth : Nat]

LockOp == [op : {"acquire", "renew"}, deployment : Deployments, at : Nat]

ProductionLease == [deployment : Deployments, token : Nat]

LockTypeOK ==
    /\ lock \in LockRow \cup {NoRow}
    /\ now \in Nat
    /\ lockOp \in [Callers -> LockOp \cup {NoRow}]
    /\ held \in [Callers -> ProductionLease \cup {NoRow}]
    /\ acquisitions \in Nat

LockInit ==
    /\ lock = NoRow
    /\ lockOp = [c \in Callers |-> NoRow]
    /\ held = [c \in Callers |-> NoRow]
    /\ acquisitions = 0
    /\ now = 0

-----------------------------------------------------------------------------
(* The operations                                                          *)

\* A caller renews and releases with the lease it was given.
OwnsRow(c) ==
    /\ lock # NoRow
    /\ held[c] # NoRow
    /\ lock.deployment = held[c].deployment
    /\ lock.token = held[c].token

BeginAcquire(c, d) ==
    /\ lockOp[c] = NoRow
    /\ lockOp' = [lockOp EXCEPT ![c] =
                     [op |-> "acquire", deployment |-> d, at |-> now]]
    /\ UNCHANGED <<lock, held, acquisitions>>

BeginRenew(c) ==
    /\ lockOp[c] = NoRow
    /\ held[c] # NoRow
    /\ lockOp' = [lockOp EXCEPT ![c] =
                     [op |-> "renew", deployment |-> held[c].deployment,
                      at |-> now]]
    /\ UNCHANGED <<lock, held, acquisitions>>

GiveLease(c, row) ==
    held' = [held EXCEPT ![c] = [deployment |-> row.deployment,
                                 token |-> row.token]]

EndOp(c) == lockOp' = [lockOp EXCEPT ![c] = NoRow]

\* acquire_deployment_lock when there is no row: the token starts at 1.
InsertLock(c) ==
    LET op == lockOp[c] IN
    /\ op # NoRow /\ op.op = "acquire"
    /\ lock = NoRow
    /\ acquisitions < MaxAcquisitions
    /\ acquisitions' = acquisitions + 1
    /\ lock' = [deployment |-> op.deployment, token |-> 1, acquired |-> op.at,
                expires |-> op.at + Lease, nth |-> acquisitions + 1]
    /\ GiveLease(c, lock')
    /\ EndOp(c)

\* acquire_deployment_lock by the deployment that has the row already
ReacquireLock(c) ==
    LET op == lockOp[c] IN
    /\ op # NoRow /\ op.op = "acquire"
    /\ lock # NoRow
    /\ lock.deployment = op.deployment
    /\ lock.expires > op.at
    /\ GiveLease(c, lock)
    /\ EndOp(c)
    /\ UNCHANGED <<lock, acquisitions>>

\* renew_deployment_lock; the row must satisfy lease_expires_at > acquired_at.
RenewLock(c) ==
    LET op == lockOp[c] IN
    /\ op # NoRow /\ op.op = "renew"
    /\ OwnsRow(c)
    /\ lock.expires > op.at
    /\ op.at + Lease > lock.acquired
    /\ lock' = [lock EXCEPT !.expires = op.at + Lease]
    /\ EndOp(c)
    /\ UNCHANGED <<held, acquisitions>>

\* lock_conflict, stale_lock_reconciliation_required, lock_not_owned, or any
\* database error
LockOpFails(c) ==
    /\ lockOp[c] # NoRow
    /\ EndOp(c)
    /\ UNCHANGED <<lock, held, acquisitions>>

\* release_deployment_lock: works on an expired lease too.  The clock is
\* only read for the evidence row.
ReleaseLock(c) ==
    /\ lockOp[c] = NoRow
    /\ OwnsRow(c)
    /\ lock' = NoRow
    /\ held' = [held EXCEPT ![c] = NoRow]
    /\ UNCHANGED <<lockOp, acquisitions>>

LockStep(c) ==
    \/ \E d \in Deployments : BeginAcquire(c, d)
    \/ BeginRenew(c)
    \/ InsertLock(c) \/ ReacquireLock(c) \/ RenewLock(c) \/ LockOpFails(c)
    \/ ReleaseLock(c)

ClockTick == now < MaxTime /\ now' = now + 1

-----------------------------------------------------------------------------
(* The lock by itself                                                      *)

LockNext ==
    \/ \E c \in Callers : LockStep(c) /\ UNCHANGED now
    \/ ClockTick /\ UNCHANGED lockVars

LockSpec == LockInit /\ [][LockNext]_<<lockVars, now>>
=============================================================================
