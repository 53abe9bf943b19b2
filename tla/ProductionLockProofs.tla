------------------------ MODULE ProductionLockProofs ------------------------
(***************************************************************************)
(* What every operation on the production lease keeps, for the proofs of   *)
(* the modules that run on it.                                             *)
(***************************************************************************)
EXTENDS ProductionLock, TLAPS

\* An operation on the lease keeps the types, and a row it inserts is the
\* latest one.
LEMMA LockStepType ==
  ASSUME LockTypeOK, NEW c \in Callers, LockStep(c), UNCHANGED now
  PROVE  /\ LockTypeOK'
         /\ acquisitions <= acquisitions'
         /\ (lock # NoRow => lock.nth = acquisitions) =>
                (lock' # NoRow => lock'.nth = acquisitions')
<1>1. acquisitions \in Nat /\ now \in Nat /\ Lease \in Nat
  BY LockConstants DEF LockTypeOK
<1>2. CASE \E d \in Deployments : BeginAcquire(c, d)
  <2>1. PICK d \in Deployments : BeginAcquire(c, d)
    BY <1>2
  <2>2. [op |-> "acquire", deployment |-> d, at |-> now] \in LockOp
    BY <1>1 DEF LockOp
  <2> QED BY <1>1, <2>1, <2>2 DEF BeginAcquire, LockTypeOK
<1>3. CASE BeginRenew(c)
  <2>1. held[c].deployment \in Deployments
    BY <1>3 DEF BeginRenew, LockTypeOK, ProductionLease
  <2>2. [op |-> "renew", deployment |-> held[c].deployment, at |-> now]
           \in LockOp
    BY <1>1, <2>1 DEF LockOp
  <2> QED BY <1>1, <1>3, <2>2 DEF BeginRenew, LockTypeOK
<1>4. ASSUME EndOp(c)
      PROVE  lockOp' \in [Callers -> LockOp \cup {NoRow}]
  BY <1>4 DEF EndOp, LockTypeOK
<1>5. ASSUME lock' \in LockRow, GiveLease(c, lock')
      PROVE  held' \in [Callers -> ProductionLease \cup {NoRow}]
  <2>1. [deployment |-> lock'.deployment, token |-> lock'.token]
           \in ProductionLease
    BY <1>5 DEF LockRow, ProductionLease
  <2> QED BY <1>5, <2>1 DEF GiveLease, LockTypeOK
<1>6. CASE InsertLock(c)
  <2>1. lockOp[c] \in LockOp
    BY <1>6 DEF InsertLock, LockTypeOK
  <2>2. lockOp[c].deployment \in Deployments /\ lockOp[c].at \in Nat
    BY <2>1 DEF LockOp
  <2>3. /\ acquisitions' = acquisitions + 1
        /\ lock' = [deployment |-> lockOp[c].deployment, token |-> 1,
                    acquired |-> lockOp[c].at,
                    expires |-> lockOp[c].at + Lease,
                    nth |-> acquisitions + 1]
    BY <1>6 DEF InsertLock
  <2>4. lock' \in LockRow /\ lock'.nth = acquisitions'
    BY <1>1, <2>2, <2>3 DEF LockRow
  <2>5. EndOp(c) /\ GiveLease(c, lock')
    BY <1>6 DEF InsertLock
  <2> QED BY <1>1, <1>4, <1>5, <2>3, <2>4, <2>5 DEF LockTypeOK
<1>7. CASE ReacquireLock(c)
  <2>1. EndOp(c) /\ GiveLease(c, lock') /\ UNCHANGED <<lock, acquisitions>>
        /\ lock' \in LockRow
    BY <1>7 DEF ReacquireLock, GiveLease, LockTypeOK
  <2> QED BY <1>1, <1>4, <1>5, <2>1 DEF LockTypeOK
<1>8. CASE RenewLock(c)
  <2>1. lockOp[c] \in LockOp /\ lock \in LockRow
    BY <1>8 DEF RenewLock, OwnsRow, LockTypeOK
  <2>2. lockOp[c].at + Lease \in Nat
    BY <1>1, <2>1 DEF LockOp
  <2>3. lock' = [lock EXCEPT !.expires = lockOp[c].at + Lease]
    BY <1>8 DEF RenewLock
  <2>4. lock' \in LockRow /\ lock'.nth = lock.nth
    BY <2>1, <2>2, <2>3 DEF LockRow
  <2>5. EndOp(c) /\ UNCHANGED <<held, acquisitions>> /\ lock # NoRow
    BY <1>8 DEF RenewLock, OwnsRow
  <2> QED BY <1>1, <1>4, <2>4, <2>5 DEF LockTypeOK
<1>9. CASE LockOpFails(c)
  BY <1>1, <1>4, <1>9 DEF LockOpFails, LockTypeOK
<1>10. CASE ReleaseLock(c)
  BY <1>1, <1>10 DEF ReleaseLock, LockTypeOK
<1> QED BY <1>2, <1>3, <1>6, <1>7, <1>8, <1>9, <1>10 DEF LockStep
=============================================================================
