---------------------------- MODULE LeaseProofs ----------------------------
(***************************************************************************)
(* Theorems about the transactions on the production lease, for every set  *)
(* of deployments and callers, every lease time and every bound.           *)
(***************************************************************************)
EXTENDS LeaseTransactions, TLAPS

-----------------------------------------------------------------------------
(* The inductive invariant                                                 *)

\* A caller names the lease it was given last.
NamesItsLease(c) ==
    tx[c].op # "acquire" =>
        /\ held[c] # NoRow
        /\ held[c].deployment = tx[c].deployment
        /\ held[c].token = tx[c].token

\* From FOR UPDATE or INSERT to the end of the transaction the row of the
\* lease is its own, and what was found out about it still holds.
HasLeaseRow(c) ==
    tx[c].step \in {"intent", "commit"} =>
        /\ rowOwner["lease"] = c
        /\ tx[c].new => lock = NoRow /\ acquisitions < MaxAcquisitions
        /\ ~tx[c].new => lock # NoRow /\ RowAccepted(tx[c])

\* A start keeps the intent locked, so that nobody else starts it.
HasIntentRow(c) ==
    tx[c].op = "start" /\ tx[c].step # "startIntent" =>
        /\ rowOwner[tx[c].deployment] = c
        /\ attempts[tx[c].deployment] = NoRow

\* Only a start begins with the intent, and only an acquisition inserts the
\* row; it goes on to its commit.
StepsFit(c) ==
    /\ tx[c].step = "startIntent" => tx[c].op = "start"
    /\ tx[c].step = "insert" => tx[c].op = "acquire"
    /\ tx[c].new => tx[c].op = "acquire" /\ tx[c].step \in {"intent", "commit"}

TransactionOK(c) ==
    tx[c] # NoRow =>
        /\ tx[c].at <= now
        /\ NamesItsLease(c) /\ HasLeaseRow(c) /\ HasIntentRow(c)
        /\ StepsFit(c)

Inv == /\ TypeOK
       /\ \A c \in Callers : TransactionOK(c)
       /\ LeaseIsBounded
       /\ StartedUnderOwnLease

\* The invariant holds in the initial state.
LEMMA InitInv == Init => Inv
<1> SUFFICES ASSUME Init PROVE Inv
  OBVIOUS
<1>1. TypeOK
  BY DEF Init, TypeOK
<1>2. \A c \in Callers : TransactionOK(c)
  BY DEF Init, TransactionOK
<1>3. LeaseIsBounded /\ StartedUnderOwnLease
  BY DEF Init, LeaseIsBounded, StartedUnderOwnLease
<1> QED BY <1>1, <1>2, <1>3 DEF Inv

-----------------------------------------------------------------------------
(* Transactions that leave the database alone                              *)

\* An open transaction has its type.
LEMMA TxType ==
  ASSUME TypeOK, NEW c \in Callers, tx[c] # NoRow
  PROVE  /\ tx[c] \in Transaction
         /\ tx[c].op \in {"acquire", "renew", "release", "start"}
         /\ tx[c].deployment \in Deployments /\ tx[c].deployment \in Rows
         /\ tx[c].deployment # "lease"
         /\ tx[c].token \in Nat /\ tx[c].at \in Nat /\ tx[c].saw \in Nat
         /\ tx[c].step \in Step /\ tx[c].new \in BOOLEAN
<1>1. tx[c] \in Transaction
  BY DEF TypeOK
<1> QED BY <1>1, TransactionConstants DEF Transaction, Rows

\* What caller c leaves alone: the other transactions and their row locks.
OthersUntouched(c) ==
    /\ \A b \in Callers \ {c} : tx'[b] = tx[b]
    /\ \A r \in Rows :
          rowOwner[r] \in Callers \ {c} => rowOwner'[r] = rowOwner[r]

\* A step of one transaction that leaves the database alone preserves the
\* invariant when it does so for that transaction.
LEMMA OneTransaction ==
  ASSUME Inv, NEW c \in Callers, OthersUntouched(c),
         tx' \in [Callers -> Transaction \cup {NoRow}],
         rowOwner' \in [Rows -> Callers \cup {NoRow}],
         UNCHANGED <<database, now>>, TransactionOK(c)'
  PROVE  Inv'
<1>1. TypeOK /\ TypeOK'
  BY DEF Inv, TypeOK, database
<1>2. ASSUME NEW b \in Callers, b # c PROVE TransactionOK(b)'
  <2>1. tx'[b] = tx[b] /\ TransactionOK(b)
    BY <1>2 DEF Inv, OthersUntouched
  <2>2. tx[b] # NoRow => tx[b].deployment \in Rows
    BY <1>1, TxType
  <2>3. tx[b] # NoRow /\ HasLeaseRow(b) => HasLeaseRow(b)'
    BY <1>2, <2>1 DEF HasLeaseRow, RowAccepted, OthersUntouched, database, Rows
  <2>4. tx[b] # NoRow /\ HasIntentRow(b) => HasIntentRow(b)'
    BY <1>2, <2>1, <2>2 DEF HasIntentRow, OthersUntouched, database
  <2> QED BY <2>1, <2>3, <2>4 DEF TransactionOK, NamesItsLease,
             StepsFit, database
<1>3. LeaseIsBounded' /\ StartedUnderOwnLease'
  BY DEF Inv, LeaseIsBounded, StartedUnderOwnLease, database
<1> QED BY <1>1, <1>2, <1>3 DEF Inv

\* The end of a transaction gives back its row locks and no others.
LEMMA EndType ==
  ASSUME TypeOK, NEW c \in Callers, EndTransaction(c)
  PROVE  /\ tx' \in [Callers -> Transaction \cup {NoRow}]
         /\ rowOwner' \in [Rows -> Callers \cup {NoRow}]
         /\ tx'[c] = NoRow
         /\ OthersUntouched(c)
  BY DEF EndTransaction, TypeOK, OthersUntouched

\* A rollback preserves the invariant, wherever the transaction was.
LEMMA RollbackPreserves ==
  ASSUME Inv, NEW c \in Callers, Rollback(c), UNCHANGED now
  PROVE  Inv'
<1>1. TypeOK /\ EndTransaction(c) /\ UNCHANGED database
  BY DEF Inv, Rollback, EndTransaction
<1>2. TransactionOK(c)'
  BY <1>1, EndType DEF TransactionOK
<1> QED BY <1>1, <1>2, EndType, OneTransaction

\* A new transaction has no row and names the lease its caller was given.
LEMMA BeginPreserves ==
  ASSUME Inv, NEW c \in Callers, Begins(c)
  PROVE  Inv'
<1>1. TypeOK /\ UNCHANGED <<database, rowOwner, now>>
  BY DEF Inv, Begins, BeginAcquire, BeginWithLease
<1>2. ASSUME NEW op \in {"acquire", "renew", "release", "start"},
             NEW d \in Deployments, NEW token \in Nat,
             NEW step \in {"select", "startIntent"},
             op = "start" <=> step = "startIntent",
             op # "acquire" => /\ held[c] # NoRow /\ held[c].deployment = d
                               /\ held[c].token = token,
             Begin(c, op, d, token, step)
      PROVE  Inv'
  <2>1. now \in Nat
    BY <1>1 DEF TypeOK
  <2> DEFINE t == [op |-> op, deployment |-> d, token |-> token,
                   at |-> IF op \in {"acquire", "renew"} THEN now ELSE 0,
                   step |-> step, saw |-> 0, new |-> FALSE]
  <2>2. t \in Transaction
    BY <2>1 DEF Transaction, Step
  <2>3. tx' = [tx EXCEPT ![c] = t]
    BY <1>2 DEF Begin
  <2>4. t.at <= now
    BY <2>1
  <2> HIDE DEF t
  <2>5. tx' \in [Callers -> Transaction \cup {NoRow}] /\ tx'[c] = t
        /\ \A b \in Callers \ {c} : tx'[b] = tx[b]
    BY <1>1, <2>2, <2>3 DEF TypeOK
  <2>6. /\ t.op = op /\ t.deployment = d /\ t.token = token
        /\ t.step = step /\ t.new = FALSE
    BY DEF t
  <2>7. TransactionOK(c)'
    BY <1>1, <1>2, <2>4, <2>5, <2>6 DEF TransactionOK, NamesItsLease,
       HasLeaseRow, HasIntentRow, StepsFit, database
  <2>8. OthersUntouched(c) /\ rowOwner' \in [Rows -> Callers \cup {NoRow}]
    BY <1>1, <2>5 DEF OthersUntouched, TypeOK
  <2> QED BY <1>1, <2>5, <2>7, <2>8, OneTransaction
<1>3. ASSUME NEW d \in Deployments, BeginAcquire(c, d) PROVE Inv'
  BY <1>2, <1>3 DEF BeginAcquire
<1>4. ASSUME NEW op \in {"renew", "release", "start"}, BeginWithLease(c, op)
      PROVE  Inv'
  <2>1. held[c].deployment \in Deployments /\ held[c].token \in Nat
    BY <1>1, <1>4 DEF BeginWithLease, TypeOK, ProductionLease
  <2> QED BY <1>2, <1>4, <2>1 DEF BeginWithLease
<1> QED BY <1>3, <1>4 DEF Begins

-----------------------------------------------------------------------------
(* The statements between BEGIN and COMMIT                                 *)

\* A transaction that goes on changes the place it is at, the clock value of
\* a start, what its snapshot saw, or that it inserted the row.
GoesOn(c, t) ==
    /\ t \in Transaction
    /\ tx' = [tx EXCEPT ![c] = t]
    /\ t.op = tx[c].op /\ t.deployment = tx[c].deployment
    /\ t.token = tx[c].token

\* It keeps its type and its row locks, and the other transactions theirs.
LEMMA GoesOnType ==
  ASSUME TypeOK, NEW c \in Callers, NEW t, GoesOn(c, t),
         \/ UNCHANGED rowOwner
         \/ \E r \in Rows : Free(r, c) /\ Take(r, c)
  PROVE  /\ tx' \in [Callers -> Transaction \cup {NoRow}] /\ tx'[c] = t
         /\ rowOwner' \in [Rows -> Callers \cup {NoRow}]
         /\ OthersUntouched(c)
         /\ \A r \in Rows : rowOwner[r] = c => rowOwner'[r] = c
<1>1. tx' \in [Callers -> Transaction \cup {NoRow}] /\ tx'[c] = t
      /\ \A b \in Callers \ {c} : tx'[b] = tx[b]
  BY DEF GoesOn, TypeOK
<1>2. CASE UNCHANGED rowOwner
  BY <1>1, <1>2 DEF TypeOK, OthersUntouched
<1>3. ASSUME NEW r \in Rows, Free(r, c), Take(r, c)
      PROVE  /\ rowOwner' \in [Rows -> Callers \cup {NoRow}]
             /\ \A q \in Rows : rowOwner[q] \in Callers \ {c} =>
                                   rowOwner'[q] = rowOwner[q]
             /\ \A q \in Rows : rowOwner[q] = c => rowOwner'[q] = c
  BY <1>3, TransactionConstants DEF Free, Take, TypeOK
<1> QED BY <1>1, <1>2, <1>3 DEF OthersUntouched

\* The record of a transaction with another step in it
LEMMA StepRecord ==
  ASSUME TypeOK, NEW c \in Callers, tx[c] # NoRow, NEW step \in Step,
         Goto(c, step)
  PROVE  \E t : /\ GoesOn(c, t)
                /\ t.step = step /\ t.at = tx[c].at /\ t.new = tx[c].new
<1> DEFINE t == [tx[c] EXCEPT !.step = step]
<1>1. tx[c] \in Transaction
  BY TxType
<1>2. t \in Transaction
  BY <1>1 DEF Transaction
<1>3. /\ t.op = tx[c].op /\ t.deployment = tx[c].deployment
      /\ t.token = tx[c].token /\ t.step = step /\ t.at = tx[c].at
      /\ t.new = tx[c].new
  BY <1>1 DEF Transaction
<1>4. tx' = [tx EXCEPT ![c] = t]
  BY DEF Goto
<1> QED BY <1>2, <1>3, <1>4 DEF GoesOn

\* A statement that goes on does so within the same operation, with the
\* clock value it has read; only a start reads the clock again.
Statement(c) ==
    \/ Rollback(c) /\ UNCHANGED now
    \/ \E t : /\ GoesOn(c, t) /\ (t.op # "start" => t.at = tx[c].at)
              /\ UNCHANGED <<database, now>>

\* SELECT of the intent FOR UPDATE: nobody else starts this deployment.
LEMMA StartLocksIntentPreserves ==
  ASSUME Inv, NEW c \in Callers, StartLocksIntent(c)
  PROVE  Inv' /\ Statement(c)
<1>1. TypeOK /\ tx[c] # NoRow /\ tx[c].step = "startIntent" /\ UNCHANGED now
      /\ TransactionOK(c)
  BY DEF Inv, StartLocksIntent, At
<1>2. CASE Rollback(c)
  BY <1>1, <1>2, RollbackPreserves DEF Statement
<1>3. ASSUME attempts[tx[c].deployment] = NoRow, Free(tx[c].deployment, c),
             Take(tx[c].deployment, c), UNCHANGED database,
             tx' = [tx EXCEPT ![c].step = "select", ![c].at = now]
      PROVE  Inv' /\ Statement(c)
  <2> DEFINE t == [tx[c] EXCEPT !.step = "select", !.at = now]
  <2>1. tx[c] \in Transaction /\ tx[c].deployment \in Rows /\ now \in Nat
    BY <1>1, TxType DEF TypeOK
  <2>2. t \in Transaction
    BY <2>1 DEF Transaction, Step
  <2>3. /\ t.op = tx[c].op /\ t.deployment = tx[c].deployment
        /\ t.token = tx[c].token /\ t.step = "select" /\ t.at = now
        /\ t.new = tx[c].new
    BY <2>1 DEF Transaction
  <2>4. tx' = [tx EXCEPT ![c] = t]
    BY <1>3
  <2> HIDE DEF t
  <2>5. GoesOn(c, t)
    BY <2>2, <2>3, <2>4 DEF GoesOn
  <2>6. /\ tx' \in [Callers -> Transaction \cup {NoRow}] /\ tx'[c] = t
        /\ rowOwner' \in [Rows -> Callers \cup {NoRow}]
        /\ OthersUntouched(c)
    BY <1>1, <1>3, <2>1, <2>5, GoesOnType
  <2>7. rowOwner'[tx[c].deployment] = c
    BY <1>1, <1>3, <2>1 DEF Take, TypeOK
  <2>8. t.op = "start" /\ ~t.new
    BY <1>1, <2>3 DEF TransactionOK, StepsFit
  <2>9. TransactionOK(c)'
    BY <1>1, <1>3, <2>1, <2>3, <2>6, <2>7, <2>8 DEF TransactionOK,
       NamesItsLease, HasLeaseRow, HasIntentRow, StepsFit, database
  <2> QED BY <1>1, <1>3, <2>5, <2>6, <2>8, <2>9, OneTransaction DEF Statement
<1> QED BY <1>1, <1>2, <1>3 DEF StartLocksIntent

\* The snapshot of SELECT ... FOR UPDATE locks nothing yet.
LEMMA SelectLeasePreserves ==
  ASSUME Inv, NEW c \in Callers, SelectLease(c)
  PROVE  Inv' /\ Statement(c)
<1>1. /\ TypeOK /\ tx[c] # NoRow /\ tx[c].step = "select"
      /\ UNCHANGED <<database, rowOwner, now>> /\ TransactionOK(c)
  BY DEF Inv, SelectLease, At
<1> DEFINE n == IF lock = NoRow THEN 0 ELSE lock.nth
           t == [tx[c] EXCEPT !.step = "lock", !.saw = n]
<1>2. tx[c] \in Transaction /\ n \in Nat
  BY <1>1, TxType DEF TypeOK, LockRow
<1>3. t \in Transaction
  BY <1>2 DEF Transaction, Step
<1>4. /\ t.op = tx[c].op /\ t.deployment = tx[c].deployment
      /\ t.token = tx[c].token /\ t.step = "lock" /\ t.at = tx[c].at
      /\ t.new = tx[c].new
  BY <1>2 DEF Transaction
<1>5. tx' = [tx EXCEPT ![c] = t]
  BY DEF SelectLease
<1> HIDE DEF t
<1>6. GoesOn(c, t)
  BY <1>3, <1>4, <1>5 DEF GoesOn
<1>7. /\ tx' \in [Callers -> Transaction \cup {NoRow}] /\ tx'[c] = t
      /\ rowOwner' \in [Rows -> Callers \cup {NoRow}]
      /\ OthersUntouched(c)
  BY <1>1, <1>6, GoesOnType
<1>8. TransactionOK(c)'
  BY <1>1, <1>4, <1>7 DEF TransactionOK, NamesItsLease, HasLeaseRow,
     HasIntentRow, StepsFit, database
<1> QED BY <1>1, <1>4, <1>6, <1>7, <1>8, OneTransaction DEF Statement

\* The row of the lease is locked and what the operation requires of it holds.
LEMMA LockLeasePreserves ==
  ASSUME Inv, NEW c \in Callers, LockLease(c)
  PROVE  Inv' /\ Statement(c)
<1>1. /\ TypeOK /\ tx[c] # NoRow /\ tx[c].step = "lock" /\ UNCHANGED now
      /\ TransactionOK(c) /\ lock # NoRow /\ Free("lease", c)
  BY DEF Inv, LockLease, At, StillThere
<1>2. CASE Rollback(c)
  BY <1>1, <1>2, RollbackPreserves DEF Statement
<1>3. ASSUME NEW step \in {"commit", "intent"}, RowAccepted(tx[c]),
             Take("lease", c), Goto(c, step), UNCHANGED database
      PROVE  Inv' /\ Statement(c)
  <2>1. PICK t : /\ GoesOn(c, t)
                 /\ t.step = step /\ t.at = tx[c].at /\ t.new = tx[c].new
    BY <1>1, <1>3, StepRecord DEF Step
  <2>2. /\ tx' \in [Callers -> Transaction \cup {NoRow}] /\ tx'[c] = t
        /\ rowOwner' \in [Rows -> Callers \cup {NoRow}]
        /\ OthersUntouched(c)
        /\ \A r \in Rows : rowOwner[r] = c => rowOwner'[r] = c
    BY <1>1, <1>3, <2>1, GoesOnType DEF Rows
  <2>3. rowOwner'["lease"] = c /\ tx[c].deployment \in Rows
    BY <1>1, <1>3, TxType DEF Take, TypeOK, Rows
  <2>4. /\ t.op = tx[c].op /\ t.deployment = tx[c].deployment
        /\ t.token = tx[c].token
    BY <2>1 DEF GoesOn
  <2>5. ~t.new
    BY <1>1, <2>1 DEF TransactionOK, StepsFit
  <2>6. HasLeaseRow(c)'
    BY <1>1, <1>3, <2>1, <2>2, <2>3, <2>4, <2>5 DEF HasLeaseRow, RowAccepted,
       database
  <2>7. HasIntentRow(c)'
    BY <1>1, <1>3, <2>1, <2>2, <2>3, <2>4 DEF TransactionOK, HasIntentRow,
       database
  <2>8. TransactionOK(c)'
    BY <1>1, <1>3, <2>1, <2>2, <2>4, <2>5, <2>6, <2>7 DEF TransactionOK,
       NamesItsLease, StepsFit, database
  <2> QED BY <1>1, <1>3, <2>1, <2>2, <2>8, OneTransaction DEF Statement
<1> QED BY <1>2, <1>3 DEF LockLease

\* Without the row an acquisition goes on to its INSERT.
LEMMA LeaseNotFoundPreserves ==
  ASSUME Inv, NEW c \in Callers, LeaseNotFound(c)
  PROVE  Inv' /\ Statement(c)
<1>1. /\ TypeOK /\ tx[c] # NoRow /\ tx[c].step = "lock" /\ UNCHANGED now
      /\ TransactionOK(c)
  BY DEF Inv, LeaseNotFound, At
<1>2. CASE Rollback(c)
  BY <1>1, <1>2, RollbackPreserves DEF Statement
<1>3. ASSUME tx[c].op = "acquire", Goto(c, "insert"),
             UNCHANGED <<database, rowOwner>>
      PROVE  Inv' /\ Statement(c)
  <2>1. PICK t : /\ GoesOn(c, t)
                 /\ t.step = "insert" /\ t.at = tx[c].at /\ t.new = tx[c].new
    BY <1>1, <1>3, StepRecord DEF Step
  <2>2. /\ tx' \in [Callers -> Transaction \cup {NoRow}] /\ tx'[c] = t
        /\ rowOwner' \in [Rows -> Callers \cup {NoRow}]
        /\ OthersUntouched(c)
    BY <1>1, <1>3, <2>1, GoesOnType
  <2>3. /\ t.op = tx[c].op /\ t.deployment = tx[c].deployment
        /\ t.token = tx[c].token
    BY <2>1 DEF GoesOn
  <2>4. TransactionOK(c)'
    BY <1>1, <1>3, <2>1, <2>2, <2>3 DEF TransactionOK, NamesItsLease,
       HasLeaseRow, HasIntentRow, StepsFit, database
  <2> QED BY <1>1, <1>3, <2>1, <2>2, <2>4, OneTransaction DEF Statement
<1> QED BY <1>2, <1>3 DEF LeaseNotFound

\* The INSERT keeps the key to itself until the transaction ends.
LEMMA InsertLeasePreserves ==
  ASSUME Inv, NEW c \in Callers, InsertLease(c)
  PROVE  Inv' /\ Statement(c)
<1>1. /\ TypeOK /\ tx[c] # NoRow /\ tx[c].step = "insert" /\ UNCHANGED now
      /\ TransactionOK(c) /\ Free("lease", c)
  BY DEF Inv, InsertLease, At
<1>2. CASE Rollback(c)
  BY <1>1, <1>2, RollbackPreserves DEF Statement
<1>3. ASSUME lock = NoRow, acquisitions < MaxAcquisitions, Take("lease", c),
             tx' = [tx EXCEPT ![c].step = "intent", ![c].new = TRUE],
             UNCHANGED database
      PROVE  Inv' /\ Statement(c)
  <2> DEFINE t == [tx[c] EXCEPT !.step = "intent", !.new = TRUE]
  <2>1. tx[c] \in Transaction
    BY <1>1, TxType
  <2>2. t \in Transaction
    BY <2>1 DEF Transaction, Step
  <2>3. /\ t.op = tx[c].op /\ t.deployment = tx[c].deployment
        /\ t.token = tx[c].token /\ t.step = "intent" /\ t.at = tx[c].at
        /\ t.new = TRUE
    BY <2>1 DEF Transaction
  <2>4. tx' = [tx EXCEPT ![c] = t]
    BY <1>3
  <2> HIDE DEF t
  <2>5. GoesOn(c, t)
    BY <2>2, <2>3, <2>4 DEF GoesOn
  <2>6. /\ tx' \in [Callers -> Transaction \cup {NoRow}] /\ tx'[c] = t
        /\ rowOwner' \in [Rows -> Callers \cup {NoRow}]
        /\ OthersUntouched(c)
    BY <1>1, <1>3, <2>5, GoesOnType DEF Rows
  <2>7. rowOwner'["lease"] = c /\ tx[c].op = "acquire"
    BY <1>1, <1>3 DEF Take, TypeOK, Rows, TransactionOK, StepsFit
  <2>8. TransactionOK(c)'
    BY <1>1, <1>3, <2>3, <2>6, <2>7 DEF TransactionOK, NamesItsLease,
       HasLeaseRow, HasIntentRow, StepsFit, database
  <2> QED BY <1>1, <1>3, <2>3, <2>5, <2>6, <2>8, OneTransaction DEF Statement
<1> QED BY <1>2, <1>3 DEF InsertLease

\* The foreign key locks the intent, or no new evidence row needs it.
LEMMA ReferToIntentPreserves ==
  ASSUME Inv, NEW c \in Callers, ReferToIntent(c)
  PROVE  Inv' /\ Statement(c)
<1>1. /\ TypeOK /\ tx[c] # NoRow /\ tx[c].step = "intent"
      /\ UNCHANGED <<database, now>> /\ TransactionOK(c) /\ Goto(c, "commit")
      /\ tx[c].deployment \in Rows
      /\ \/ Free(tx[c].deployment, c) /\ Take(tx[c].deployment, c)
         \/ UNCHANGED rowOwner
  BY TxType DEF Inv, ReferToIntent, At
<1>2. PICK t : /\ GoesOn(c, t)
               /\ t.step = "commit" /\ t.at = tx[c].at /\ t.new = tx[c].new
  BY <1>1, StepRecord DEF Step
<1>3. /\ tx' \in [Callers -> Transaction \cup {NoRow}] /\ tx'[c] = t
      /\ rowOwner' \in [Rows -> Callers \cup {NoRow}]
      /\ OthersUntouched(c)
      /\ \A r \in Rows : rowOwner[r] = c => rowOwner'[r] = c
  BY <1>1, <1>2, GoesOnType
<1>4. /\ t.op = tx[c].op /\ t.deployment = tx[c].deployment
      /\ t.token = tx[c].token
  BY <1>2 DEF GoesOn
<1>5. HasLeaseRow(c)'
  BY <1>1, <1>2, <1>3, <1>4 DEF TransactionOK, HasLeaseRow, RowAccepted,
     database, Rows
<1>6. HasIntentRow(c)'
  BY <1>1, <1>2, <1>3, <1>4 DEF TransactionOK, HasIntentRow, database
<1>7. TransactionOK(c)'
  BY <1>1, <1>2, <1>3, <1>4, <1>5, <1>6 DEF TransactionOK, NamesItsLease,
     StepsFit, database
<1> QED BY <1>1, <1>2, <1>3, <1>7, OneTransaction DEF Statement

-----------------------------------------------------------------------------
(* Commits                                                                 *)

\* A transaction that has the row of the lease commits: nobody else has
\* checked anything of that row.
LEMMA CommitPreserves ==
  ASSUME Inv, NEW c \in Callers, At(c, "commit"), EndTransaction(c),
         UNCHANGED now, TypeOK', LeaseIsBounded', StartedUnderOwnLease',
         \A b \in Callers \ {c} : held'[b] = held[b],
         \A d \in Deployments : \/ attempts'[d] = attempts[d]
                                \/ tx[c].op = "start" /\ d = tx[c].deployment
  PROVE  Inv'
<1>1. /\ TypeOK /\ rowOwner["lease"] = c /\ tx'[c] = NoRow
      /\ OthersUntouched(c) /\ tx[c] # NoRow
      /\ tx[c].op = "start" => rowOwner[tx[c].deployment] = c
  BY EndType DEF Inv, At, TransactionOK, HasLeaseRow, HasIntentRow
<1>2. ASSUME NEW b \in Callers, b # c PROVE TransactionOK(b)'
  <2>1. tx'[b] = tx[b] /\ TransactionOK(b) /\ held'[b] = held[b]
    BY <1>1, <1>2 DEF Inv, OthersUntouched
  <2>2. tx[b] # NoRow => /\ tx[b].deployment \in Rows
                         /\ tx[b].deployment \in Deployments
    BY <1>1, TxType
  <2>3. tx[b] # NoRow => tx[b].step \notin {"intent", "commit"}
    BY <1>1, <1>2, <2>1 DEF TransactionOK, HasLeaseRow
  <2>4. tx[b] # NoRow => HasIntentRow(b)'
    BY <1>1, <1>2, <2>1, <2>2 DEF TransactionOK, HasIntentRow, OthersUntouched
  <2> QED BY <2>1, <2>3, <2>4 DEF TransactionOK, NamesItsLease, HasLeaseRow,
             StepsFit
<1>3. TransactionOK(c)'
  BY <1>1 DEF TransactionOK
<1> QED BY <1>2, <1>3 DEF Inv

\* acquire_deployment_lock: a new row, or the one the deployment has already
LEMMA CommitAcquirePreserves ==
  ASSUME Inv, NEW c \in Callers, CommitAcquire(c)
  PROVE  Inv'
<1>1. /\ TypeOK /\ At(c, "commit") /\ EndTransaction(c)
      /\ UNCHANGED <<attempts, now>> /\ GiveLease(c, lock')
      /\ tx[c] # NoRow /\ tx[c].at <= now /\ HasLeaseRow(c)
      /\ tx[c].step = "commit"
  BY DEF Inv, CommitAcquire, At, TransactionOK
<1>2. /\ tx[c].deployment \in Deployments /\ tx[c].at \in Nat /\ now \in Nat
      /\ acquisitions \in Nat /\ LeaseTicks \in Nat
  BY <1>1, TxType, TransactionConstants DEF TypeOK
<1>3. /\ lock' \in LockRow /\ acquisitions' \in Nat
      /\ lock'.expires <= now + LeaseTicks
  <2>1. CASE tx[c].new
    <3>1. /\ acquisitions' = acquisitions + 1
          /\ lock' = [deployment |-> tx[c].deployment, token |-> 1,
                      acquired |-> tx[c].at,
                      expires |-> tx[c].at + LeaseTicks,
                      nth |-> acquisitions + 1]
      BY <2>1 DEF CommitAcquire
    <3>2. lock' \in LockRow /\ acquisitions' \in Nat
      BY <1>2, <3>1 DEF LockRow
    <3> QED BY <1>1, <1>2, <3>1, <3>2
  <2>2. CASE ~tx[c].new
    <3>1. UNCHANGED <<lock, acquisitions>> /\ lock # NoRow
      BY <1>1, <2>2 DEF CommitAcquire, HasLeaseRow
    <3> QED BY <1>1, <1>2, <3>1 DEF Inv, LeaseIsBounded, TypeOK
  <2> QED BY <2>1, <2>2
<1>4. /\ held' \in [Callers -> ProductionLease \cup {NoRow}]
      /\ \A b \in Callers \ {c} : held'[b] = held[b]
  <2>1. [deployment |-> lock'.deployment, token |-> lock'.token]
           \in ProductionLease
    BY <1>3 DEF LockRow, ProductionLease
  <2> QED BY <1>1, <2>1 DEF GiveLease, TypeOK
<1>5. TypeOK'
  BY <1>1, <1>3, <1>4, EndType DEF TypeOK
<1>6. LeaseIsBounded' /\ StartedUnderOwnLease'
  BY <1>1, <1>3 DEF Inv, LeaseIsBounded, StartedUnderOwnLease
<1> QED BY <1>1, <1>4, <1>5, <1>6, CommitPreserves

\* renew_deployment_lock: a stale clock never makes the lease longer than
\* one lease time from now.
LEMMA CommitRenewPreserves ==
  ASSUME Inv, NEW c \in Callers, CommitRenew(c)
  PROVE  Inv'
<1>1. /\ TypeOK /\ At(c, "commit") /\ EndTransaction(c)
      /\ UNCHANGED <<attempts, held, acquisitions, now>>
      /\ tx[c] # NoRow /\ tx[c].at <= now /\ HasLeaseRow(c)
      /\ tx[c].step = "commit" /\ ~tx[c].new
      /\ lock' = [lock EXCEPT !.expires = tx[c].at + LeaseTicks]
  BY DEF Inv, CommitRenew, At, TransactionOK, StepsFit
<1>2. lock \in LockRow
  BY <1>1 DEF HasLeaseRow, TypeOK
<1>3. tx[c].at \in Nat /\ now \in Nat /\ LeaseTicks \in Nat
  BY <1>1, TxType, TransactionConstants DEF TypeOK
<1>4. lock' \in LockRow /\ lock'.expires = tx[c].at + LeaseTicks
  BY <1>1, <1>2, <1>3 DEF LockRow
<1>5. TypeOK'
  BY <1>1, <1>4, EndType DEF TypeOK
<1>6. LeaseIsBounded' /\ StartedUnderOwnLease'
  BY <1>1, <1>3, <1>4 DEF Inv, LeaseIsBounded, StartedUnderOwnLease
<1> QED BY <1>1, <1>5, <1>6, CommitPreserves

\* release_deployment_lock deletes the row.
LEMMA CommitReleasePreserves ==
  ASSUME Inv, NEW c \in Callers, CommitRelease(c)
  PROVE  Inv'
<1>1. /\ TypeOK /\ At(c, "commit") /\ EndTransaction(c)
      /\ UNCHANGED <<attempts, acquisitions, now>> /\ lock' = NoRow
      /\ held' = [held EXCEPT ![c] = NoRow]
  BY DEF Inv, CommitRelease
<1>2. TypeOK'
  BY <1>1, EndType DEF TypeOK
<1>3. LeaseIsBounded' /\ StartedUnderOwnLease'
  BY <1>1 DEF Inv, LeaseIsBounded, StartedUnderOwnLease
<1>4. \A b \in Callers \ {c} : held'[b] = held[b]
  BY <1>1 DEF TypeOK
<1> QED BY <1>1, <1>2, <1>3, <1>4, CommitPreserves

\* start_production_deployment inserts the attempt under the lease of its
\* own deployment.
LEMMA CommitStartPreserves ==
  ASSUME Inv, NEW c \in Callers, CommitStart(c)
  PROVE  /\ Inv'
         /\ \A d \in Deployments :
               attempts[d] # NoRow => attempts'[d] = attempts[d]
<1>1. /\ TypeOK /\ At(c, "commit") /\ EndTransaction(c) /\ tx[c].op = "start"
      /\ UNCHANGED <<lock, held, acquisitions, now>>
      /\ tx[c] # NoRow /\ HasLeaseRow(c) /\ HasIntentRow(c)
      /\ tx[c].step = "commit" /\ ~tx[c].new
      /\ attempts' = [attempts EXCEPT ![tx[c].deployment] =
                         [token |-> tx[c].token, lessee |-> lock.deployment]]
  BY DEF Inv, CommitStart, At, TransactionOK, StepsFit
<1>2. /\ lock \in LockRow /\ lock.deployment = tx[c].deployment
      /\ tx[c].deployment \in Deployments /\ tx[c].token \in Nat
  BY <1>1, TxType DEF HasLeaseRow, RowAccepted, TypeOK
<1>3. [token |-> tx[c].token, lessee |-> lock.deployment] \in Attempt
  BY <1>2 DEF Attempt
<1>4. /\ attempts' \in [Deployments -> Attempt \cup {NoRow}]
      /\ attempts'[tx[c].deployment].lessee = tx[c].deployment
      /\ \A d \in Deployments :
            d # tx[c].deployment => attempts'[d] = attempts[d]
  BY <1>1, <1>2, <1>3 DEF TypeOK
<1>5. TypeOK'
  BY <1>1, <1>4, EndType DEF TypeOK
<1>6. LeaseIsBounded' /\ StartedUnderOwnLease'
  BY <1>1, <1>4 DEF Inv, LeaseIsBounded, StartedUnderOwnLease
<1>7. \A d \in Deployments : attempts[d] # NoRow => attempts'[d] = attempts[d]
  BY <1>1, <1>4 DEF HasIntentRow
<1> QED BY <1>1, <1>4, <1>5, <1>6, <1>7, CommitPreserves

\* Time passes: no clock value lies in the future, no lease gets longer.
LEMMA TickPreserves == ASSUME Inv, ClockTick PROVE Inv'
<1>1. TypeOK /\ now \in Nat /\ now' = now + 1 /\ now' \in Nat
      /\ UNCHANGED <<database, tx, rowOwner>>
  BY DEF Inv, TypeOK, ClockTick
<1>2. TypeOK'
  BY <1>1 DEF TypeOK, database
<1>3. ASSUME NEW c \in Callers PROVE TransactionOK(c)'
  <2>1. tx[c] # NoRow => tx[c].at \in Nat
    BY <1>1, TxType
  <2>2. tx[c] # NoRow /\ tx[c].at <= now => tx'[c].at <= now'
    BY <1>1, <2>1
  <2> QED BY <1>1, <2>2 DEF Inv, TransactionOK, NamesItsLease, HasLeaseRow,
             HasIntentRow, StepsFit, RowAccepted, database
<1>4. LeaseIsBounded'
  <2>1. lock # NoRow => lock.expires \in Nat
    BY <1>1 DEF TypeOK, LockRow
  <2>2. LeaseTicks \in Nat
    BY TransactionConstants
  <2> QED BY <1>1, <2>1, <2>2 DEF Inv, LeaseIsBounded, database
<1>5. StartedUnderOwnLease'
  BY <1>1 DEF Inv, StartedUnderOwnLease, database
<1> QED BY <1>2, <1>3, <1>4, <1>5 DEF Inv

-----------------------------------------------------------------------------
(* Every step                                                              *)

\* A statement of an open transaction is what Statement says.
LEMMA StatementsPreserve ==
  ASSUME Inv, NEW c \in Callers,
         \/ Locks(c) \/ SelectLease(c) \/ LeaseNotFound(c)
         \/ DeadlockAbort(c) \/ TransactionFails(c)
  PROVE  Inv' /\ Statement(c)
<1>1. CASE DeadlockAbort(c) \/ TransactionFails(c)
  BY <1>1, RollbackPreserves DEF DeadlockAbort, TransactionFails, Statement
<1> QED BY <1>1, StartLocksIntentPreserves, SelectLeasePreserves,
           LockLeasePreserves, LeaseNotFoundPreserves, InsertLeasePreserves,
           ReferToIntentPreserves DEF Locks

\* Every step preserves the invariant.
LEMMA NextInv == Inv /\ [Next]_vars => Inv'
<1> SUFFICES ASSUME Inv, [Next]_vars PROVE Inv'
  OBVIOUS
<1>1. CASE UNCHANGED vars
  BY <1>1 DEF vars, Inv, TypeOK, TransactionOK, NamesItsLease, HasLeaseRow,
     HasIntentRow, StepsFit, RowAccepted, LeaseIsBounded, StartedUnderOwnLease
<1>2. CASE Next
  BY <1>2, BeginPreserves, StatementsPreserve, CommitAcquirePreserves,
     CommitRenewPreserves, CommitReleasePreserves, CommitStartPreserves,
     TickPreserves DEF Next, Runs
<1> QED BY <1>1, <1>2

\* The invariant holds in every reachable state.
LEMMA Invariant == Spec => []Inv
  BY InitInv, NextInv, PTL DEF Spec

-----------------------------------------------------------------------------
(* Theorems                                                                *)

\* Every variable of the transactions keeps its type.
THEOREM TypeCorrect == Spec => []TypeOK
  BY Invariant, PTL DEF Inv

\* No attempt is started under the lease of another deployment, however long
\* start_production_deployment waits for the row.
THEOREM StartsAreOwn == Spec => []StartedUnderOwnLease
  BY Invariant, PTL DEF Inv

\* No lease ends later than one lease time from now, although a renewal
\* reads the clock before it waits for the row.
THEOREM LeasesAreBounded == Spec => []LeaseIsBounded
  BY Invariant, PTL DEF Inv

\* An attempt that was started is neither replaced nor removed.
AttemptsAreFinal ==
    [][\A d \in Deployments :
          attempts[d] # NoRow => attempts'[d] = attempts[d]]_vars

\* Two concurrent starts of one deployment never both insert an attempt: the
\* second finds the first under the lock of the intent
\* (start_production_deployment).
THEOREM StartedOnce == Spec => AttemptsAreFinal
<1>1. Inv /\ [Next]_vars =>
        [\A d \in Deployments : attempts[d] # NoRow =>
                                   attempts'[d] = attempts[d]]_vars
  <2> SUFFICES ASSUME Inv, Next
               PROVE  \A d \in Deployments : attempts[d] # NoRow =>
                                                attempts'[d] = attempts[d]
    OBVIOUS
  <2>1. ASSUME NEW c \in Callers, Statement(c) PROVE UNCHANGED attempts
    BY <2>1 DEF Statement, Rollback, database
  <2>2. ASSUME NEW c \in Callers,
               \/ Begins(c) \/ CommitAcquire(c) \/ CommitRenew(c)
               \/ CommitRelease(c)
        PROVE  UNCHANGED attempts
    BY <2>2 DEF Begins, BeginAcquire, BeginWithLease, CommitAcquire,
       CommitRenew, CommitRelease, database
  <2>3. ClockTick => UNCHANGED attempts
    BY DEF ClockTick, database
  <2> QED BY <2>1, <2>2, <2>3, StatementsPreserve, CommitStartPreserves
          DEF Next, Runs
<1> QED BY <1>1, Invariant, PTL DEF Spec, AttemptsAreFinal

-----------------------------------------------------------------------------
(* The atomic operations                                                   *)

LockOps == [c \in Callers |-> LockOp(c)]

\* The operation of a caller as the atomic specification sees it
LEMMA OpSeen ==
  ASSUME TypeOK, NEW c \in Callers
  PROVE  /\ tx[c] # NoRow /\ tx[c].op \in {"acquire", "renew"} =>
               /\ LockOp(c) # NoRow
               /\ LockOp(c).op = tx[c].op /\ LockOp(c).at = tx[c].at
               /\ LockOp(c).deployment = tx[c].deployment
         /\ ~(tx[c] # NoRow /\ tx[c].op \in {"acquire", "renew"}) =>
               LockOp(c) = NoRow
         /\ LockOps[c] = LockOp(c)
<1>1. CASE tx[c] # NoRow /\ tx[c].op \in {"acquire", "renew"}
  <2>1. LockOp(c) = [op |-> tx[c].op, deployment |-> tx[c].deployment,
                     at |-> tx[c].at]
    BY <1>1 DEF LockOp
  <2>2. LockOp(c) \in Operation
    BY <1>1, <2>1, TxType DEF Operation
  <2> QED BY <1>1, <2>1, <2>2, AbsenceIsNoRecord DEF LockOps
<1>2. CASE ~(tx[c] # NoRow /\ tx[c].op \in {"acquire", "renew"})
  BY <1>2 DEF LockOp, LockOps
<1> QED BY <1>1, <1>2

\* When the other transactions stay as they are, one operation changes.
LEMMA OneOpChanges ==
  ASSUME NEW c \in Callers, \A b \in Callers \ {c} : tx'[b] = tx[b]
  PROVE  /\ LockOps' = [LockOps EXCEPT ![c] = LockOp(c)']
         /\ LockOp(c)' = LockOp(c) => LockOps' = LockOps
<1>1. \A b \in Callers \ {c} : LockOp(b)' = LockOp(b)
  BY DEF LockOp
<1> QED BY <1>1 DEF LockOps

\* A transaction that is rolled back is an operation that failed; one that
\* goes on is not seen.
LEMMA StatementSimulated ==
  ASSUME Inv, NEW c \in Callers, Statement(c), tx[c] # NoRow
  PROVE  \/ Atomic!LockStep(c) /\ UNCHANGED now
         \/ UNCHANGED <<lock, LockOps, held, acquisitions, now>>
<1>1. TypeOK /\ UNCHANGED <<lock, held, acquisitions, now>>
  BY DEF Inv, Statement, Rollback, database
<1>2. CASE Rollback(c)
  <2>1. tx'[c] = NoRow /\ \A b \in Callers \ {c} : tx'[b] = tx[b]
    BY <1>1, <1>2 DEF Rollback, TypeOK
  <2>2. LockOp(c)' = NoRow
    BY <2>1 DEF LockOp
  <2>3. CASE LockOp(c) = NoRow
    BY <1>1, <2>1, <2>2, <2>3, OneOpChanges
  <2>4. CASE LockOp(c) # NoRow
    <3>1. Atomic!LockOpFails(c)
      BY <1>1, <2>1, <2>2, <2>4, OneOpChanges, OpSeen DEF Atomic!LockOpFails,
         Atomic!EndOp, LockOps
    <3> QED BY <1>1, <3>1 DEF Atomic!LockStep
  <2> QED BY <2>3, <2>4
<1>3. ASSUME NEW t, GoesOn(c, t), t.op # "start" => t.at = tx[c].at
      PROVE  UNCHANGED LockOps
  <2>1. /\ tx'[c] = t /\ t \in Transaction
        /\ \A b \in Callers \ {c} : tx'[b] = tx[b]
    BY <1>1, <1>3 DEF GoesOn, TypeOK
  <2>2. t # NoRow
    BY <2>1, AbsenceIsNoRecord
  <2>3. LockOp(c)' = LockOp(c)
    BY <1>3, <2>1, <2>2 DEF LockOp, GoesOn
  <2> QED BY <2>1, <2>3, OneOpChanges
<1> QED BY <1>1, <1>2, <1>3 DEF Statement

\* The clock read of an acquisition or a renewal begins the operation; a
\* release and a start begin unseen.
LEMMA BeginSimulated ==
  ASSUME Inv, NEW c \in Callers, Begins(c)
  PROVE  \/ Atomic!LockStep(c) /\ UNCHANGED now
         \/ UNCHANGED <<lock, LockOps, held, acquisitions, now>>
<1>1. /\ TypeOK /\ UNCHANGED <<lock, held, acquisitions, now>>
      /\ tx[c] = NoRow
  BY DEF Inv, Begins, BeginAcquire, BeginWithLease, database
<1>2. LockOps[c] = NoRow /\ LockOp(c) = NoRow
  BY <1>1, OpSeen
<1>3. ASSUME NEW op \in {"acquire", "renew", "release", "start"},
             NEW d \in Deployments, NEW token \in Nat,
             NEW step \in {"select", "startIntent"},
             Begin(c, op, d, token, step)
      PROVE  /\ op \in {"acquire", "renew"} =>
                   LockOps' = [LockOps EXCEPT ![c] =
                                  [op |-> op, deployment |-> d, at |-> now]]
             /\ op \notin {"acquire", "renew"} => LockOps' = LockOps
  <2> DEFINE t == [op |-> op, deployment |-> d, token |-> token,
                   at |-> IF op \in {"acquire", "renew"} THEN now ELSE 0,
                   step |-> step, saw |-> 0, new |-> FALSE]
  <2>1. t \in Transaction
    <3>1. now \in Nat
      BY <1>1 DEF TypeOK
    <3> QED BY <3>1 DEF Transaction, Step
  <2>2. /\ t # NoRow /\ t.op = op /\ t.deployment = d
        /\ op \in {"acquire", "renew"} => t.at = now
    BY <2>1, AbsenceIsNoRecord
  <2>3. tx' = [tx EXCEPT ![c] = t]
    BY <1>3 DEF Begin
  <2> HIDE DEF t
  <2>4. tx'[c] = t /\ \A b \in Callers \ {c} : tx'[b] = tx[b]
    BY <1>1, <2>3 DEF TypeOK
  <2>5. /\ op \in {"acquire", "renew"} =>
              LockOp(c)' = [op |-> op, deployment |-> d, at |-> now]
        /\ op \notin {"acquire", "renew"} => LockOp(c)' = NoRow
    BY <2>2, <2>4 DEF LockOp
  <2> QED BY <1>2, <2>4, <2>5, OneOpChanges
<1>4. ASSUME NEW d \in Deployments, BeginAcquire(c, d)
      PROVE  Atomic!LockStep(c)
  <2>1. Begin(c, "acquire", d, 0, "select")
    BY <1>4 DEF BeginAcquire
  <2>2. Atomic!BeginAcquire(c, d)
    BY <1>1, <1>2, <1>3, <2>1 DEF Atomic!BeginAcquire, LockOps
  <2> QED BY <2>2 DEF Atomic!LockStep
<1>5. ASSUME NEW op \in {"renew", "release", "start"}, BeginWithLease(c, op)
      PROVE  \/ Atomic!LockStep(c)
             \/ UNCHANGED LockOps
  <2>1. /\ held[c] # NoRow /\ held[c].deployment \in Deployments
        /\ held[c].token \in Nat
    BY <1>1, <1>5 DEF BeginWithLease, TypeOK, ProductionLease
  <2>2. CASE op = "renew"
    <3>1. Begin(c, "renew", held[c].deployment, held[c].token, "select")
      BY <1>5, <2>2 DEF BeginWithLease
    <3>2. Atomic!BeginRenew(c)
      BY <1>1, <1>2, <1>3, <2>1, <3>1 DEF Atomic!BeginRenew, LockOps
    <3> QED BY <3>2 DEF Atomic!LockStep
  <2>3. CASE op # "renew"
    <3>1. PICK step \in {"select", "startIntent"} :
             Begin(c, op, held[c].deployment, held[c].token, step)
      BY <1>5 DEF BeginWithLease
    <3> QED BY <1>3, <2>1, <2>3, <3>1
  <2> QED BY <2>2, <2>3
<1> QED BY <1>1, <1>4, <1>5 DEF Begins

\* What an operation checked when it had locked the row holds at its commit,
\* so the commit is the atomic operation.
LEMMA CommitSimulated ==
  ASSUME Inv, NEW c \in Callers,
         \/ CommitAcquire(c) \/ CommitRenew(c) \/ CommitRelease(c)
         \/ CommitStart(c)
  PROVE  \/ Atomic!LockStep(c) /\ UNCHANGED now
         \/ UNCHANGED <<lock, LockOps, held, acquisitions, now>>
<1>1. /\ TypeOK /\ tx[c] # NoRow /\ tx[c].step = "commit" /\ TransactionOK(c)
      /\ EndTransaction(c) /\ UNCHANGED now
  BY DEF Inv, CommitAcquire, CommitRenew, CommitRelease, CommitStart, At
<1>2. LockOps' = [LockOps EXCEPT ![c] = NoRow]
      /\ (LockOp(c) = NoRow => LockOps' = LockOps)
  <2>1. tx'[c] = NoRow /\ \A b \in Callers \ {c} : tx'[b] = tx[b]
    BY <1>1, EndType DEF OthersUntouched
  <2>2. LockOp(c)' = NoRow
    BY <2>1 DEF LockOp
  <2> QED BY <2>1, <2>2, OneOpChanges
<1>3. CASE CommitAcquire(c)
  <2>1. /\ LockOp(c) # NoRow /\ LockOps[c] = LockOp(c)
        /\ LockOp(c).op = "acquire" /\ LockOp(c).at = tx[c].at
        /\ LockOp(c).deployment = tx[c].deployment
    BY <1>1, <1>3, OpSeen DEF CommitAcquire
  <2>2. CASE tx[c].new
    <3>1. lock = NoRow /\ acquisitions < MaxAcquisitions
      BY <1>1, <2>2 DEF TransactionOK, HasLeaseRow
    <3>2. Atomic!InsertLock(c)
      BY <1>2, <1>3, <2>1, <2>2, <3>1 DEF CommitAcquire, Atomic!InsertLock,
         GiveLease, Atomic!GiveLease, Atomic!EndOp, LockOps
    <3> QED BY <1>1, <3>2 DEF Atomic!LockStep
  <2>3. CASE ~tx[c].new
    <3>1. /\ lock # NoRow /\ lock.deployment = tx[c].deployment
          /\ lock.expires > tx[c].at
      BY <1>1, <1>3, <2>3 DEF TransactionOK, HasLeaseRow, RowAccepted,
         CommitAcquire
    <3>2. Atomic!ReacquireLock(c)
      BY <1>2, <1>3, <2>1, <2>3, <3>1 DEF CommitAcquire,
         Atomic!ReacquireLock, GiveLease, Atomic!GiveLease, Atomic!EndOp,
         LockOps
    <3> QED BY <1>1, <3>2 DEF Atomic!LockStep
  <2> QED BY <2>2, <2>3
<1>4. CASE CommitRenew(c) \/ CommitRelease(c) \/ CommitStart(c)
  <2>1. /\ held[c] # NoRow /\ lock # NoRow
        /\ lock.deployment = held[c].deployment /\ lock.token = held[c].token
        /\ tx[c].op = "renew" => /\ lock.expires > tx[c].at
                                 /\ tx[c].at + LeaseTicks > lock.acquired
    BY <1>1, <1>4 DEF TransactionOK, StepsFit, HasLeaseRow, RowAccepted,
       NamesItsLease, CommitRenew, CommitRelease, CommitStart
  <2>2. CASE CommitRenew(c)
    <3>1. /\ LockOp(c) # NoRow /\ LockOps[c] = LockOp(c)
          /\ LockOp(c).op = "renew" /\ LockOp(c).at = tx[c].at
      BY <1>1, <2>2, OpSeen DEF CommitRenew
    <3>2. Atomic!RenewLock(c)
      BY <1>2, <2>1, <2>2, <3>1 DEF CommitRenew, Atomic!RenewLock,
         Atomic!OwnsRow, Atomic!EndOp, LockOps
    <3> QED BY <1>1, <3>2 DEF Atomic!LockStep
  <2>3. CASE CommitRelease(c)
    <3>1. LockOp(c) = NoRow /\ LockOps[c] = NoRow
      BY <1>1, <2>3, OpSeen DEF CommitRelease
    <3>2. Atomic!ReleaseLock(c)
      BY <1>2, <2>1, <2>3, <3>1 DEF CommitRelease, Atomic!ReleaseLock,
         Atomic!OwnsRow, LockOps
    <3> QED BY <1>1, <3>2 DEF Atomic!LockStep
  <2>4. CASE CommitStart(c)
    <3>1. LockOp(c) = NoRow
      BY <1>1, <2>4, OpSeen DEF CommitStart
    <3> QED BY <1>1, <1>2, <2>4, <3>1 DEF CommitStart
  <2> QED BY <1>4, <2>2, <2>3, <2>4
<1> QED BY <1>3, <1>4

\* The transactions implement the atomic operations of ProductionLock: each
\* commit is one of them, and nothing before it can be seen.
THEOREM Refinement == Spec => ImplementsLease
<1>1. Init => Atomic!LockInit
  BY DEF Init, Atomic!LockInit, LockOp
<1>2. Inv /\ [Next]_vars =>
        [Atomic!LockNext]_<<Atomic!lockVars, now>>
  <2> SUFFICES ASSUME Inv, [Next]_vars
               PROVE  \/ Atomic!LockNext
                      \/ UNCHANGED <<Atomic!lockVars, now>>
    OBVIOUS
  <2>1. CASE UNCHANGED <<lock, LockOps, held, acquisitions, now>>
    BY <2>1 DEF Atomic!lockVars, LockOps
  <2>2. ASSUME NEW c \in Callers, Atomic!LockStep(c) /\ UNCHANGED now
        PROVE  Atomic!LockNext
    BY <2>2 DEF Atomic!LockNext
  <2>3. CASE UNCHANGED vars
    <3>1. UNCHANGED LockOps
      BY <2>3 DEF vars, LockOps, LockOp
    <3> QED BY <2>1, <2>3, <3>1 DEF vars
  <2>4. CASE ClockTick
    <3>1. UNCHANGED LockOps
      BY <2>4 DEF ClockTick, LockOps, LockOp
    <3> QED BY <2>4, <3>1 DEF ClockTick, Atomic!LockNext, Atomic!ClockTick,
               Atomic!lockVars, LockOps, database
  <2>5. ASSUME NEW c \in Callers, Begins(c)
        PROVE  Atomic!LockNext \/ UNCHANGED <<Atomic!lockVars, now>>
    BY <2>1, <2>2, <2>5, BeginSimulated
  <2>6. ASSUME NEW c \in Callers,
               \/ Locks(c) \/ SelectLease(c) \/ LeaseNotFound(c)
               \/ DeadlockAbort(c) \/ TransactionFails(c)
        PROVE  Atomic!LockNext \/ UNCHANGED <<Atomic!lockVars, now>>
    <3>1. Statement(c)
      BY <2>6, StatementsPreserve
    <3>2. CASE tx[c] # NoRow
      BY <2>1, <2>2, <3>1, <3>2, StatementSimulated
    <3>3. CASE tx[c] = NoRow
      <4>1. DeadlockAbort(c)
        BY <2>6, <3>3 DEF Locks, StartLocksIntent, LockLease, InsertLease,
           ReferToIntent, SelectLease, LeaseNotFound, TransactionFails, At
      <4>2. PICK d \in Callers : WaitsFor(c, d)
        BY <4>1 DEF DeadlockAbort, InWaitCycle
      <4> QED BY <3>3, <4>2 DEF WaitsFor, Wants
    <3> QED BY <3>2, <3>3
  <2>7. ASSUME NEW c \in Callers,
               \/ CommitAcquire(c) \/ CommitRenew(c) \/ CommitRelease(c)
               \/ CommitStart(c)
        PROVE  Atomic!LockNext \/ UNCHANGED <<Atomic!lockVars, now>>
    BY <2>1, <2>2, <2>7, CommitSimulated
  <2> QED BY <2>3, <2>4, <2>5, <2>6, <2>7 DEF Next, Runs
<1> QED BY <1>1, <1>2, Invariant, PTL DEF Spec, ImplementsLease, Atomic!LockSpec
=============================================================================
