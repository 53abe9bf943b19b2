--------------------------- MODULE IdentityProofs ---------------------------
(***************************************************************************)
(* Theorems about the identity authority, for every set of subjects,       *)
(* principals, callers and handlers, and every time.                       *)
(***************************************************************************)
EXTENDS Identity, FiniteSetTheorems, SequenceTheorems, TLAPS

-----------------------------------------------------------------------------
(* The inductive invariant                                                 *)

RowsOf(s) == {m \in mappings : m.subject = s}

\* The rows of a subject are numbered from 1, and the last one is open.
Numbered(s) ==
    LET n == Cardinality(RowsOf(s)) IN
    /\ IsFiniteSet(RowsOf(s))
    /\ \A v \in 1 .. n : \E m \in RowsOf(s) : m.version = v
    /\ \A m \in RowsOf(s) : m.version <= n /\ (m.to = Nobody <=> m.version = n)

\* uq_external_identities_mapping_version
VersionsUnique ==
    \A m, n \in mappings :
        m.subject = n.subject /\ m.version = n.version => m = n

\* A version begins when the one before it ends.
Adjacent ==
    \A m, n \in mappings :
        m.subject = n.subject /\ n.version = m.version + 1 =>
            m.from < m.to /\ n.from = m.to

\* The rows stand for humans, and no two humans for one user.
PeopleKnown ==
    /\ \A m \in mappings : Human(m.principal)
    /\ \A j, k \in Keys :
          Human(j) /\ Human(k) /\ principals[j].user = principals[k].user =>
              j = k

\* The assignment a has locked the open row and may replace it.
Replaces(a) ==
    /\ rowOwner[tx[a].subject] = a
    /\ \E m \in Current(a) :
          /\ m.principal # tx[a].principal
          /\ tx[a].step = "insert" => m.from < tx[a].at

\* What an assignment knows at every statement: it inserts a version after
\* the one it has locked, or after none.
AssignmentOK(a) ==
    tx[a] # Nobody =>
        /\ Human(tx[a].principal) /\ tx[a].at <= now
        /\ tx[a].step = "select" => tx[a].saw = 0
        /\ tx[a].step \in {"lock", "close"} => tx[a].saw # 0
        /\ tx[a].step \in {"close", "insert"} /\ tx[a].saw # 0 => Replaces(a)

\* A row says what was resolved or recorded.
Attributed(r) ==
    \E m \in mappings :
        /\ m.subject = r.subject /\ m.version = r.version
        /\ Human(m.principal) /\ principals[m.principal].user = r.user

ReadersOK ==
    /\ \A c \in Clients : resolved[c] # Nobody => Attributed(resolved[c])
    /\ \A r \in records : Attributed(r)

Inv == /\ TypeOK
       /\ \A s \in Subjects : Numbered(s)
       /\ VersionsUnique /\ Adjacent /\ PeopleKnown
       /\ \A a \in Admins : AssignmentOK(a)
       /\ ReadersOK

\* The invariant holds in the initial state.
LEMMA InitInv == Init => Inv
<1> SUFFICES ASSUME Init PROVE Inv
  OBVIOUS
<1>1. TypeOK
  BY IdentityConstants DEF Init, TypeOK
<1>2. mappings = {} /\ records = {}
  BY DEF Init
<1>3. ASSUME NEW s \in Subjects PROVE Numbered(s)
  <2>1. RowsOf(s) = {}
    BY <1>2 DEF RowsOf
  <2>2. IsFiniteSet(RowsOf(s)) /\ Cardinality(RowsOf(s)) = 0
    BY <2>1, FS_EmptySet
  <2> QED BY <2>1, <2>2 DEF Numbered
<1>4. VersionsUnique /\ Adjacent
  BY <1>2 DEF VersionsUnique, Adjacent
<1>5. PeopleKnown
  BY <1>2 DEF Init, PeopleKnown, Human
<1>6. \A a \in Admins : AssignmentOK(a)
  BY DEF Init, AssignmentOK
<1>7. ReadersOK
  BY <1>2 DEF Init, ReadersOK
<1> QED BY <1>1, <1>3, <1>4, <1>5, <1>6, <1>7 DEF Inv

-----------------------------------------------------------------------------
(* The rows of a subject                                                   *)

\* How many rows a subject has is a number.
LEMMA RowCount ==
  ASSUME Inv, NEW s \in Subjects
  PROVE  /\ IsFiniteSet(RowsOf(s)) /\ Cardinality(RowsOf(s)) \in Nat
         /\ Cardinality(RowsOf(s)) = 0 <=> RowsOf(s) = {}
<1>1. IsFiniteSet(RowsOf(s))
  BY DEF Inv, Numbered
<1> QED BY <1>1, FS_CardinalityType, FS_EmptySet

\* The rows have their type.
LEMMA RowType ==
  ASSUME Inv, NEW m \in mappings
  PROVE  /\ m \in ExternalIdentity /\ m.subject \in Subjects
         /\ m.version \in Nat \ {0} /\ m.principal \in Keys /\ m.from \in Nat
         /\ m.to \in Nat \cup {Nobody} /\ m \in RowsOf(m.subject)
<1>1. m \in ExternalIdentity
  BY DEF Inv, TypeOK
<1> QED BY <1>1 DEF ExternalIdentity, RowsOf

\* A subject with rows has one that is open, and that is the last one.
LEMMA OneOpenRow ==
  ASSUME Inv, NEW m \in mappings
  PROVE  \E n \in mappings : /\ OpenMappings(m.subject) = {n}
                             /\ n.subject = m.subject /\ n.to = Nobody
                             /\ n.version = Cardinality(RowsOf(m.subject))
<1> DEFINE s == m.subject
           count == Cardinality(RowsOf(s))
<1>1. s \in Subjects /\ m \in RowsOf(s)
  BY RowType
<1>2. count \in Nat /\ count # 0
  BY <1>1, RowCount
<1>3. Numbered(s)
  BY <1>1 DEF Inv
<1>4. PICK n \in RowsOf(s) : n.version = count
  BY <1>2, <1>3 DEF Numbered
<1>5. n \in mappings /\ n.subject = s /\ n.to = Nobody
  BY <1>3, <1>4 DEF Numbered, RowsOf
<1>6. ASSUME NEW o \in mappings, o.subject = s, o.to = Nobody
      PROVE  o = n
  <2>1. o \in RowsOf(s)
    BY <1>6 DEF RowsOf
  <2>2. o.version = count
    BY <1>3, <1>6, <2>1 DEF Numbered
  <2> QED BY <1>4, <1>5, <1>6, <2>2 DEF Inv, VersionsUnique
<1>7. OpenMappings(s) = {n}
  BY <1>5, <1>6 DEF OpenMappings
<1> QED BY <1>4, <1>5, <1>7

\* Every row is there with its principal and its beginning, and every
\* principal stays what it is.
TablesKept ==
    /\ \A m \in mappings :
          \E n \in mappings' : /\ n.subject = m.subject
                               /\ n.version = m.version
                               /\ n.principal = m.principal
    /\ \A k \in Keys : Human(k) => /\ principals'[k] # Nobody
                                   /\ principals'[k].type = "HUMAN"
                                   /\ principals'[k].user = principals[k].user

\* Attributed in the next state
StillAttributed(r) ==
    \E m \in mappings' :
        /\ m.subject = r.subject /\ m.version = r.version
        /\ principals'[m.principal] # Nobody
        /\ principals'[m.principal].type = "HUMAN"
        /\ principals'[m.principal].user = r.user

\* What was resolved or recorded can still be attributed.
LEMMA AttributionKept ==
  ASSUME Inv, TablesKept, NEW r, Attributed(r)
  PROVE  StillAttributed(r)
<1>1. PICK m \in mappings : /\ m.subject = r.subject /\ m.version = r.version
                            /\ Human(m.principal)
                            /\ principals[m.principal].user = r.user
  BY DEF Attributed
<1>2. PICK n \in mappings' : /\ n.subject = m.subject /\ n.version = m.version
                             /\ n.principal = m.principal
  BY DEF TablesKept
<1>3. m.principal \in Keys
  BY RowType
<1>4. /\ principals'[m.principal] # Nobody
      /\ principals'[m.principal].type = "HUMAN"
      /\ principals'[m.principal].user = r.user
  BY <1>1, <1>3 DEF TablesKept
<1> QED BY <1>1, <1>2, <1>4 DEF StillAttributed

\* The readers are not disturbed by the two operations.
LEMMA ReadersKept ==
  ASSUME Inv, TablesKept, UNCHANGED <<resolved, records>>
  PROVE  ReadersOK'
<1>1. \A c \in Clients : resolved[c] # Nobody => StillAttributed(resolved[c])
  BY AttributionKept DEF Inv, ReadersOK
<1>2. \A r \in records : StillAttributed(r)
  BY AttributionKept DEF Inv, ReadersOK
<1> QED BY <1>1, <1>2 DEF ReadersOK, StillAttributed, Attributed, Human

\* When no row changes, what the invariant says of the rows stays true.
LEMMA RowsKept ==
  ASSUME Inv, UNCHANGED mappings,
         \A k \in Keys : Human(k) => /\ principals'[k] # Nobody
                                     /\ principals'[k].type = "HUMAN"
                                     /\ principals'[k].user = principals[k].user
  PROVE  /\ TablesKept /\ \A s \in Subjects : Numbered(s)'
         /\ VersionsUnique' /\ Adjacent'
         /\ \A m \in mappings : Human(m.principal)'
<1>1. TablesKept
  BY DEF TablesKept
<1>2. ASSUME NEW s \in Subjects PROVE Numbered(s)'
  <2>1. Numbered(s) /\ RowsOf(s)' = RowsOf(s)
    BY DEF Inv, RowsOf
  <2> QED BY <2>1 DEF Numbered
<1>3. VersionsUnique' /\ Adjacent'
  BY DEF Inv, VersionsUnique, Adjacent
<1>4. ASSUME NEW m \in mappings PROVE Human(m.principal)'
  <2>1. Human(m.principal) /\ m.principal \in Keys
    BY RowType DEF Inv, PeopleKnown
  <2> QED BY <2>1 DEF Human
<1> QED BY <1>1, <1>2, <1>3, <1>4

\* The other assignments, when the rows they rely on stay.
LEMMA OtherAssignments ==
  ASSUME Inv, TablesKept, NEW a \in Admins, now <= now', now' \in Nat,
         \A b \in Admins \ {a} : tx'[b] = tx[b],
         \A b \in Admins \ {a}, s \in Subjects :
             rowOwner[s] = b => rowOwner'[s] = b,
         \A b \in Admins \ {a} : \A m \in mappings :
             tx[b] # Nobody /\ rowOwner[tx[b].subject] = b /\ m \in Current(b)
             => m \in mappings'
  PROVE  \A b \in Admins \ {a} : AssignmentOK(b)'
<1> SUFFICES ASSUME NEW b \in Admins \ {a}, tx[b] # Nobody
             PROVE  AssignmentOK(b)'
  BY DEF AssignmentOK
<1>1. tx'[b] = tx[b] /\ AssignmentOK(b)
  BY DEF Inv
<1>2. tx[b] \in Transaction
  BY DEF Inv, TypeOK
<1>3. /\ tx[b].subject \in Subjects /\ tx[b].principal \in Keys
      /\ tx[b].at \in Nat /\ now \in Nat
  BY <1>2, IdentityConstants DEF Transaction, Inv, TypeOK
<1>4. Human(tx[b].principal) /\ tx[b].at <= now
  BY <1>1 DEF AssignmentOK
<1>5. /\ principals'[tx[b].principal] # Nobody
      /\ principals'[tx[b].principal].type = "HUMAN"
  BY <1>3, <1>4 DEF TablesKept
<1>6. tx[b].at <= now'
  BY <1>3, <1>4
<1>7. ASSUME Replaces(b) PROVE Replaces(b)'
  <2>1. PICK m \in Current(b) :
           /\ m.principal # tx[b].principal
           /\ tx[b].step = "insert" => m.from < tx[b].at
    BY <1>7 DEF Replaces
  <2>2. rowOwner[tx[b].subject] = b /\ rowOwner'[tx[b].subject] = b
    BY <1>3, <1>7 DEF Replaces
  <2>3. /\ m \in mappings /\ m.subject = tx[b].subject /\ m.to = Nobody
        /\ m.version = tx[b].saw
    BY DEF Current, OpenMappings
  <2>4. m \in mappings'
    BY <2>2, <2>3
  <2>5. m \in Current(b)'
    BY <1>1, <2>3, <2>4 DEF Current, OpenMappings
  <2> QED BY <1>1, <2>1, <2>2, <2>5 DEF Replaces
<1> QED BY <1>1, <1>5, <1>6, <1>7 DEF AssignmentOK, Human

-----------------------------------------------------------------------------
(* Steps that change no row                                                *)

\* Such a step of the assignment a keeps the invariant.
LEMMA AssignmentStep ==
  ASSUME Inv, NEW a \in Admins, AssignmentOK(a)',
         tx' \in [Admins -> Transaction \cup {Nobody}],
         rowOwner' \in [Subjects -> Admins \cup {Nobody}],
         \A b \in Admins \ {a} : tx'[b] = tx[b],
         \A b \in Admins \ {a}, s \in Subjects :
             rowOwner[s] = b => rowOwner'[s] = b,
         UNCHANGED <<principals, mappings, resolved, records, now>>
  PROVE  Inv'
<1>1. /\ TablesKept /\ \A s \in Subjects : Numbered(s)'
      /\ VersionsUnique' /\ Adjacent'
      /\ \A m \in mappings : Human(m.principal)'
  BY RowsKept DEF Human
<1>2. TypeOK'
  BY DEF Inv, TypeOK
<1>3. PeopleKnown'
  BY <1>1 DEF Inv, PeopleKnown, Human
<1>4. now <= now' /\ now' \in Nat
  BY IdentityConstants DEF Inv, TypeOK
<1>5. \A b \in Admins \ {a} : AssignmentOK(b)'
  BY <1>1, <1>4, OtherAssignments
<1> QED BY <1>1, <1>2, <1>3, <1>5, ReadersKept DEF Inv

\* The end of a transaction: the others keep their rows.
LEMMA EndFacts ==
  ASSUME Inv, NEW a \in Admins, EndTransaction(a)
  PROVE  /\ tx' \in [Admins -> Transaction \cup {Nobody}]
         /\ rowOwner' \in [Subjects -> Admins \cup {Nobody}]
         /\ tx'[a] = Nobody /\ AssignmentOK(a)'
         /\ \A b \in Admins \ {a} : tx'[b] = tx[b]
         /\ \A b \in Admins \ {a}, s \in Subjects :
                rowOwner[s] = b => rowOwner'[s] = b
<1>1. TypeOK
  BY DEF Inv
<1>2. tx'[a] = Nobody
  BY <1>1 DEF EndTransaction, TypeOK
<1>3. AssignmentOK(a)'
  BY <1>2 DEF AssignmentOK
<1> QED BY <1>1, <1>2, <1>3 DEF EndTransaction, TypeOK

Statements == {"select", "lock", "close", "insert"}

\* The transaction at another statement, with the version it has seen
Moved(t, step, saw) == [t EXCEPT !.step = step, !.saw = saw]

\* The names of the statements
LEMMA StatementNames == "lock" \in Statements /\ "close" \in Statements
                        /\ "insert" \in Statements
  BY DEF Statements

\* It is a transaction about the same subject and principal.
LEMMA MovedFacts ==
  ASSUME NEW t \in Transaction, NEW saw \in Nat,
         NEW step \in Statements
  PROVE  /\ Moved(t, step, saw) \in Transaction
         /\ Moved(t, step, saw).step = step /\ Moved(t, step, saw).saw = saw
         /\ Moved(t, step, saw).subject = t.subject
         /\ Moved(t, step, saw).principal = t.principal
         /\ Moved(t, step, saw).at = t.at
  BY DEF Transaction, Moved, Statements

\* human_principal_required, and the clock is read.
LEMMA BeginPreserves ==
  ASSUME Inv, NEW a \in Admins, NEW s \in Subjects, NEW k \in Keys,
         BeginAssign(a, s, k)
  PROVE  Inv'
<1> DEFINE t == [subject |-> s, principal |-> k, at |-> now, saw |-> 0,
                 step |-> "select"]
<1>1. now \in Nat /\ TypeOK
  BY IdentityConstants DEF Inv, TypeOK
<1>2. /\ t \in Transaction /\ t.step = "select" /\ t.saw = 0 /\ t.at = now
      /\ t.principal = k
  BY <1>1 DEF Transaction
<1>3. /\ tx' = [tx EXCEPT ![a] = t] /\ Human(k)
      /\ UNCHANGED <<principals, mappings, rowOwner, resolved, records, now>>
  BY DEF BeginAssign
<1> HIDE DEF t
<1>4. tx'[a] = t
  BY <1>1, <1>3 DEF TypeOK
<1>5. AssignmentOK(a)'
  BY <1>1, <1>2, <1>3, <1>4 DEF AssignmentOK, Human
<1> QED BY <1>1, <1>2, <1>3, <1>5, AssignmentStep DEF TypeOK

\* The assignment goes on to a statement that needs no row lock.
LEMMA GoesOn ==
  ASSUME Inv, NEW a \in Admins, tx[a] # Nobody, NEW saw \in Nat,
         NEW step \in {"lock", "insert"},
         step = "lock" <=> saw # 0,
         tx' = [tx EXCEPT ![a] = Moved(tx[a], step, saw)],
         UNCHANGED <<principals, mappings, rowOwner, resolved, records, now>>
  PROVE  Inv'
<1> DEFINE u == Moved(tx[a], step, saw)
<1>1. TypeOK /\ tx[a] \in Transaction /\ AssignmentOK(a)
  BY DEF Inv, TypeOK
<1>2. /\ u \in Transaction /\ u.step = step /\ u.saw = saw
      /\ u.principal = tx[a].principal /\ u.at = tx[a].at
  <2>1. step \in Statements
    BY DEF Statements
  <2> QED BY <1>1, <2>1, MovedFacts
<1>3. tx' = [tx EXCEPT ![a] = u]
  BY DEF u
<1> HIDE DEF u
<1>4. tx'[a] = u
  BY <1>1, <1>3 DEF TypeOK
<1>5. AssignmentOK(a)'
  BY <1>1, <1>2, <1>4 DEF AssignmentOK, Human
<1> QED BY <1>1, <1>2, <1>3, <1>5, AssignmentStep DEF TypeOK

\* The SELECT finds the open row, or there is none.
LEMMA SelectPreserves ==
  ASSUME Inv, NEW a \in Admins, SelectCurrent(a)
  PROVE  Inv'
<1>1. /\ tx[a] # Nobody /\ tx[a].step = "select" /\ tx[a].saw = 0
      /\ tx[a] \in Transaction
      /\ UNCHANGED <<principals, mappings, rowOwner, resolved, records, now>>
  BY DEF Inv, TypeOK, SelectCurrent, At, AssignmentOK
<1>2. CASE Goto(a, "insert")
  <2>1. tx' = [tx EXCEPT ![a] = [tx[a] EXCEPT !.step = "insert"]]
    BY <1>2 DEF Goto
  <2>2. Moved(tx[a], "insert", 0) = [tx[a] EXCEPT !.step = "insert"]
    BY <1>1 DEF Moved, Transaction
  <2>3. PICK st \in {"lock", "insert"} : st = "insert"
    OBVIOUS
  <2>4. PICK saw \in Nat : saw = 0
    OBVIOUS
  <2>5. tx' = [tx EXCEPT ![a] = Moved(tx[a], st, saw)]
    BY <2>1, <2>2, <2>3, <2>4
  <2> QED BY <1>1, <2>3, <2>4, <2>5, GoesOn
<1>3. ASSUME NEW m \in OpenMappings(tx[a].subject),
             tx' = [tx EXCEPT ![a].step = "lock", ![a].saw = m.version]
      PROVE  Inv'
  <2>1. m.version \in Nat /\ m.version # 0
    BY RowType DEF OpenMappings
  <2>2. tx' = [tx EXCEPT ![a] = Moved(tx[a], "lock", m.version)]
    BY <1>3 DEF Moved
  <2> QED BY <1>1, <2>1, <2>2, GoesOn
<1> QED BY <1>2, <1>3 DEF SelectCurrent

\* The row was closed while this waited.
LEMMA GonePreserves ==
  ASSUME Inv, NEW a \in Admins, CurrentIsGone(a)
  PROVE  Inv'
<1>1. /\ tx[a] # Nobody
      /\ tx' = [tx EXCEPT ![a] = Moved(tx[a], "insert", 0)]
      /\ UNCHANGED <<principals, mappings, rowOwner, resolved, records, now>>
  BY DEF CurrentIsGone, At, Moved
<1> QED BY <1>1, GoesOn

\* The row is locked for another principal, or is for this one.
LEMMA LockPreserves ==
  ASSUME Inv, NEW a \in Admins, LockCurrent(a)
  PROVE  Inv'
<1>1. /\ TypeOK /\ tx[a] # Nobody /\ tx[a].step = "lock" /\ tx[a].saw # 0
      /\ tx[a] \in Transaction /\ tx[a].subject \in Subjects
      /\ tx[a].saw \in Nat /\ AssignmentOK(a)
      /\ rowOwner[tx[a].subject] = Nobody
      /\ UNCHANGED <<principals, mappings, resolved, records, now>>
  <2>1. /\ TypeOK /\ tx[a] # Nobody /\ tx[a].step = "lock"
        /\ AssignmentOK(a) /\ rowOwner[tx[a].subject] = Nobody
        /\ UNCHANGED <<principals, mappings, resolved, records, now>>
    BY DEF Inv, LockCurrent, At
  <2>2. tx[a] \in Transaction
    BY <2>1 DEF TypeOK
  <2>3. tx[a].subject \in Subjects /\ tx[a].saw \in Nat
    BY <2>2 DEF Transaction
  <2> QED BY <2>1, <2>2, <2>3 DEF AssignmentOK
<1>2. CASE EndTransaction(a)
  BY <1>1, <1>2, EndFacts, AssignmentStep
<1>3. ASSUME NEW m \in Current(a), m.principal # tx[a].principal,
             rowOwner' = [rowOwner EXCEPT ![m.subject] = a], Goto(a, "close")
      PROVE  Inv'
  <2>0. PICK st \in Statements : st = "close"
    BY StatementNames
  <2> DEFINE u == Moved(tx[a], st, tx[a].saw)
  <2>1. /\ u \in Transaction /\ u.step = "close" /\ u.saw = tx[a].saw
        /\ u.subject = tx[a].subject /\ u.principal = tx[a].principal
        /\ u.at = tx[a].at
    BY <1>1, <2>0, MovedFacts
  <2> u = [tx[a] EXCEPT !.step = "close"]
    BY <1>1, <2>0 DEF Moved, Transaction
  <2>2. tx' = [tx EXCEPT ![a] = u]
    BY <1>3, <2>1 DEF Goto
  <2> HIDE DEF u
  <2>3. tx'[a] = u /\ \A b \in Admins \ {a} : tx'[b] = tx[b]
    BY <1>1, <2>2 DEF TypeOK
  <2>4. /\ m \in mappings /\ m.subject = tx[a].subject /\ m.to = Nobody
        /\ m.version = tx[a].saw
    BY DEF Current, OpenMappings
  <2>5. /\ rowOwner' \in [Subjects -> Admins \cup {Nobody}]
        /\ rowOwner'[tx[a].subject] = a
        /\ \A b \in Admins \ {a}, s \in Subjects :
              rowOwner[s] = b => rowOwner'[s] = b
    BY <1>1, <1>3, <2>4, IdentityConstants DEF TypeOK
  <2>6. m \in Current(a)'
    BY <1>1, <2>1, <2>3, <2>4 DEF Current, OpenMappings
  <2>7. Replaces(a)'
    BY <1>1, <1>3, <2>1, <2>3, <2>5, <2>6 DEF Replaces
  <2>8. AssignmentOK(a)'
    BY <1>1, <2>1, <2>3, <2>7 DEF AssignmentOK, Human
  <2> QED BY <1>1, <2>1, <2>2, <2>3, <2>5, <2>8, AssignmentStep DEF TypeOK
<1> QED BY <1>2, <1>3 DEF LockCurrent

\* The row can be closed at the time that was read, or the trigger refuses.
LEMMA ClosePreserves ==
  ASSUME Inv, NEW a \in Admins, CloseCurrent(a)
  PROVE  Inv'
<1>1. /\ TypeOK /\ tx[a] # Nobody /\ tx[a].step = "close" /\ tx[a].saw # 0
      /\ tx[a] \in Transaction /\ tx[a].saw \in Nat /\ AssignmentOK(a)
      /\ Replaces(a)
      /\ UNCHANGED <<principals, mappings, resolved, records, now>>
  <2>1. /\ TypeOK /\ tx[a] # Nobody /\ tx[a].step = "close"
        /\ AssignmentOK(a)
        /\ UNCHANGED <<principals, mappings, resolved, records, now>>
    BY DEF Inv, CloseCurrent, At
  <2>2. tx[a] \in Transaction
    BY <2>1 DEF TypeOK
  <2>3. tx[a].saw \in Nat
    BY <2>2 DEF Transaction
  <2> QED BY <2>1, <2>2, <2>3 DEF AssignmentOK
<1>2. CASE EndTransaction(a)
  BY <1>1, <1>2, EndFacts, AssignmentStep
<1>3. CASE /\ \A m \in Current(a) : m.from < tx[a].at
           /\ Goto(a, "insert") /\ UNCHANGED rowOwner
  <2>0. PICK st \in Statements : st = "insert"
    BY StatementNames
  <2> DEFINE u == Moved(tx[a], st, tx[a].saw)
  <2>1. /\ u \in Transaction /\ u.step = "insert" /\ u.saw = tx[a].saw
        /\ u.subject = tx[a].subject /\ u.principal = tx[a].principal
        /\ u.at = tx[a].at
    BY <1>1, <2>0, MovedFacts
  <2> u = [tx[a] EXCEPT !.step = "insert"]
    BY <1>1, <2>0 DEF Moved, Transaction
  <2>2. tx' = [tx EXCEPT ![a] = u]
    BY <1>3, <2>1 DEF Goto
  <2> HIDE DEF u
  <2>3. tx'[a] = u /\ \A b \in Admins \ {a} : tx'[b] = tx[b]
    BY <1>1, <2>2 DEF TypeOK
  <2>4. PICK m \in Current(a) : m.principal # tx[a].principal
    BY <1>1 DEF Replaces
  <2>5. m \in Current(a)'
    BY <1>1, <2>1, <2>3, <2>4 DEF Current, OpenMappings
  <2>6. m.from < tx[a].at /\ rowOwner'[tx[a].subject] = a
    BY <1>1, <1>3 DEF Replaces
  <2>7. Replaces(a)'
    BY <2>1, <2>3, <2>4, <2>5, <2>6 DEF Replaces
  <2>8. AssignmentOK(a)'
    BY <1>1, <2>1, <2>3, <2>7 DEF AssignmentOK, Human
  <2> QED BY <1>1, <1>3, <2>1, <2>2, <2>3, <2>8, AssignmentStep DEF TypeOK
<1> QED BY <1>2, <1>3 DEF CloseCurrent

\* A lost connection
LEMMA FailsPreserves ==
  ASSUME Inv, NEW a \in Admins, AssignFails(a)
  PROVE  Inv'
  BY EndFacts, AssignmentStep DEF AssignFails

\* The assignments, when no row, transaction or row lock changes
LEMMA AssignmentsKept ==
  ASSUME Inv, TablesKept, UNCHANGED <<mappings, tx, rowOwner>>, now <= now',
         now' \in Nat
  PROVE  \A a \in Admins : AssignmentOK(a)'
<1> SUFFICES ASSUME NEW a \in Admins, tx[a] # Nobody PROVE AssignmentOK(a)'
  BY DEF AssignmentOK
<1>1. tx[a] \in Transaction /\ AssignmentOK(a) /\ now \in Nat
  BY IdentityConstants DEF Inv, TypeOK
<1>2. tx[a].principal \in Keys /\ tx[a].at \in Nat
  BY <1>1 DEF Transaction
<1>3. /\ principals'[tx[a].principal] # Nobody
      /\ principals'[tx[a].principal].type = "HUMAN"
  BY <1>1, <1>2 DEF TablesKept, AssignmentOK
<1>4. tx[a].at <= now'
  BY <1>1, <1>2 DEF AssignmentOK
<1>5. Replaces(a) => Replaces(a)'
  BY DEF Replaces, Current, OpenMappings
<1> QED BY <1>1, <1>3, <1>4, <1>5 DEF AssignmentOK, Human

\* A principal is provisioned: the others stay what they are, and the user
\* is a new one.
LEMMA ProvisionPreserves ==
  ASSUME Inv, NEW k \in Keys, NEW p \in Principal, ProvisionPrincipal(k, p)
  PROVE  Inv'
<1>1. /\ TypeOK /\ principals[k] = Nobody
      /\ \A j \in Keys : Human(j) => principals[j].user # p.user
      /\ principals' = [principals EXCEPT ![k] = p]
      /\ UNCHANGED <<mappings, tx, rowOwner, resolved, records, now>>
  BY DEF Inv, ProvisionPrincipal
<1>2. \A j \in Keys : principals'[j] = IF j = k THEN p ELSE principals[j]
  BY <1>1 DEF TypeOK
<1>3. \A j \in Keys : Human(j) => /\ principals'[j] # Nobody
                                  /\ principals'[j].type = "HUMAN"
                                  /\ principals'[j].user = principals[j].user
  BY <1>1, <1>2 DEF Human
<1>4. /\ TablesKept /\ \A s \in Subjects : Numbered(s)'
      /\ VersionsUnique' /\ Adjacent'
      /\ \A m \in mappings : Human(m.principal)'
  BY <1>1, <1>3, RowsKept
<1>5. TypeOK'
  BY <1>1 DEF TypeOK
<1>6. PeopleKnown'
  <2>1. ASSUME NEW i \in Keys, NEW j \in Keys,
               principals'[i] # Nobody, principals'[i].type = "HUMAN",
               principals'[j] # Nobody, principals'[j].type = "HUMAN",
               principals'[i].user = principals'[j].user
        PROVE  i = j
    <3>1. CASE i = k /\ j # k
      BY <1>1, <1>2, <2>1, <3>1 DEF Human
    <3>2. CASE i # k /\ j = k
      BY <1>1, <1>2, <2>1, <3>2 DEF Human
    <3>3. CASE i # k /\ j # k
      BY <1>2, <2>1, <3>3 DEF Human, Inv, PeopleKnown
    <3> QED BY <3>1, <3>2, <3>3
  <2> QED BY <1>1, <1>4, <2>1 DEF PeopleKnown, Human
<1>7. now <= now' /\ now' \in Nat
  BY <1>1, IdentityConstants DEF TypeOK
<1> QED BY <1>1, <1>4, <1>5, <1>6, <1>7, AssignmentsKept, ReadersKept DEF Inv

\* A step of a reader or of the clock
LEMMA ReaderStep ==
  ASSUME Inv, UNCHANGED <<principals, mappings, tx, rowOwner>>, TypeOK',
         now <= now', ReadersOK'
  PROVE  Inv'
<1>1. /\ TablesKept /\ \A s \in Subjects : Numbered(s)'
      /\ VersionsUnique' /\ Adjacent'
      /\ \A m \in mappings : Human(m.principal)'
  BY RowsKept DEF Human
<1>2. PeopleKnown'
  BY <1>1 DEF Inv, PeopleKnown, Human
<1>3. now' \in Nat
  BY IdentityConstants DEF TypeOK
<1> QED BY <1>1, <1>2, <1>3, AssignmentsKept DEF Inv

\* resolve_feishu_principal finds the person a row stands for.
LEMMA ResolvePreserves ==
  ASSUME Inv, NEW c \in Clients, NEW s \in Subjects, Resolve(c, s)
  PROVE  Inv'
<1>1. /\ TypeOK
      /\ UNCHANGED <<principals, mappings, tx, rowOwner, records, now>>
  BY DEF Inv, Resolve
<1>2. PICK m \in FoundMappings(s) :
         resolved' = [resolved EXCEPT ![c] =
             [subject |-> s, version |-> m.version,
              user |-> principals[m.principal].user]]
  BY DEF Resolve
<1> DEFINE r == [subject |-> s, version |-> m.version,
                 user |-> principals[m.principal].user]
<1>3. m \in mappings /\ m.subject = s /\ Human(m.principal)
  BY DEF FoundMappings, OpenMappings
<1>4. m.version \in Nat /\ m.principal \in Keys
  BY <1>3, RowType
<1>5. principals[m.principal].user \in Users
  <2>1. principals[m.principal] \in Principal
    BY <1>1, <1>3, <1>4 DEF TypeOK, Human
  <2> QED BY <1>3, <2>1 DEF Principal, Human
<1>6. r \in Attribution /\ r.subject = s /\ r.version = m.version
      /\ r.user = principals[m.principal].user
  BY <1>4, <1>5 DEF Attribution
<1> HIDE DEF r
<1>7. resolved' = [resolved EXCEPT ![c] = r]
  BY <1>2 DEF r
<1>8. TypeOK'
  BY <1>1, <1>6, <1>7 DEF TypeOK
<1>9. Attributed(r)
  BY <1>3, <1>6 DEF Attributed
<1>10. \A d \in Clients : resolved'[d] # Nobody => Attributed(resolved'[d])
  BY <1>1, <1>7, <1>9 DEF TypeOK, Inv, ReadersOK
<1>11. ReadersOK'
  BY <1>1, <1>10 DEF Inv, ReadersOK, Attributed, Human
<1>12. now <= now'
  BY <1>1 DEF TypeOK
<1> QED BY <1>1, <1>8, <1>11, <1>12, ReaderStep

\* What was resolved is recorded, or not.
LEMMA RecordPreserves ==
  ASSUME Inv, NEW c \in Clients, Record(c) \/ RecordFails(c)
  PROVE  Inv'
<1>1. /\ TypeOK /\ resolved[c] # Nobody
      /\ resolved' = [resolved EXCEPT ![c] = Nobody]
      /\ records' \in {records, records \cup {resolved[c]}}
      /\ UNCHANGED <<principals, mappings, tx, rowOwner, now>>
  BY DEF Inv, Record, RecordFails
<1>2. resolved[c] \in Attribution /\ Attributed(resolved[c])
  BY <1>1 DEF TypeOK, Inv, ReadersOK
<1>3. TypeOK'
  BY <1>1, <1>2 DEF TypeOK
<1>4. \A d \in Clients : resolved'[d] # Nobody => Attributed(resolved'[d])
  BY <1>1 DEF TypeOK, Inv, ReadersOK
<1>5. \A r \in records' : Attributed(r)
  BY <1>1, <1>2 DEF Inv, ReadersOK
<1>6. ReadersOK'
  BY <1>1, <1>4, <1>5 DEF ReadersOK, Attributed, Human
<1>7. now <= now'
  BY <1>1 DEF TypeOK
<1> QED BY <1>1, <1>3, <1>6, <1>7, ReaderStep

\* The clock goes on.
LEMMA TickPreserves ==
  ASSUME Inv, Tick
  PROVE  Inv'
<1>1. /\ TypeOK /\ now < MaxTime /\ now' = now + 1
      /\ UNCHANGED <<principals, mappings, tx, rowOwner, resolved, records>>
  BY DEF Inv, Tick
<1>2. now \in 0 .. MaxTime /\ MaxTime \in Nat
  BY <1>1, IdentityConstants DEF TypeOK
<1>3. now' \in 0 .. MaxTime /\ now <= now'
  BY <1>1, <1>2
<1>4. TypeOK'
  BY <1>1, <1>3 DEF TypeOK
<1>5. TablesKept
  BY <1>1, RowsKept DEF Human
<1> QED BY <1>1, <1>3, <1>4, <1>5, ReaderStep, ReadersKept

-----------------------------------------------------------------------------
(* The commit of an assignment                                             *)

\* A row when the open row of s is closed at the time at
Ended(s, at, m) ==
    IF m.subject = s /\ m.to = Nobody THEN [m EXCEPT !.to = at] ELSE m

\* The row that an assignment inserts
Row(s, version, k, at) ==
    [subject |-> s, version |-> version, principal |-> k, from |-> at,
     to |-> Nobody]

\* What closing does to a row
LEMMA EndedFacts ==
  ASSUME NEW m \in ExternalIdentity, NEW s, NEW at \in Nat
  PROVE  /\ Ended(s, at, m) \in ExternalIdentity
         /\ Ended(s, at, m).subject = m.subject
         /\ Ended(s, at, m).version = m.version
         /\ Ended(s, at, m).principal = m.principal
         /\ Ended(s, at, m).from = m.from
         /\ Ended(s, at, m).to =
               IF m.subject = s /\ m.to = Nobody THEN at ELSE m.to
  BY DEF ExternalIdentity, Ended

\* What the commit does: the open row is closed, and the next version is
\* there, for another principal and at a later time.
Commits(s, k, at) ==
    LET n == Cardinality(RowsOf(s)) IN
    /\ mappings' =
          {Ended(s, at, m) : m \in mappings} \cup {Row(s, n + 1, k, at)}
    /\ \A m \in RowsOf(s) : m.version = n => m.principal # k /\ m.from < at

\* A commit that is not refused does this: no version is used twice, because
\* the row of the version before is locked from the SELECT on.
LEMMA CommitShape ==
  ASSUME Inv, NEW a \in Admins, InsertAndCommit(a)
  PROVE  \/ UNCHANGED mappings
         \/ /\ Commits(tx[a].subject, tx[a].principal, tx[a].at)
            /\ RowsOf(tx[a].subject) = {} \/ rowOwner[tx[a].subject] = a
<1> DEFINE s == tx[a].subject
           n == Cardinality(RowsOf(s))
<1>1. tx[a] # Nobody /\ tx[a].step = "insert" /\ AssignmentOK(a)
  BY DEF Inv, InsertAndCommit, At
<1>2. tx[a] \in Transaction
  BY <1>1 DEF Inv, TypeOK
<1>3. s \in Subjects /\ tx[a].saw \in Nat /\ tx[a].at \in Nat
  BY <1>2 DEF Transaction
<1> SUFFICES ASSUME ~Conflicts(a), mappings' = Closed(a) \cup {NewMapping(a)}
             PROVE  /\ Commits(s, tx[a].principal, tx[a].at)
                    /\ RowsOf(s) = {} \/ rowOwner[s] = a
  BY DEF InsertAndCommit
<1>4. CASE tx[a].saw = 0
  <2>1. Current(a) = {}
    BY <1>4, RowType DEF Current, OpenMappings
  <2>2. Closed(a) = mappings
    BY <2>1 DEF Closed
  <2>3. RowsOf(s) = {}
    <3> SUFFICES ASSUME NEW m \in mappings, m.subject = s PROVE FALSE
      BY DEF RowsOf
    <3>1. PICK o \in mappings : o.subject = s /\ o.to = Nobody
      BY OneOpenRow
    <3> QED BY <2>2, <3>1 DEF Conflicts
  <2>4. n = 0
    BY <1>3, <2>3, RowCount
  <2>5. NewMapping(a) = Row(s, n + 1, tx[a].principal, tx[a].at)
    BY <1>4, <2>4 DEF NewMapping, Row
  <2>6. \A m \in mappings : Ended(s, tx[a].at, m) = m
    BY <2>3 DEF RowsOf, Ended
  <2>7. {Ended(s, tx[a].at, m) : m \in mappings} = mappings
    BY <2>6
  <2> QED BY <2>2, <2>3, <2>5, <2>7 DEF Commits
<1>5. CASE tx[a].saw # 0
  <2>1. PICK m \in Current(a) : m.principal # tx[a].principal
                                /\ m.from < tx[a].at
    BY <1>1, <1>5 DEF AssignmentOK, Replaces
  <2> rowOwner[s] = a
    BY <1>1, <1>5 DEF AssignmentOK, Replaces
  <2>2. /\ m \in mappings /\ m.subject = s /\ m.to = Nobody
        /\ m.version = tx[a].saw
    BY DEF Current, OpenMappings
  <2>3. OpenMappings(s) = {m} /\ m.version = n
    BY <2>2, OneOpenRow DEF OpenMappings
  <2>4. Current(a) = OpenMappings(s)
    BY <2>2, <2>3 DEF Current
  <2>5. \A o \in mappings : o \in Current(a) <=> o.subject = s /\ o.to = Nobody
    BY <2>4 DEF OpenMappings
  <2>6. Closed(a) = {Ended(s, tx[a].at, o) : o \in mappings}
    BY <2>5 DEF Closed, Ended
  <2>7. NewMapping(a) = Row(s, n + 1, tx[a].principal, tx[a].at)
    BY <2>2, <2>3 DEF NewMapping, Row
  <2>8. \A o \in RowsOf(s) : o.version = n => o = m
    BY <2>2, <2>3 DEF Inv, VersionsUnique, RowsOf
  <2> QED BY <2>1, <2>6, <2>7, <2>8 DEF Commits
<1> QED BY <1>4, <1>5

\* The rows after a commit: those before it, ended, and the new one.
LEMMA CommittedRows ==
  ASSUME Inv, NEW s \in Subjects, NEW k \in Keys, NEW at \in Nat,
         Commits(s, k, at)
  PROVE  LET n == Cardinality(RowsOf(s)) IN
         /\ mappings' \subseteq ExternalIdentity
         /\ Row(s, n + 1, k, at) \in mappings'
         /\ \A m \in mappings : Ended(s, at, m) \in mappings'
         /\ \A r \in mappings' : \/ r = Row(s, n + 1, k, at)
                                 \/ \E m \in mappings : r = Ended(s, at, m)
<1> DEFINE n == Cardinality(RowsOf(s))
<1>1. mappings' = {Ended(s, at, m) : m \in mappings} \cup {Row(s, n + 1, k, at)}
  BY DEF Commits
<1>2. n \in Nat
  BY RowCount
<1>3. Row(s, n + 1, k, at) \in ExternalIdentity
  BY <1>2 DEF Row, ExternalIdentity
<1>4. \A m \in mappings : Ended(s, at, m) \in ExternalIdentity
  BY EndedFacts, RowType
<1> QED BY <1>1, <1>3, <1>4

\* The fields of the new row
LEMMA RowFields ==
  ASSUME NEW s, NEW v, NEW k, NEW at
  PROVE  /\ Row(s, v, k, at).subject = s /\ Row(s, v, k, at).version = v
         /\ Row(s, v, k, at).principal = k /\ Row(s, v, k, at).from = at
         /\ Row(s, v, k, at).to = Nobody
  BY DEF Row

\* The subject has one row more.
LEMMA CommitCount ==
  ASSUME Inv, NEW s \in Subjects, NEW k \in Keys, NEW at \in Nat,
         Commits(s, k, at)
  PROVE  /\ IsFiniteSet(RowsOf(s)')
         /\ Cardinality(RowsOf(s)') = Cardinality(RowsOf(s)) + 1
<1> DEFINE n == Cardinality(RowsOf(s))
           row == Row(s, n + 1, k, at)
           old == {Ended(s, at, m) : m \in RowsOf(s)}
<1>1. /\ n \in Nat /\ IsFiniteSet(RowsOf(s)) /\ (n = 0 <=> RowsOf(s) = {})
      /\ Numbered(s)
  BY RowCount DEF Inv
<1>2. row.subject = s /\ row.version = n + 1
  BY RowFields
<1>3. \A m \in mappings : /\ Ended(s, at, m).subject = m.subject
                          /\ Ended(s, at, m).version = m.version
  BY RowType, EndedFacts
<1>4. RowsOf(s)' = old \cup {row}
  <2> HIDE DEF row
  <2>1. ASSUME NEW r \in mappings', r.subject = s PROVE r \in old \cup {row}
    <3>1. CASE r = row
      BY <3>1
    <3>2. ASSUME NEW m \in mappings, r = Ended(s, at, m) PROVE r \in old
      BY <1>3, <2>1, <3>2 DEF RowsOf
    <3> QED BY <2>1, <3>1, <3>2, CommittedRows DEF row
  <2>2. ASSUME NEW r \in old \cup {row} PROVE r \in mappings' /\ r.subject = s
    <3>1. CASE r = row
      BY <1>2, <3>1, CommittedRows DEF row
    <3>2. CASE r \in old
      BY <1>3, <3>2, CommittedRows, ZenonT(60) DEF RowsOf
    <3> QED BY <3>1, <3>2
  <2> QED BY <2>1, <2>2 DEF RowsOf
<1>5. row \notin old
  <2>1. ASSUME NEW m \in RowsOf(s), row = Ended(s, at, m) PROVE FALSE
    <3>1. m \in mappings /\ m.version <= n /\ m.version \in Nat
      BY <1>1, RowType DEF RowsOf, Numbered
    <3>2. m.version = n + 1
      BY <1>2, <1>3, <2>1, <3>1
    <3> QED BY <1>1, <3>1, <3>2
  <2> QED BY <2>1
<1>6. IsFiniteSet(old) /\ Cardinality(old) = n
  <2>1. CASE RowsOf(s) = {}
    <3>1. old = {}
      BY <2>1
    <3> QED BY <1>1, <2>1, <3>1, FS_EmptySet
  <2>2. CASE RowsOf(s) # {}
    <3>1. PICK m \in RowsOf(s) : m.version = n
      BY <1>1, <2>2 DEF Numbered
    <3>2. \A o \in RowsOf(s) : o.to = Nobody <=> o = m
      BY <1>1, <3>1 DEF Numbered, Inv, VersionsUnique, RowsOf
    <3>3. \A o \in RowsOf(s) \ {m} : Ended(s, at, o) = o
      BY <3>2 DEF Ended
    <3>4. old = (RowsOf(s) \ {m}) \cup {Ended(s, at, m)}
      BY <3>1, <3>3
    <3>5. Ended(s, at, m) \notin RowsOf(s) \ {m}
      <4>1. ASSUME NEW o \in RowsOf(s) \ {m}, o = Ended(s, at, m) PROVE FALSE
        <5>1. o \in mappings /\ m \in mappings /\ o.subject = m.subject
          BY <3>1 DEF RowsOf
        <5>2. o.version = m.version
          BY <1>3, <4>1, <5>1
        <5> QED BY <4>1, <5>1, <5>2 DEF Inv, VersionsUnique
      <4> QED BY <4>1
    <3>6. /\ IsFiniteSet(RowsOf(s) \ {m})
          /\ Cardinality(RowsOf(s) \ {m}) = n - 1
      BY <1>1, <3>1, FS_RemoveElement
    <3>7. /\ IsFiniteSet((RowsOf(s) \ {m}) \cup {Ended(s, at, m)})
          /\ Cardinality((RowsOf(s) \ {m}) \cup {Ended(s, at, m)}) = (n - 1) + 1
      BY <3>5, <3>6, FS_AddElement
    <3> HIDE DEF old
    <3> QED BY <1>1, <3>4, <3>7
  <2> QED BY <2>1, <2>2
<1> HIDE DEF old, row
<1>7. IsFiniteSet(old \cup {row}) /\ Cardinality(old \cup {row}) = n + 1
  BY <1>5, <1>6, FS_AddElement
<1> QED BY <1>4, <1>7

\* After a commit the rows are numbered, unique and adjacent, and stand for
\* the people they stood for.
LEMMA CommitKeepsRows ==
  ASSUME Inv, NEW s \in Subjects, NEW k \in Keys, NEW at \in Nat,
         Commits(s, k, at), Human(k), UNCHANGED principals
  PROVE  /\ TablesKept /\ \A t \in Subjects : Numbered(t)'
         /\ VersionsUnique' /\ Adjacent' /\ PeopleKnown'
<1> DEFINE n == Cardinality(RowsOf(s))
           row == Row(s, n + 1, k, at)
<1>1. /\ n \in Nat /\ Numbered(s) /\ at # Nobody
      /\ row \in mappings' /\ row.subject = s /\ row.version = n + 1
      /\ row.principal = k /\ row.from = at /\ row.to = Nobody
  BY RowCount, CommittedRows, RowFields, IdentityConstants DEF Inv
<1>2. ASSUME NEW m \in mappings
      PROVE  /\ Ended(s, at, m) \in mappings'
             /\ Ended(s, at, m).subject = m.subject
             /\ Ended(s, at, m).version = m.version
             /\ Ended(s, at, m).principal = m.principal
             /\ Ended(s, at, m).from = m.from
             /\ Ended(s, at, m).to =
                   IF m.subject = s /\ m.to = Nobody THEN at ELSE m.to
             /\ m.version \in Nat /\ m.subject \in Subjects
             /\ m.principal \in Keys /\ m \in RowsOf(m.subject)
  BY CommittedRows, RowType, EndedFacts
<1>3. \A r \in mappings' : r = row \/ \E m \in mappings : r = Ended(s, at, m)
  BY CommittedRows
<1> HIDE DEF row
<1>4. ASSUME NEW m \in mappings, m.subject = s
      PROVE  m.version <= n /\ m.version # n + 1
             /\ (m.to = Nobody <=> m.version = n)
  <2>1. m.version <= n /\ (m.to = Nobody <=> m.version = n)
    BY <1>1, <1>4 DEF Numbered, RowsOf
  <2> QED BY <1>1, <1>2, <2>1
<1>5. TablesKept
  <2>1. \A m \in mappings :
           \E r \in mappings' : /\ r.subject = m.subject
                                /\ r.version = m.version
                                /\ r.principal = m.principal
    BY <1>2
  <2> QED BY <2>1 DEF TablesKept, Human
<1>6. ASSUME NEW t \in Subjects PROVE Numbered(t)'
  <2>1. CASE t # s
    <3>1. ASSUME NEW m \in mappings, m.subject = t
          PROVE  Ended(s, at, m) = m
      BY <2>1, <3>1 DEF Ended
    <3>2. RowsOf(t)' = RowsOf(t)
      <4>1. ASSUME NEW r \in mappings', r.subject = t PROVE r \in RowsOf(t)
        <5>1. PICK m \in mappings : r = Ended(s, at, m)
          BY <1>1, <1>3, <2>1, <4>1
        <5> QED BY <1>2, <3>1, <4>1, <5>1 DEF RowsOf
      <4>2. ASSUME NEW m \in mappings, m.subject = t PROVE m \in mappings'
        BY <1>2, <3>1, <4>2
      <4> QED BY <4>1, <4>2 DEF RowsOf
    <3>3. Numbered(t)
      BY DEF Inv
    <3> QED BY <3>2, <3>3 DEF Numbered
  <2>2. CASE t = s
    <3>1. IsFiniteSet(RowsOf(s)') /\ Cardinality(RowsOf(s)') = n + 1
      BY CommitCount
    <3>2. ASSUME NEW v \in 1 .. n + 1
          PROVE  \E r \in RowsOf(s)' : r.version = v
      <4>1. CASE v = n + 1
        BY <1>1, <4>1 DEF RowsOf
      <4>2. CASE v # n + 1
        <5>1. v \in 1 .. n
          BY <1>1, <3>2, <4>2
        <5>2. PICK m \in RowsOf(s) : m.version = v
          BY <1>1, <5>1 DEF Numbered
        <5>3. m \in mappings /\ m.subject = s
          BY DEF RowsOf
        <5> QED BY <1>2, <5>2, <5>3 DEF RowsOf
      <4> QED BY <4>1, <4>2
    <3>3. ASSUME NEW r \in RowsOf(s)'
          PROVE  r.version <= n + 1 /\ (r.to = Nobody <=> r.version = n + 1)
      <4>1. r \in mappings' /\ r.subject = s
        BY DEF RowsOf
      <4>2. CASE r = row
        BY <1>1, <4>2
      <4>3. ASSUME NEW m \in mappings, r = Ended(s, at, m)
            PROVE  r.version <= n + 1 /\ (r.to = Nobody <=> r.version = n + 1)
        <5>1. m.subject = s /\ r.version = m.version /\ m.version \in Nat
          BY <1>2, <4>1, <4>3
        <5>2. r.to # Nobody
          BY <1>1, <1>2, <4>3, <5>1
        <5> QED BY <1>1, <1>4, <5>1, <5>2
      <4> QED BY <1>3, <4>1, <4>2, <4>3
    <3> QED BY <2>2, <3>1, <3>2, <3>3 DEF Numbered
  <2> QED BY <2>1, <2>2
<1>7. VersionsUnique'
  <2> SUFFICES ASSUME NEW q \in mappings', NEW r \in mappings',
                      q.subject = r.subject, q.version = r.version
               PROVE  q = r
    BY DEF VersionsUnique
  <2>1. ASSUME NEW m \in mappings, row.subject = m.subject,
               row.version = m.version
        PROVE  FALSE
    BY <1>1, <1>4, <2>1
  <2>2. ASSUME NEW m \in mappings, NEW o \in mappings,
               q = Ended(s, at, m), r = Ended(s, at, o)
        PROVE  q = r
    BY <1>2, <2>2 DEF Inv, VersionsUnique
  <2>3. CASE q = row /\ r # row
    BY <1>2, <1>3, <2>1, <2>3
  <2>4. CASE q # row /\ r = row
    BY <1>2, <1>3, <2>1, <2>4
  <2> QED BY <1>3, <2>2, <2>3, <2>4
<1>8. Adjacent'
  <2> SUFFICES ASSUME NEW q \in mappings', NEW r \in mappings',
                      q.subject = r.subject, r.version = q.version + 1
               PROVE  q.from < q.to /\ r.from = q.to
    BY DEF Adjacent
  <2>1. q # row
    <3> SUFFICES ASSUME q = row PROVE FALSE
      OBVIOUS
    <3>1. r.subject = s /\ r.version = (n + 1) + 1
      BY <1>1
    <3>2. r # row
      BY <1>1, <3>1
    <3>3. PICK m \in mappings : r = Ended(s, at, m)
      BY <1>3, <3>2
    <3>4. m.subject = s /\ m.version = (n + 1) + 1
      BY <1>2, <3>1, <3>3
    <3> QED BY <1>1, <1>2, <1>4, <3>4
  <2>2. PICK m \in mappings : q = Ended(s, at, m)
    BY <1>3, <2>1
  <2>3. q.subject = m.subject /\ q.version = m.version /\ q.from = m.from
    BY <1>2, <2>2
  <2>4. CASE r = row
    <3>1. m.subject = s /\ m.version = n
      <4>1. m.version \in Nat
        BY <1>2
      <4>2. m.subject = s /\ n + 1 = m.version + 1
        BY <1>1, <2>3, <2>4
      <4> QED BY <1>1, <4>1, <4>2
    <3>2. m.to = Nobody /\ m \in RowsOf(s)
      BY <1>4, <3>1 DEF RowsOf
    <3>3. q.to = at
      BY <1>2, <2>2, <3>1, <3>2
    <3>4. m.from < at
      BY <3>1, <3>2 DEF Commits
    <3> QED BY <1>1, <2>3, <2>4, <3>3, <3>4
  <2>5. ASSUME NEW o \in mappings, r = Ended(s, at, o)
        PROVE  q.from < q.to /\ r.from = q.to
    <3>1. /\ o.subject = m.subject /\ o.version = m.version + 1
          /\ r.from = o.from
      BY <1>2, <2>3, <2>5
    <3>2. m.from < m.to /\ o.from = m.to
      BY <3>1 DEF Inv, Adjacent
    <3>3. m.subject = s => m.to # Nobody
      <4> SUFFICES ASSUME m.subject = s, m.to = Nobody PROVE FALSE
        OBVIOUS
      <4>1. m.version = n /\ o.version <= n
        BY <1>4, <3>1
      <4> QED BY <1>1, <3>1, <4>1
    <3>4. q.to = m.to
      BY <1>2, <2>2, <3>3
    <3> QED BY <2>3, <3>1, <3>2, <3>4
  <2> QED BY <1>3, <2>4, <2>5
<1>9. PeopleKnown'
  <2>1. ASSUME NEW r \in mappings' PROVE Human(r.principal)
    BY <1>1, <1>2, <1>3 DEF Inv, PeopleKnown
  <2> QED BY <2>1 DEF Inv, PeopleKnown, Human
<1> QED BY <1>5, <1>6, <1>7, <1>8, <1>9

\* The insert is committed, or refused.
LEMMA InsertPreserves ==
  ASSUME Inv, NEW a \in Admins, InsertAndCommit(a)
  PROVE  Inv'
<1>1. /\ TypeOK /\ tx[a] # Nobody /\ AssignmentOK(a) /\ EndTransaction(a)
      /\ UNCHANGED <<principals, resolved, records, now>>
  BY DEF Inv, InsertAndCommit, At
<1>2. tx[a] \in Transaction
  BY <1>1 DEF TypeOK
<1>3. /\ tx[a].subject \in Subjects /\ tx[a].principal \in Keys
      /\ tx[a].at \in Nat /\ Human(tx[a].principal)
  BY <1>1, <1>2 DEF Transaction, AssignmentOK
<1>4. /\ tx' \in [Admins -> Transaction \cup {Nobody}]
      /\ rowOwner' \in [Subjects -> Admins \cup {Nobody}]
      /\ AssignmentOK(a)'
      /\ \A b \in Admins \ {a} : tx'[b] = tx[b]
      /\ \A b \in Admins \ {a}, s \in Subjects :
             rowOwner[s] = b => rowOwner'[s] = b
  BY <1>1, EndFacts
<1>5. CASE UNCHANGED mappings
  BY <1>1, <1>4, <1>5, AssignmentStep
<1>6. ASSUME NEW s \in Subjects, NEW k \in Keys, NEW at \in Nat,
             s = tx[a].subject, Commits(s, k, at), Human(k),
             RowsOf(s) = {} \/ rowOwner[s] = a
      PROVE  Inv'
  <2>1. /\ TablesKept /\ \A t \in Subjects : Numbered(t)'
        /\ VersionsUnique' /\ Adjacent' /\ PeopleKnown'
    BY <1>1, <1>6, CommitKeepsRows
  <2>2. TypeOK'
    BY <1>1, <1>4, <1>6, CommittedRows DEF TypeOK
  <2>3. ASSUME NEW b \in Admins \ {a}, NEW m \in mappings, tx[b] # Nobody,
               rowOwner[tx[b].subject] = b, m \in Current(b)
        PROVE  m \in mappings'
    <3>1. m.subject = tx[b].subject /\ m \in RowsOf(m.subject)
      BY <2>3 DEF Current, OpenMappings, RowsOf
    <3>2. m.subject # s
      BY <1>6, <2>3, <3>1
    <3>3. Ended(s, at, m) = m
      BY <3>2 DEF Ended
    <3> QED BY <1>6, <3>3, CommittedRows
  <2>4. now <= now' /\ now' \in Nat
    BY <1>1, IdentityConstants DEF TypeOK
  <2>5. \A b \in Admins \ {a} : AssignmentOK(b)'
    BY <1>4, <2>1, <2>3, <2>4, OtherAssignments
  <2> QED BY <1>1, <1>4, <2>1, <2>2, <2>5, ReadersKept DEF Inv
<1> QED BY <1>3, <1>5, <1>6, CommitShape

-----------------------------------------------------------------------------
(* The invariant is inductive                                              *)

\* Every step keeps the invariant.
LEMMA NextInv == Inv /\ [Next]_vars => Inv'
<1> SUFFICES ASSUME Inv, [Next]_vars PROVE Inv'
  OBVIOUS
<1>1. ASSUME NEW k \in Keys, NEW p \in Principal, ProvisionPrincipal(k, p)
      PROVE  Inv'
  BY <1>1, ProvisionPreserves
<1>2. ASSUME NEW a \in Admins, NEW s \in Subjects, NEW k \in Keys,
             BeginAssign(a, s, k)
      PROVE  Inv'
  BY <1>2, BeginPreserves
<1>3. ASSUME NEW a \in Admins, Proceeds(a) PROVE Inv'
  BY <1>3, SelectPreserves, GonePreserves, ClosePreserves, InsertPreserves
     DEF Proceeds
<1>4. ASSUME NEW a \in Admins, LockCurrent(a) \/ AssignFails(a) PROVE Inv'
  BY <1>4, LockPreserves, FailsPreserves
<1>5. ASSUME NEW c \in Clients, NEW s \in Subjects, Resolve(c, s) PROVE Inv'
  BY <1>5, ResolvePreserves
<1>6. ASSUME NEW c \in Clients, Record(c) \/ RecordFails(c) PROVE Inv'
  BY <1>6, RecordPreserves
<1>7. CASE Tick
  BY <1>7, TickPreserves
<1>8. CASE UNCHANGED vars
  <2>1. /\ UNCHANGED <<principals, mappings, tx, rowOwner>>
        /\ UNCHANGED <<resolved, records, now>>
    BY <1>8 DEF vars
  <2>2. TypeOK' /\ now <= now'
    BY <2>1, IdentityConstants DEF Inv, TypeOK
  <2>3. ReadersOK'
    BY <2>1 DEF Inv, ReadersOK, Attributed, Human
  <2> QED BY <2>1, <2>2, <2>3, ReaderStep
<1> QED BY <1>1, <1>2, <1>3, <1>4, <1>5, <1>6, <1>7, <1>8 DEF Next

\* The invariant holds in every reachable state.
LEMMA Invariant == Spec => []Inv
  BY InitInv, NextInv, PTL DEF Spec

-----------------------------------------------------------------------------
(* The theorems                                                            *)

\* Every variable has its type (the columns of core.principals and
\* core.external_identities, the statements of assign_feishu_identity).
THEOREM TypeCorrect == Spec => []TypeOK
<1>1. Inv => TypeOK
  BY DEF Inv
<1> QED BY <1>1, Invariant, PTL

\* The numbering of the rows gives the history.
LEMMA HistoryFromRows == Inv => HistoryIsContiguous
<1> SUFFICES ASSUME Inv, NEW m \in mappings
             PROVE  /\ Cardinality(FoundMappings(m.subject)) = 1
                    /\ m.to # Nobody =>
                          /\ m.from < m.to
                          /\ \E n \in mappings : /\ n.subject = m.subject
                                                 /\ n.version = m.version + 1
                                                 /\ n.from = m.to
                    /\ m.version > 1 =>
                          \E n \in mappings : /\ n.subject = m.subject
                                              /\ n.version = m.version - 1
                                              /\ n.to = m.from
  BY DEF HistoryIsContiguous
<1> DEFINE s == m.subject
           count == Cardinality(RowsOf(s))
<1>1. s \in Subjects /\ m.version \in Nat \ {0} /\ m \in RowsOf(s)
  BY RowType
<1>2. count \in Nat /\ Numbered(s)
  BY <1>1, RowCount DEF Inv
<1>3. m.version <= count /\ (m.to = Nobody <=> m.version = count)
  BY <1>1, <1>2 DEF Numbered
<1>4. ASSUME NEW v \in 1 .. count
      PROVE  \E n \in mappings : n.subject = s /\ n.version = v
  <2>1. PICK n \in RowsOf(s) : n.version = v
    BY <1>2 DEF Numbered
  <2> QED BY <2>1 DEF RowsOf
<1>5. Cardinality(FoundMappings(s)) = 1
  <2>1. PICK n \in mappings : OpenMappings(s) = {n}
    BY OneOpenRow
  <2>2. Human(n.principal)
    BY DEF Inv, PeopleKnown
  <2>3. FoundMappings(s) = {n}
    BY <2>1, <2>2 DEF FoundMappings
  <2> QED BY <2>3, FS_Singleton
<1>6. ASSUME m.to # Nobody
      PROVE  /\ m.from < m.to
             /\ \E n \in mappings : /\ n.subject = m.subject
                                    /\ n.version = m.version + 1
                                    /\ n.from = m.to
  <2>1. m.version + 1 \in 1 .. count
    BY <1>1, <1>2, <1>3, <1>6
  <2>2. PICK n \in mappings : n.subject = s /\ n.version = m.version + 1
    BY <1>4, <2>1
  <2> QED BY <2>2 DEF Inv, Adjacent
<1>7. ASSUME m.version > 1
      PROVE  \E n \in mappings : /\ n.subject = m.subject
                                 /\ n.version = m.version - 1
                                 /\ n.to = m.from
  <2>1. m.version - 1 \in 1 .. count
    BY <1>1, <1>2, <1>3, <1>7
  <2>2. PICK n \in mappings : n.subject = s /\ n.version = m.version - 1
    BY <1>4, <2>1
  <2>3. m.version = n.version + 1
    BY <1>1, <2>2
  <2>4. m.from = n.to
    BY <2>2, <2>3 DEF Inv, Adjacent
  <2> QED BY <2>2, <2>4
<1> QED BY <1>5, <1>6, <1>7

\* A subject that was once assigned stands for exactly one principal, and
\* its versions follow one another without gap or overlap, however many
\* assignments race for it (assign_feishu_identity and the constraints of
\* core.external_identities).
THEOREM HistoriesAreContiguous == Spec => []HistoryIsContiguous
  BY HistoryFromRows, Invariant, PTL

\* The person a record names is the only human of that user.
LEMMA AttributionFromRows == Inv => RecordsAreAttributable
<1> SUFFICES ASSUME Inv, NEW r \in records
             PROVE  \E m \in mappings :
                       /\ m.subject = r.subject /\ m.version = r.version
                       /\ ResolveHuman(r.user) = {m.principal}
  BY DEF RecordsAreAttributable
<1>1. PICK m \in mappings : /\ m.subject = r.subject /\ m.version = r.version
                            /\ Human(m.principal)
                            /\ principals[m.principal].user = r.user
  BY DEF Inv, ReadersOK, Attributed
<1>2. m.principal \in Keys
  BY RowType
<1>3. ResolveHuman(r.user) = {m.principal}
  BY <1>1, <1>2 DEF ResolveHuman, Inv, PeopleKnown
<1> QED BY <1>1, <1>3

\* An intent or a decision names a version of a mapping and the user of its
\* principal, also when the subject was reassigned between the resolution
\* and the commit (resolve_feishu_principal, resolve_human).
THEOREM RecordsStayAttributable == Spec => []RecordsAreAttributable
  BY AttributionFromRows, Invariant, PTL

-----------------------------------------------------------------------------
(* The refinement of the directory                                         *)

\* The history that a set of rows holds
HistoryIn(rows, s) ==
    [v \in 1 .. Cardinality({m \in rows : m.subject = s}) |->
        LET m == CHOOSE n \in rows : n.subject = s /\ n.version = v
        IN  [principal |-> m.principal, since |-> m.from]]

Entry == [principal : Keys, since : Nat]

\* The row of a version gives the entry of the history.
LEMMA HistoryEntry ==
  ASSUME NEW rows, NEW s, NEW m \in rows, m.subject = s,
         m.version \in 1 .. Cardinality({n \in rows : n.subject = s}),
         \A n, o \in rows :
             n.subject = o.subject /\ n.version = o.version => n = o
  PROVE  HistoryIn(rows, s)[m.version] =
             [principal |-> m.principal, since |-> m.from]
<1> DEFINE r == CHOOSE n \in rows : n.subject = s /\ n.version = m.version
<1>1. r \in rows /\ r.subject = s /\ r.version = m.version
  OBVIOUS
<1>2. r = m
  BY <1>1
<1>3. HistoryIn(rows, s)[m.version] =
          [principal |-> r.principal, since |-> r.from]
  BY DEF HistoryIn
<1> QED BY <1>2, <1>3

\* A history is a sequence with one entry for every version.
LEMMA HistoryIsSeq ==
  ASSUME Inv, NEW s \in Subjects
  PROVE  /\ HistoryOf(s) \in Seq(Entry)
         /\ Len(HistoryOf(s)) = Cardinality(RowsOf(s))
         /\ \A m \in RowsOf(s) :
               HistoryOf(s)[m.version] =
                   [principal |-> m.principal, since |-> m.from]
<1> DEFINE n == Cardinality(RowsOf(s))
<1>1. n \in Nat /\ Numbered(s)
  BY RowCount DEF Inv
<1>2. /\ RowsOf(s) = {m \in mappings : m.subject = s}
      /\ HistoryOf(s) = HistoryIn(mappings, s)
  BY DEF RowsOf, HistoryOf, HistoryIn
<1>3. ASSUME NEW m \in RowsOf(s)
      PROVE  /\ HistoryOf(s)[m.version] =
                   [principal |-> m.principal, since |-> m.from]
             /\ HistoryOf(s)[m.version] \in Entry
  <2>1. m \in mappings /\ m.subject = s
    BY DEF RowsOf
  <2>2. m.version \in Nat \ {0} /\ m.principal \in Keys /\ m.from \in Nat
    BY <2>1, RowType
  <2>3. m.version \in 1 .. n
    BY <1>1, <2>2 DEF Numbered
  <2>4. \A o, q \in mappings :
           o.subject = q.subject /\ o.version = q.version => o = q
    BY DEF Inv, VersionsUnique
  <2>5. HistoryIn(mappings, s)[m.version] =
            [principal |-> m.principal, since |-> m.from]
    BY <1>2, <2>1, <2>3, <2>4, HistoryEntry
  <2> QED BY <1>2, <2>2, <2>5 DEF Entry
<1>4. ASSUME NEW v \in 1 .. n PROVE HistoryOf(s)[v] \in Entry
  BY <1>1, <1>3 DEF Numbered
<1>5. HistoryOf(s) = [v \in 1 .. n |-> HistoryOf(s)[v]]
  BY <1>2 DEF HistoryIn
<1> HIDE DEF n
<1>6. HistoryOf(s) \in [1 .. n -> Entry]
  BY <1>4, <1>5
<1>7. HistoryOf(s) \in Seq(Entry) /\ Len(HistoryOf(s)) = n
  BY <1>1, <1>6
<1> QED BY <1>3, <1>7 DEF n

\* A commit appends to the history of its subject.
LEMMA CommitAppends ==
  ASSUME Inv, NEW s \in Subjects, NEW k \in Keys, NEW at \in Nat,
         Commits(s, k, at), VersionsUnique'
  PROVE  HistoryOf(s)' = Append(HistoryOf(s), [principal |-> k, since |-> at])
<1> DEFINE n == Cardinality(RowsOf(s))
           row == Row(s, n + 1, k, at)
           old == HistoryOf(s)
           new == HistoryIn(mappings', s)
           entry == [principal |-> k, since |-> at]
           both == Append(old, entry)
<1>1. n \in Nat /\ Numbered(s)
  BY RowCount DEF Inv
<1>2. /\ {m \in mappings' : m.subject = s} = RowsOf(s)'
      /\ new = HistoryOf(s)'
  BY DEF RowsOf, HistoryOf, HistoryIn
<1>3. Cardinality({m \in mappings' : m.subject = s}) = n + 1
  BY <1>2, CommitCount
<1>4. \A o, q \in mappings' :
         o.subject = q.subject /\ o.version = q.version => o = q
  BY DEF VersionsUnique
<1>5. /\ old \in Seq(Entry) /\ Len(old) = n
      /\ \A m \in RowsOf(s) :
            old[m.version] = [principal |-> m.principal, since |-> m.from]
  BY HistoryIsSeq
<1>6. entry \in Entry
  BY DEF Entry
<1>7. /\ both \in Seq(Entry) /\ Len(both) = n + 1
      /\ \A v \in 1 .. n : both[v] = old[v]
      /\ both[n + 1] = entry
  <2> HIDE DEF entry, old
  <2> QED BY <1>5, <1>6, AppendProperties
<1> HIDE DEF both, old
<1>8. new[n + 1] = entry
  <2>1. /\ row \in mappings' /\ row.subject = s /\ row.version = n + 1
        /\ row.principal = k /\ row.from = at
    BY CommittedRows, RowFields
  <2> HIDE DEF row
  <2>2. row.version \in 1 .. Cardinality({m \in mappings' : m.subject = s})
    BY <1>1, <1>3, <2>1
  <2>3. new[row.version] = [principal |-> row.principal, since |-> row.from]
    BY <1>4, <2>1, <2>2, HistoryEntry
  <2> QED BY <2>1, <2>3
<1>9. ASSUME NEW v \in 1 .. n PROVE new[v] = old[v]
  <2>1. PICK m \in RowsOf(s) : m.version = v
    BY <1>1 DEF Numbered
  <2>2. m \in mappings /\ m.subject = s
    BY DEF RowsOf
  <2>3. PICK q \in mappings' : q = Ended(s, at, m)
    BY <2>2, CommittedRows
  <2>4. /\ q.subject = s /\ q.version = v /\ q.principal = m.principal
        /\ q.from = m.from
    BY <2>1, <2>2, <2>3, RowType, EndedFacts
  <2>5. q.version \in 1 .. Cardinality({o \in mappings' : o.subject = s})
    BY <1>1, <1>3, <2>4
  <2>6. new[q.version] = [principal |-> q.principal, since |-> q.from]
    BY <1>4, <2>4, <2>5, HistoryEntry, SMTT(60)
  <2> QED BY <1>5, <2>1, <2>4, <2>6
<1>10. new = [v \in 1 .. n + 1 |-> new[v]]
  BY <1>3 DEF HistoryIn
<1> HIDE DEF new, entry
<1>11. \A v \in 1 .. n + 1 : new[v] = both[v]
  BY <1>1, <1>7, <1>8, <1>9
<1>12. both = [v \in 1 .. n + 1 |-> both[v]]
  BY <1>1, <1>7, LenProperties
<1>13. new = both
  BY <1>10, <1>11, <1>12
<1> QED BY <1>2, <1>13 DEF both, old, entry

Histories == [s \in Subjects |-> HistoryOf(s)]

\* No subject has a history at first.
LEMMA InitRefines == Init => Directory!Init
<1> SUFFICES ASSUME Init, NEW s \in Subjects PROVE HistoryOf(s) = <<>>
  BY DEF Directory!Init
<1>1. {m \in mappings : m.subject = s} = {}
  BY DEF Init
<1>2. Cardinality({m \in mappings : m.subject = s}) = 0
  BY <1>1, FS_EmptySet
<1>3. HistoryOf(s) = HistoryIn(mappings, s)
  BY DEF HistoryOf, HistoryIn
<1>4. 1 .. 0 = {}
  OBVIOUS
<1>5. DOMAIN HistoryIn(mappings, s) = {}
  BY <1>2, <1>4 DEF HistoryIn
<1>6. HistoryIn(mappings, s) = [v \in {} |-> HistoryIn(mappings, s)[v]]
  BY <1>2, <1>4 DEF HistoryIn
<1> QED BY <1>3, <1>6

\* A commit is an assignment of the directory.
LEMMA CommitRefines ==
  ASSUME Inv, NEW s \in Subjects, NEW k \in Keys, NEW at \in 0 .. MaxTime,
         Commits(s, k, at), Human(k), UNCHANGED principals
  PROVE  Directory!Next
<1> DEFINE n == Cardinality(RowsOf(s))
           entry == [principal |-> k, since |-> at]
           hist == HistoryOf(s)
<1>1. at \in Nat
  BY IdentityConstants
<1>2. VersionsUnique'
  BY <1>1, CommitKeepsRows
<1>3. hist' = Append(hist, entry)
  BY <1>1, <1>2, CommitAppends
<1>4. ASSUME NEW t \in Subjects, t # s PROVE HistoryOf(t)' = HistoryOf(t)
  <2>1. {m \in mappings' : m.subject = t} = {m \in mappings : m.subject = t}
    <3>1. ASSUME NEW m \in mappings, m.subject = t PROVE m \in mappings'
      BY <1>1, <1>4, <3>1, CommittedRows DEF Ended
    <3>2. ASSUME NEW r \in mappings', r.subject = t PROVE r \in mappings
      <4>1. r # Row(s, n + 1, k, at)
        BY <1>4, <3>2, RowFields
      <4>2. PICK m \in mappings : r = Ended(s, at, m)
        BY <1>1, <4>1, CommittedRows
      <4>3. m.subject = t
        BY <1>1, <3>2, <4>2, RowType, EndedFacts
      <4> QED BY <1>4, <4>2, <4>3 DEF Ended
    <3> QED BY <3>1, <3>2
  <2>2. ASSUME NEW v
        PROVE  (CHOOSE m \in mappings' : m.subject = t /\ m.version = v)
               = (CHOOSE m \in mappings : m.subject = t /\ m.version = v)
    <3>1. \A m : (m \in mappings' /\ m.subject = t /\ m.version = v)
                 <=> (m \in mappings /\ m.subject = t /\ m.version = v)
      BY <2>1
    <3> QED BY <3>1
  <2> QED BY <2>1, <2>2 DEF HistoryOf
<1>5. Histories' = [Histories EXCEPT ![s] = Append(@, entry)]
  <2> HIDE DEF entry
  <2>1. \A t \in Subjects :
           HistoryOf(t)' = IF t = s THEN Append(HistoryOf(s), entry)
                                    ELSE HistoryOf(t)
    BY <1>3, <1>4
  <2> QED BY <2>1 DEF Histories
<1>6. ASSUME hist # <<>>
      PROVE  hist[Len(hist)].principal # k /\ hist[Len(hist)].since < at
  <2>1. /\ hist \in Seq(Entry) /\ Len(hist) = n
        /\ \A m \in RowsOf(s) :
              hist[m.version] = [principal |-> m.principal, since |-> m.from]
    BY HistoryIsSeq
  <2>2. n \in Nat \ {0}
    <3> HIDE DEF hist, n
    <3> QED BY <1>6, <2>1, EmptySeq
  <2>3. PICK m \in RowsOf(s) : m.version = n
    BY <2>2 DEF Inv, Numbered
  <2>4. m.principal # k /\ m.from < at
    BY <2>3 DEF Commits
  <2>5. hist[n] = [principal |-> m.principal, since |-> m.from]
    BY <2>1, <2>3
  <2> HIDE DEF hist, n
  <2> QED BY <2>1, <2>4, <2>5
<1>7. Histories[s] = hist
  BY DEF Histories
<1> HIDE DEF hist
<1>8. Directory!Assign(s, k, at)
  <2>1. Histories[s] # <<>> =>
           /\ Histories[s][Len(Histories[s])].principal # k
           /\ Histories[s][Len(Histories[s])].since < at
    BY <1>6, <1>7
  <2> QED BY <1>5, <2>1 DEF Directory!Assign, Histories
<1> QED BY <1>8 DEF Directory!Next

\* Only the commit changes the rows.
LEMMA StepRefines ==
  Inv /\ [Next]_vars => [Directory!Next]_Histories
<1> SUFFICES ASSUME Inv, [Next]_vars
             PROVE  Directory!Next \/ Histories' = Histories
  OBVIOUS
<1>1. ASSUME UNCHANGED mappings PROVE Histories' = Histories
  BY <1>1 DEF Histories, HistoryOf
<1>2. ASSUME NEW a \in Admins, InsertAndCommit(a)
      PROVE  Directory!Next \/ Histories' = Histories
  <2>1. tx[a] # Nobody /\ AssignmentOK(a) /\ UNCHANGED principals
    BY <1>2 DEF Inv, InsertAndCommit, At
  <2>2. tx[a] \in Transaction /\ now \in 0 .. MaxTime
    BY <2>1 DEF Inv, TypeOK
  <2>3. tx[a].at \in Nat /\ tx[a].at <= now
    BY <2>1, <2>2 DEF AssignmentOK, Transaction
  <2>4. tx[a].at \in 0 .. MaxTime
    BY <2>2, <2>3, IdentityConstants
  <2>5. /\ tx[a].subject \in Subjects /\ tx[a].principal \in Keys
        /\ Human(tx[a].principal)
    BY <2>1, <2>2 DEF AssignmentOK, Transaction
  <2>6. CASE Commits(tx[a].subject, tx[a].principal, tx[a].at)
    BY <2>1, <2>4, <2>5, <2>6, CommitRefines
  <2> QED BY <1>1, <1>2, <2>6, CommitShape
<1>3. \/ \E a \in Admins : InsertAndCommit(a)
      \/ UNCHANGED mappings
  BY DEF Next, vars, ProvisionPrincipal, BeginAssign, Proceeds, SelectCurrent,
         CurrentIsGone, CloseCurrent, LockCurrent, AssignFails, Resolve, Record,
         RecordFails, Tick
<1> QED BY <1>1, <1>2, <1>3

\* Racing and failing assignments implement the directory: each has the
\* effect of one assignment, after the others, that changes the principal at
\* a later time, or none (assign_feishu_identity).
THEOREM Refinement == Spec => ImplementsDirectory
<1>1. Inv /\ [Next]_vars => [Directory!Next]_[s \in Subjects |-> HistoryOf(s)]
  BY StepRefines DEF Histories
<1> QED BY <1>1, InitRefines, Invariant, PTL
        DEF Spec, ImplementsDirectory, Directory!Spec
=============================================================================
