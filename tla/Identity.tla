------------------------------ MODULE Identity ------------------------------
(***************************************************************************)
(* The identity authority (provision_principal and assign_feishu_identity  *)
(* of app/services/identity_authority.py) at the level of its SQL          *)
(* statements, over core.principals and core.external_identities with      *)
(* their constraints and their trigger (alembic 0003); and its readers,    *)
(* resolve_feishu_principal and resolve_human of                           *)
(* app/services/deployment_authority.py, with what they attribute to the   *)
(* person they found: an intent (create_deployment_intent) or a decision   *)
(* (handle_card_action).                                                   *)
(*                                                                         *)
(* The clock of an assignment is read before it waits for the open row.    *)
(* Transactions are READ COMMITTED: when the row a SELECT FOR UPDATE       *)
(* waited for has been closed meanwhile, the SELECT finds nothing.         *)
(***************************************************************************)
EXTENDS Naturals, FiniteSets

CONSTANTS
    Subjects,       \* Feishu subjects: a tenant and an open id
    Keys,           \* identity keys: the principals there can be
    Users,          \* canonical users
    Admins,         \* callers of the two operations
    Clients,        \* handlers that resolve a subject and record something
    MaxTime,        \* bound: the last tick of the clock
    Nobody          \* no row, no transaction, no owner, no end

ASSUME IdentityConstants ==
    /\ MaxTime \in Nat
    /\ Nobody \notin Users \cup Admins \cup Keys \cup Nat

VARIABLES
    principals,     \* core.principals by identity key
    mappings,       \* core.external_identities, committed
    tx,             \* the transaction each admin is in
    rowOwner,       \* who has locked the open mapping of a subject
    resolved,       \* what each client has resolved
    records,        \* who the committed intents and decisions name
    now             \* clock_timestamp()

vars == <<principals, mappings, tx, rowOwner, resolved, records, now>>

Principal == [type : {"HUMAN"}, user : Users]
             \cup [type : {"SERVICE", "EXECUTOR"}, user : {Nobody}]

ExternalIdentity ==
    [subject : Subjects, version : Nat \ {0}, principal : Keys,
     from : Nat, to : Nat \cup {Nobody}]

\* at is now, and saw the version of the row that current is to be.
Transaction ==
    [subject : Subjects, principal : Keys, at : Nat, saw : Nat,
     step : {"select", "lock", "close", "insert"}]

Attribution == [subject : Subjects, version : Nat, user : Users]

TypeOK ==
    /\ principals \in [Keys -> Principal \cup {Nobody}]
    /\ mappings \subseteq ExternalIdentity
    /\ tx \in [Admins -> Transaction \cup {Nobody}]
    /\ rowOwner \in [Subjects -> Admins \cup {Nobody}]
    /\ resolved \in [Clients -> Attribution \cup {Nobody}]
    /\ records \subseteq Attribution
    /\ now \in 0 .. MaxTime

Init ==
    /\ principals = [k \in Keys |-> Nobody]
    /\ mappings = {}
    /\ tx = [a \in Admins |-> Nobody]
    /\ rowOwner = [s \in Subjects |-> Nobody]
    /\ resolved = [c \in Clients |-> Nobody]
    /\ records = {}
    /\ now = 0

OpenMappings(s) == {m \in mappings : m.subject = s /\ m.to = Nobody}

Human(k) == principals[k] # Nobody /\ principals[k].type = "HUMAN"

-----------------------------------------------------------------------------
(* provision_principal()                                                   *)

\* Mutant: without the unique key of user_id.
ProvisionPrincipal_AnyUser(k, p) ==
    /\ principals[k] = Nobody
    /\ principals' = [principals EXCEPT ![k] = p]
    /\ UNCHANGED <<mappings, tx, rowOwner, resolved, records, now>>

\* A human has a user and the others have none; the identity key and the
\* user are unique.
ProvisionPrincipal(k, p) ==
    /\ principals[k] = Nobody
    /\ \A j \in Keys : Human(j) => principals[j].user # p.user
    /\ principals' = [principals EXCEPT ![k] = p]
    /\ UNCHANGED <<mappings, tx, rowOwner, resolved, records, now>>

-----------------------------------------------------------------------------
(* assign_feishu_identity()                                                *)

At(a, step) == tx[a] # Nobody /\ tx[a].step = step

Goto(a, step) == tx' = [tx EXCEPT ![a].step = step]

\* The transaction ends and its row lock is released.
EndTransaction(a) ==
    /\ tx' = [tx EXCEPT ![a] = Nobody]
    /\ rowOwner' = [s \in Subjects |->
                       IF rowOwner[s] = a THEN Nobody ELSE rowOwner[s]]

\* human_principal_required; then the clock is read.
BeginAssign(a, s, k) ==
    /\ tx[a] = Nobody
    /\ Human(k)
    /\ tx' = [tx EXCEPT ![a] = [subject |-> s, principal |-> k, at |-> now,
                                saw |-> 0, step |-> "select"]]
    /\ UNCHANGED <<principals, mappings, rowOwner, resolved, records, now>>

\* The snapshot of SELECT ... FOR UPDATE
SelectCurrent(a) ==
    LET open == OpenMappings(tx[a].subject) IN
    /\ At(a, "select")
    /\ IF open = {}
       THEN Goto(a, "insert")
       ELSE \E m \in open :
               tx' = [tx EXCEPT ![a].step = "lock", ![a].saw = m.version]
    /\ UNCHANGED <<principals, mappings, rowOwner, resolved, records, now>>

Current(a) ==
    {m \in OpenMappings(tx[a].subject) : m.version = tx[a].saw}

\* Mutant: who the subject stands for already is not looked at.
LockCurrent_Reassigns(a) ==
    /\ At(a, "lock")
    /\ rowOwner[tx[a].subject] = Nobody
    /\ \E m \in Current(a) :
          /\ rowOwner' = [rowOwner EXCEPT ![m.subject] = a]
          /\ Goto(a, "close")
    /\ UNCHANGED <<principals, mappings, resolved, records, now>>

\* Mutant: the row lock is kept by a caller that returns.
LockCurrent_KeepsLock(a) ==
    /\ At(a, "lock")
    /\ rowOwner[tx[a].subject] = Nobody
    /\ \E m \in Current(a) :
          /\ rowOwner' = [rowOwner EXCEPT ![m.subject] = a]
          /\ IF m.principal = tx[a].principal
             THEN tx' = [tx EXCEPT ![a] = Nobody]
             ELSE Goto(a, "close")
    /\ UNCHANGED <<principals, mappings, resolved, records, now>>

\* The row is locked.  If it is for this principal it is returned, and the
\* session of the caller is closed.
LockCurrent(a) ==
    /\ At(a, "lock")
    /\ rowOwner[tx[a].subject] = Nobody
    /\ \E m \in Current(a) :
          IF m.principal = tx[a].principal
          THEN EndTransaction(a)
          ELSE /\ rowOwner' = [rowOwner EXCEPT ![m.subject] = a]
               /\ Goto(a, "close")
    /\ UNCHANGED <<principals, mappings, resolved, records, now>>

\* The row was closed while this waited: there is no current row, and the
\* new one is to have version 1.
CurrentIsGone(a) ==
    /\ At(a, "lock")
    /\ Current(a) = {}
    /\ tx' = [tx EXCEPT ![a].step = "insert", ![a].saw = 0]
    /\ UNCHANGED <<principals, mappings, rowOwner, resolved, records, now>>

\* Mutant: without the CHECK and the trigger that compare the times.
CloseCurrent_AnyTime(a) ==
    /\ At(a, "close")
    /\ Goto(a, "insert")
    /\ UNCHANGED <<principals, mappings, rowOwner, resolved, records, now>>

\* The flush of valid_to: ck_external_identities_validity and
\* protect_external_identity_history refuse a time that is not later than
\* valid_from.  The error leaves the function.
CloseCurrent(a) ==
    /\ At(a, "close")
    /\ IF \A m \in Current(a) : m.from < tx[a].at
       THEN Goto(a, "insert") /\ UNCHANGED rowOwner
       ELSE EndTransaction(a)
    /\ UNCHANGED <<principals, mappings, resolved, records, now>>

\* The rows as the transaction leaves them, with the closed one
Closed(a) ==
    {IF m \in Current(a) THEN [m EXCEPT !.to = tx[a].at] ELSE m : m \in mappings}

NewMapping(a) ==
    [subject |-> tx[a].subject, version |-> tx[a].saw + 1,
     principal |-> tx[a].principal, from |-> tx[a].at, to |-> Nobody]

\* uq_external_identities_mapping_version and
\* uq_external_identities_active_subject
Conflicts(a) ==
    \E m \in Closed(a) :
        /\ m.subject = tx[a].subject
        /\ m.version = NewMapping(a).version \/ m.to = Nobody

\* The insert and the commit; identity_assignment_conflict otherwise.
InsertAndCommit(a) ==
    /\ At(a, "insert")
    /\ mappings' = IF Conflicts(a) THEN mappings ELSE Closed(a) \cup {NewMapping(a)}
    /\ EndTransaction(a)
    /\ UNCHANGED <<principals, resolved, records, now>>

\* A lost connection or any other database error
AssignFails(a) ==
    /\ tx[a] # Nobody
    /\ EndTransaction(a)
    /\ UNCHANGED <<principals, mappings, resolved, records, now>>

-----------------------------------------------------------------------------
(* The readers                                                             *)

FoundMappings(s) == {m \in OpenMappings(s) : Human(m.principal)}

\* resolve_feishu_principal: exactly one row, or
\* missing_or_ambiguous_feishu_identity
Resolve(c, s) ==
    /\ resolved[c] = Nobody
    /\ Cardinality(FoundMappings(s)) = 1
    /\ \E m \in FoundMappings(s) :
          resolved' = [resolved EXCEPT ![c] =
              [subject |-> s, version |-> m.version,
               user |-> principals[m.principal].user]]
    /\ UNCHANGED <<principals, mappings, tx, rowOwner, records, now>>

\* The intent or the decision that names what was resolved is committed.
\* Its foreign key waits for the lock of an assignment on the same row.
Record(c) ==
    LET r == resolved[c] IN
    /\ r # Nobody
    /\ \A m \in OpenMappings(r.subject) :
          m.version = r.version => rowOwner[r.subject] = Nobody
    /\ records' = records \cup {r}
    /\ resolved' = [resolved EXCEPT ![c] = Nobody]
    /\ UNCHANGED <<principals, mappings, tx, rowOwner, now>>

\* Whatever else is checked of the request refuses it, or the handler dies.
RecordFails(c) ==
    /\ resolved[c] # Nobody
    /\ resolved' = [resolved EXCEPT ![c] = Nobody]
    /\ UNCHANGED <<principals, mappings, tx, rowOwner, records, now>>

\* resolve_human: the one human principal of a user
ResolveHuman(u) == {k \in Keys : Human(k) /\ principals[k].user = u}

Tick ==
    /\ now < MaxTime
    /\ now' = now + 1
    /\ UNCHANGED <<principals, mappings, tx, rowOwner, resolved, records>>

-----------------------------------------------------------------------------
(* The specification                                                       *)

Proceeds(a) ==
    \/ SelectCurrent(a) \/ CurrentIsGone(a) \/ CloseCurrent(a)
    \/ InsertAndCommit(a)

Next ==
    \/ \E k \in Keys, p \in Principal : ProvisionPrincipal(k, p)
    \/ \E a \in Admins, s \in Subjects, k \in Keys : BeginAssign(a, s, k)
    \/ \E a \in Admins : Proceeds(a) \/ LockCurrent(a) \/ AssignFails(a)
    \/ \E c \in Clients, s \in Subjects : Resolve(c, s)
    \/ \E c \in Clients : Record(c) \/ RecordFails(c)
    \/ Tick

Spec == Init /\ [][Next]_vars

\* A transaction goes on; PostgreSQL grants a row lock to those who wait
\* for it in turn.
FairSpec ==
    /\ Spec
    /\ \A a \in Admins : WF_vars(Proceeds(a)) /\ SF_vars(LockCurrent(a))
    /\ \A c \in Clients : SF_vars(Record(c))

-----------------------------------------------------------------------------
(* Properties                                                              *)

\* A subject that was once assigned stands for exactly one principal at any
\* time, however assignments race, and its rows form one history without
\* gap or overlap: version n + 1 begins when version n ends, and no interval
\* is empty, although the clock is read before the row lock
\* (assign_feishu_identity, the unique indexes and the trigger).
HistoryIsContiguous ==
    \A m \in mappings :
        /\ Cardinality(FoundMappings(m.subject)) = 1
        /\ m.to # Nobody =>
              /\ m.from < m.to
              /\ \E n \in mappings : /\ n.subject = m.subject
                                     /\ n.version = m.version + 1
                                     /\ n.from = m.to
        /\ m.version > 1 =>
              \E n \in mappings : /\ n.subject = m.subject
                                  /\ n.version = m.version - 1
                                  /\ n.to = m.from

\* An intent or a decision names a mapping and the user of its principal,
\* also when the subject was assigned to another one before it was
\* committed, and resolve_human finds that user later on, when the start of
\* the deployment validates requester and approver.
RecordsAreAttributable ==
    \A r \in records :
        \E m \in mappings :
            /\ m.subject = r.subject /\ m.version = r.version
            /\ ResolveHuman(r.user) = {m.principal}

\* The assignments that were committed, per subject and in the order of
\* their versions
HistoryOf(s) ==
    [v \in 1 .. Cardinality({m \in mappings : m.subject = s}) |->
        LET m == CHOOSE n \in mappings : n.subject = s /\ n.version = v
        IN  [principal |-> m.principal, since |-> m.from]]

Directory == INSTANCE IdentityDirectory
    WITH Principals <- Keys, Times <- 0 .. MaxTime,
         history <- [s \in Subjects |-> HistoryOf(s)]

\* Racing and failing assignments have the effect of assignments one after
\* the other that each change the principal, at increasing times
\* (assign_feishu_identity).
ImplementsDirectory == Directory!Spec

\* No assignment waits for ever, nor does a record that refers to the row
\* an assignment has locked (SELECT ... FOR UPDATE, the foreign key).
EveryAssignmentEnds ==
    /\ \A a \in Admins : tx[a] # Nobody ~> tx[a] = Nobody
    /\ \A c \in Clients : resolved[c] # Nobody ~> resolved[c] = Nobody
=============================================================================
