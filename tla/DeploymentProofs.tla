-------------------------- MODULE DeploymentProofs --------------------------
(***************************************************************************)
(* Theorems about the deployment control plane, for every set of           *)
(* deployments, callers and users, every lease, validity and lifetime.     *)
(***************************************************************************)
EXTENDS Deployment, ProductionLockProofs, SequenceTheorems, TLAPS

-----------------------------------------------------------------------------
(* The inductive invariant                                                 *)

DeployingStates == {"PRODUCTION_DEPLOYING", "ROLLBACK_DEPLOYING"}

\* The states that a deployment reaches only with a staging acceptance
AcceptedStates ==
    DeployingStates \cup {"STAGING_VALIDATED", "PRODUCTION_APPROVAL_PENDING",
                          "ROLLBACK_APPROVAL_PENDING"}

\* The last state event tells which rows there are.
StateTells(d) ==
    /\ Latest(d) = "none" <=> intents[d] = NoRow
    /\ Latest(d) \in AcceptedStates => d \in artifacts /\ acceptances[d] # NoRow
    /\ Latest(d) \in DeployingStates <=> consumed[d] # NoRow
    /\ consumed[d] # NoRow <=> attempts[d] # NoRow

\* Nothing comes after a deploying event.
DeployingIsLast(d) ==
    \A i \in DOMAIN events[d] :
        events[d][i] \in DeployingStates => i = Len(events[d])

\* What the start of an attempt has checked
Authorised(d) ==
    /\ decisions[d] # NoRow
    /\ decisions[d].code = "approved"
    /\ decisions[d].user # intents[d].user
    /\ decisions[d].at < requests[d].expires
    /\ consumed[d] < requests[d].expires
    /\ Latest(d) = Deploying(d)

\* A decision is under way only where there is none, and a backup was
\* verified in time.
DecisionAndBackup(d) ==
    /\ deciding[d] # NoRow => decisions[d] = NoRow
    /\ backups[d] # NoRow =>
          backups[d].verified <= backups[d].created + BackupMaxAge

DeploymentOK(d) ==
    /\ StateTells(d)
    /\ DeployingIsLast(d)
    /\ attempts[d] # NoRow => Authorised(d)
    /\ DecisionAndBackup(d)

\* A start has locked an intent.
StartOK(c) == startOp[c] # NoRow => intents[startOp[c].deployment] # NoRow

Inv == /\ TypeOK
       /\ \A d \in Deployments : DeploymentOK(d)
       /\ \A c \in Callers : StartOK(c)

\* The invariant holds in the initial state.
LEMMA InitInv == Init => Inv
<1> SUFFICES ASSUME Init PROVE Inv
  OBVIOUS
<1>1. ASSUME NEW d \in Deployments
      PROVE  /\ events[d] = <<>> /\ intents[d] = NoRow /\ attempts[d] = NoRow
             /\ consumed[d] = NoRow /\ deciding[d] = NoRow /\ backups[d] = NoRow
  BY DEF Init
<1>2. TypeOK
  <2>1. LockTypeOK
    BY DEF Init, LockInit, LockTypeOK
  <2>2. events \in [Deployments -> Seq(State)]
    BY EmptySeq DEF Init
  <2> QED BY <2>1, <2>2 DEF Init, TypeOK
<1>3. ASSUME NEW d \in Deployments PROVE DeploymentOK(d)
  <2>1. Latest(d) = "none"
    BY <1>1 DEF Latest
  <2>2. DOMAIN events[d] = {}
    BY <1>1
  <2>3. StateTells(d)
    BY <1>1, <2>1 DEF StateTells, AcceptedStates, DeployingStates
  <2> QED BY <1>1, <2>2, <2>3
          DEF DeploymentOK, DeployingIsLast, DecisionAndBackup
<1>4. \A c \in Callers : StartOK(c)
  BY DEF Init, StartOK
<1> QED BY <1>2, <1>3, <1>4 DEF Inv

-----------------------------------------------------------------------------
(* State events                                                            *)

\* Where a transition can come from
LEMMA TransitionFrom ==
  ASSUME NEW from, NEW to, <<from, to>> \in Transitions
  PROVE  /\ to = "INTENT_CREATED" => from = "none"
         /\ to = "ARTIFACT_RECORDED" => from = "INTENT_CREATED"
         /\ to = "STAGING_DEPLOYING" => from = "ARTIFACT_RECORDED"
         /\ to \in {"STAGING_VALIDATED", "STAGING_FAILED"} =>
               from = "STAGING_DEPLOYING"
         /\ to \in {"PRODUCTION_APPROVAL_PENDING",
                    "ROLLBACK_APPROVAL_PENDING"} => from = "STAGING_VALIDATED"
         /\ to = "PRODUCTION_DEPLOYING" => from = "PRODUCTION_APPROVAL_PENDING"
         /\ to = "ROLLBACK_DEPLOYING" => from = "ROLLBACK_APPROVAL_PENDING"
  BY DEF Transitions

\* The states of a kind
LEMMA KindStates ==
  ASSUME NEW d
  PROVE  /\ Pending(d) \in {"PRODUCTION_APPROVAL_PENDING",
                            "ROLLBACK_APPROVAL_PENDING"}
         /\ Deploying(d) \in DeployingStates
         /\ Pending(d) \in State /\ Deploying(d) \in State
  BY DEF Pending, Deploying, DeployingStates, State

\* The last state event is a state.
LEMMA LatestType ==
  ASSUME TypeOK, NEW d \in Deployments
  PROVE  /\ events[d] \in Seq(State) /\ Len(events[d]) \in Nat
         /\ Latest(d) # "none" =>
               /\ Len(events[d]) # 0
               /\ Latest(d) = events[d][Len(events[d])]
         /\ Latest(d) = "none" => events[d] = <<>>
<1>1. events[d] \in Seq(State)
  BY DEF TypeOK
<1>2. Len(events[d]) \in Nat
  BY <1>1
<1>3. CASE events[d] = <<>>
  BY <1>1, <1>2, <1>3 DEF Latest
<1>4. CASE events[d] # <<>>
  <2>1. Len(events[d]) \in Nat \ {0}
    BY <1>1, <1>4, EmptySeq
  <2>2. events[d][Len(events[d])] \in State
    BY <1>1, <2>1, ElementOfSeq
  <2> QED BY <1>1, <1>4, <2>1, <2>2 DEF Latest, State
<1> QED BY <1>3, <1>4

\* What _append_state_event() leaves behind
LEMMA AppendFacts ==
  ASSUME TypeOK, NEW d \in Deployments, NEW to \in State,
         AppendStateEvent(d, to)
  PROVE  /\ events' \in [Deployments -> Seq(State)]
         /\ \A e \in Deployments \ {d} : events'[e] = events[e]
         /\ Latest(d)' = to /\ <<Latest(d), to>> \in Transitions
         /\ Len(events'[d]) = Len(events[d]) + 1
         /\ DOMAIN events'[d] = 1 .. Len(events[d]) + 1
         /\ \A i \in 1 .. Len(events[d]) : events'[d][i] = events[d][i]
         /\ events'[d][Len(events[d]) + 1] = to
<1>1. /\ events[d] \in Seq(State) /\ events \in [Deployments -> Seq(State)]
      /\ events' = [events EXCEPT ![d] = Append(events[d], to)]
      /\ <<Latest(d), to>> \in Transitions
  BY DEF TypeOK, AppendStateEvent
<1>2. events'[d] = Append(events[d], to)
  BY <1>1
<1>3. /\ Append(events[d], to) \in Seq(State)
      /\ Append(events[d], to) # <<>>
      /\ Len(Append(events[d], to)) = Len(events[d]) + 1
      /\ \A i \in 1 .. Len(events[d]) : Append(events[d], to)[i] = events[d][i]
      /\ Append(events[d], to)[Len(events[d]) + 1] = to
  BY <1>1, AppendProperties
<1>4. DOMAIN events'[d] = 1 .. Len(events[d]) + 1
  BY <1>2, <1>3, LenProperties
<1>5. Latest(d)' = to
  BY <1>2, <1>3 DEF Latest
<1> QED BY <1>1, <1>2, <1>3, <1>4, <1>5

\* A deploying event is the last one, and there was none before it.
LEMMA AppendKeepsOrder ==
  ASSUME TypeOK, NEW d \in Deployments, NEW to \in State,
         AppendStateEvent(d, to), DeployingIsLast(d),
         Latest(d) \notin DeployingStates
  PROVE  DeployingIsLast(d)'
<1>1. /\ DOMAIN events'[d] = 1 .. Len(events[d]) + 1
      /\ Len(events'[d]) = Len(events[d]) + 1
      /\ \A i \in 1 .. Len(events[d]) : events'[d][i] = events[d][i]
  BY AppendFacts
<1>2. /\ Len(events[d]) \in Nat /\ DOMAIN events[d] = 1 .. Len(events[d])
  BY LatestType, LenProperties
<1>3. ASSUME NEW i \in 1 .. Len(events[d]), events[d][i] \in DeployingStates
      PROVE  FALSE
  <2>1. i = Len(events[d])
    BY <1>2, <1>3 DEF DeployingIsLast
  <2>2. events[d] # <<>>
    BY <1>2, <1>3
  <2>3. Latest(d) = events[d][i]
    BY <2>1, <2>2 DEF Latest
  <2> QED BY <1>3, <2>3
<1>4. ASSUME NEW i \in 1 .. Len(events[d]) + 1,
             events'[d][i] \in DeployingStates
      PROVE  i = Len(events[d]) + 1
  <2> SUFFICES ASSUME i # Len(events[d]) + 1 PROVE FALSE
    OBVIOUS
  <2>1. i \in 1 .. Len(events[d])
    BY <1>2
  <2> QED BY <1>1, <1>3, <1>4, <2>1
<1> QED BY <1>1, <1>4 DEF DeployingIsLast

-----------------------------------------------------------------------------
(* Steps                                                                   *)

\* What the invariant says of a deployment does not change.
Same(d) ==
    /\ intents'[d] = intents[d] /\ events'[d] = events[d]
    /\ (d \in artifacts') = (d \in artifacts)
    /\ acceptances'[d] = acceptances[d]
    /\ requests'[d] = requests[d] /\ deciding'[d] = deciding[d]
    /\ decisions'[d] = decisions[d] /\ consumed'[d] = consumed[d]
    /\ attempts'[d] = attempts[d] /\ backups'[d] = backups[d]

\* Then it stays true.
LEMMA SameKeeps ==
  ASSUME NEW d, DeploymentOK(d), Same(d)
  PROVE  DeploymentOK(d)'
<1>1. /\ Latest(d)' = Latest(d) /\ Deploying(d)' = Deploying(d)
  BY DEF Same, Latest, Deploying
<1>2. StateTells(d)' /\ DeployingIsLast(d)' /\ DecisionAndBackup(d)'
  BY <1>1 DEF Same, DeploymentOK, StateTells, DeployingIsLast, DecisionAndBackup
<1>3. attempts'[d] # NoRow => Authorised(d)'
  BY <1>1 DEF Same, DeploymentOK, Authorised
<1> QED BY <1>2, <1>3 DEF DeploymentOK

\* A step is looked at for the deployment it changes.
LEMMA StepKeeps ==
  ASSUME Inv, TypeOK', NEW d,
         \A e \in Deployments \ {d} : Same(e),
         d \in Deployments => DeploymentOK(d)',
         \A c \in Callers : StartOK(c)'
  PROVE  Inv'
<1>1. ASSUME NEW e \in Deployments PROVE DeploymentOK(e)'
  BY SameKeeps DEF Inv
<1> QED BY <1>1 DEF Inv

\* A start keeps its intent.
LEMMA StartsKept ==
  ASSUME Inv, UNCHANGED startOp,
         \A d \in Deployments : intents[d] # NoRow => intents'[d] # NoRow
  PROVE  \A c \in Callers : StartOK(c)'
<1> SUFFICES ASSUME NEW c \in Callers, startOp[c] # NoRow
             PROVE  intents'[startOp[c].deployment] # NoRow
  BY DEF StartOK
<1>1. startOp[c] \in StartOp
  BY DEF Inv, TypeOK
<1>2. startOp[c].deployment \in Deployments
  BY <1>1 DEF StartOp
<1> QED BY <1>2 DEF Inv, StartOK

\* An operation that appends a state event before production: the rows it
\* writes are those its state tells of.
LEMMA EventPreserves ==
  ASSUME Inv, NEW d \in Deployments, NEW to \in State \ DeployingStates,
         AppendStateEvent(d, to), Latest(d) \notin DeployingStates,
         UNCHANGED <<lockVars, now, invalidated, deciding, decisions, start,
                     backup, loaded>>,
         intents' \in [Deployments -> Intent \cup {NoRow}],
         artifacts' \subseteq Deployments,
         acceptances' \in [Deployments -> Acceptance \cup {NoRow}],
         requests' \in [Deployments -> Request \cup {NoRow}],
         \A e \in Deployments \ {d} :
             /\ intents'[e] = intents[e] /\ acceptances'[e] = acceptances[e]
             /\ (e \in artifacts') = (e \in artifacts)
             /\ requests'[e] = requests[e],
         intents'[d] # NoRow,
         to \in AcceptedStates => d \in artifacts' /\ acceptances'[d] # NoRow
  PROVE  Inv'
<1>1. TypeOK /\ DeploymentOK(d)
  BY DEF Inv
<1>2. /\ events' \in [Deployments -> Seq(State)]
      /\ \A e \in Deployments \ {d} : events'[e] = events[e]
      /\ Latest(d)' = to
  BY <1>1, AppendFacts
<1>3. TypeOK'
  BY <1>1, <1>2 DEF TypeOK, LockTypeOK, lockVars, start, backup
<1>4. \A e \in Deployments \ {d} : Same(e)
  BY <1>2 DEF Same, start, backup
<1>5. consumed[d] = NoRow /\ attempts[d] = NoRow
  BY <1>1 DEF DeploymentOK, StateTells
<1>6. StateTells(d)'
  <2>1. to # "none" /\ to \notin DeployingStates
    BY DEF State
  <2> QED BY <1>2, <1>5, <2>1 DEF StateTells, start
<1>7. DeployingIsLast(d)'
  BY <1>1, AppendKeepsOrder DEF DeploymentOK
<1>8. DecisionAndBackup(d)'
  BY <1>1 DEF DeploymentOK, DecisionAndBackup, backup
<1>9. DeploymentOK(d)'
  BY <1>5, <1>6, <1>7, <1>8 DEF DeploymentOK, start
<1>10. \A e \in Deployments : intents[e] # NoRow => intents'[e] # NoRow
  OBVIOUS
<1>11. \A c \in Callers : StartOK(c)'
  BY <1>10, StartsKept DEF start
<1> QED BY <1>3, <1>4, <1>9, <1>11, StepKeeps

\* The states before production, and where they come from
LEMMA EarlyStates ==
  ASSUME NEW from, NEW to, <<from, to>> \in Transitions,
         to \in {"INTENT_CREATED", "ARTIFACT_RECORDED", "STAGING_DEPLOYING",
                 "STAGING_VALIDATED", "STAGING_FAILED",
                 "PRODUCTION_APPROVAL_PENDING", "ROLLBACK_APPROVAL_PENDING"}
  PROVE  to \in State \ DeployingStates /\ from \notin DeployingStates
<1>1. to \in State \ DeployingStates
  BY DEF State, DeployingStates
<1>2. from \in {"none", "INTENT_CREATED", "ARTIFACT_RECORDED",
                "STAGING_DEPLOYING", "STAGING_VALIDATED"}
  BY TransitionFrom
<1> QED BY <1>1, <1>2 DEF DeployingStates

\* create_deployment_intent()
LEMMA CreatePreserves ==
  ASSUME Inv, NEW d \in Deployments, NEW k \in Kinds, NEW u \in Users,
         CreateDeploymentIntent(d, k, u)
  PROVE  Inv'
<1> DEFINE row == [kind |-> k, user |-> u]
<1>1. PICK to : to = "INTENT_CREATED"
  OBVIOUS
<1>2. /\ TypeOK /\ DeploymentOK(d) /\ AppendStateEvent(d, to)
      /\ intents' = [intents EXCEPT ![d] = row]
      /\ UNCHANGED <<lockVars, now, invalidated, deciding, decisions, start,
                     backup, loaded>>
      /\ UNCHANGED <<artifacts, acceptances, requests>>
  BY <1>1 DEF Inv, CreateDeploymentIntent, approval
<1>3. row \in Intent /\ row # NoRow
  BY DeploymentConstants, AbsenceIsNoRecord DEF Intent
<1> HIDE DEF row
<1>4. to \in State \ DeployingStates /\ Latest(d) \notin DeployingStates
  BY <1>1, <1>2, EarlyStates DEF AppendStateEvent
<1>5. to \notin AcceptedStates
  BY <1>1 DEF AcceptedStates, DeployingStates
<1>6. /\ intents' \in [Deployments -> Intent \cup {NoRow}]
      /\ intents'[d] # NoRow
      /\ \A e \in Deployments \ {d} : intents'[e] = intents[e]
  BY <1>2, <1>3 DEF TypeOK
<1>8. /\ artifacts' \subseteq Deployments
      /\ acceptances' \in [Deployments -> Acceptance \cup {NoRow}]
      /\ requests' \in [Deployments -> Request \cup {NoRow}]
  BY <1>2 DEF TypeOK
<1> QED BY <1>2, <1>4, <1>5, <1>6, <1>8, EventPreserves

\* The operations on a free intent that write no new time
LEMMA PreparePreserves ==
  ASSUME Inv, NEW d \in Deployments,
         RecordArtifact(d) \/ BeginStaging(d) \/ RecordStagingFailure(d)
  PROVE  Inv'
<1>1. PICK to \in {"ARTIFACT_RECORDED", "STAGING_DEPLOYING",
                   "STAGING_FAILED"} : AppendStateEvent(d, to)
  BY DEF RecordArtifact, BeginStaging, RecordStagingFailure
<1>2. /\ TypeOK /\ DeploymentOK(d) /\ intents[d] # NoRow
      /\ UNCHANGED <<lockVars, now, invalidated, deciding, decisions, start,
                     backup, loaded>>
      /\ UNCHANGED <<intents, acceptances, requests>>
      /\ artifacts' \in {artifacts, artifacts \cup {d}}
  BY DEF Inv, RecordArtifact, BeginStaging, RecordStagingFailure, IntentFree,
         approval
<1>3. to \in State \ DeployingStates /\ Latest(d) \notin DeployingStates
  BY <1>1, EarlyStates DEF AppendStateEvent
<1>4. to \notin AcceptedStates
  BY DEF AcceptedStates, DeployingStates
<1>6. /\ intents' \in [Deployments -> Intent \cup {NoRow}]
      /\ artifacts' \subseteq Deployments
      /\ acceptances' \in [Deployments -> Acceptance \cup {NoRow}]
      /\ requests' \in [Deployments -> Request \cup {NoRow}]
  BY <1>2 DEF TypeOK
<1>7. \A e \in Deployments \ {d} : (e \in artifacts') = (e \in artifacts)
  BY <1>2
<1> QED BY <1>1, <1>2, <1>3, <1>4, <1>6, <1>7, EventPreserves

\* record_staging_acceptance()
LEMMA AcceptPreserves ==
  ASSUME Inv, NEW d \in Deployments, RecordStagingAcceptance(d)
  PROVE  Inv'
<1> DEFINE row == [completed |-> now, until |-> now + Validity]
<1>1. PICK to : to = "STAGING_VALIDATED"
  OBVIOUS
<1>2. /\ TypeOK /\ DeploymentOK(d) /\ AppendStateEvent(d, to)
      /\ intents[d] # NoRow /\ d \in artifacts
      /\ acceptances' = [acceptances EXCEPT ![d] = row]
      /\ UNCHANGED <<lockVars, now, invalidated, deciding, decisions, start,
                     backup, loaded>>
      /\ UNCHANGED <<intents, artifacts, requests>>
  BY <1>1 DEF Inv, RecordStagingAcceptance, IntentFree, approval
<1>3. row \in Acceptance
  <2>1. now \in Nat /\ now + Validity \in Nat
    BY <1>2, DeploymentConstants DEF TypeOK, LockTypeOK
  <2> QED BY <2>1 DEF Acceptance
<1>4. row # NoRow
  BY <1>3, AbsenceIsNoRecord
<1> HIDE DEF row
<1>5. to \in State \ DeployingStates /\ Latest(d) \notin DeployingStates
  BY <1>1, <1>2, EarlyStates DEF AppendStateEvent
<1>6. /\ acceptances' \in [Deployments -> Acceptance \cup {NoRow}]
      /\ acceptances'[d] # NoRow
      /\ \A e \in Deployments \ {d} : acceptances'[e] = acceptances[e]
  BY <1>2, <1>3, <1>4 DEF TypeOK
<1>8. /\ intents' \in [Deployments -> Intent \cup {NoRow}]
      /\ artifacts' \subseteq Deployments
      /\ requests' \in [Deployments -> Request \cup {NoRow}]
  BY <1>2 DEF TypeOK
<1> QED BY <1>2, <1>5, <1>6, <1>8, EventPreserves

\* create_bound_production_approval()
LEMMA BindPreserves ==
  ASSUME Inv, NEW d \in Deployments, CreateBoundApproval(d)
  PROVE  Inv'
<1> DEFINE row == [user |-> intents[d].user, expires |-> now + Ttl]
<1>1. PICK to : to = Pending(d)
  OBVIOUS
<1>2. /\ TypeOK /\ DeploymentOK(d) /\ AppendStateEvent(d, to)
      /\ intents[d] # NoRow
      /\ requests' = [requests EXCEPT ![d] = row]
      /\ UNCHANGED <<lockVars, now, invalidated, deciding, decisions, start,
                     backup, loaded>>
      /\ UNCHANGED <<intents, artifacts, acceptances>>
  BY <1>1 DEF Inv, CreateBoundApproval, IntentFree
<1>3. row \in Request
  <2>1. now + Ttl \in Nat
    BY <1>2, DeploymentConstants DEF TypeOK, LockTypeOK
  <2>2. intents[d] \in Intent
    BY <1>2 DEF TypeOK
  <2> QED BY <2>1, <2>2 DEF Intent, Request
<1> HIDE DEF row
<1>4. to \in {"PRODUCTION_APPROVAL_PENDING", "ROLLBACK_APPROVAL_PENDING"}
  BY <1>1, KindStates
<1>5. <<Latest(d), to>> \in Transitions
  BY <1>2 DEF AppendStateEvent
<1>6. to \in State \ DeployingStates /\ Latest(d) \notin DeployingStates
  BY <1>4, <1>5, EarlyStates
<1>7. Latest(d) = "STAGING_VALIDATED"
  BY <1>4, <1>5, TransitionFrom
<1>8. d \in artifacts /\ acceptances[d] # NoRow
  BY <1>2, <1>7 DEF DeploymentOK, StateTells, AcceptedStates
<1>9. /\ requests' \in [Deployments -> Request \cup {NoRow}]
      /\ \A e \in Deployments \ {d} : requests'[e] = requests[e]
  BY <1>2, <1>3 DEF TypeOK
<1>10. /\ intents' \in [Deployments -> Intent \cup {NoRow}]
       /\ artifacts' \subseteq Deployments
       /\ acceptances' \in [Deployments -> Acceptance \cup {NoRow}]
  BY <1>2 DEF TypeOK
<1> QED BY <1>2, <1>6, <1>8, <1>9, <1>10, EventPreserves

\* record_approval_decision(): a decision is under way, committed or rolled
\* back, and there is no attempt before it is committed.
LEMMA DecisionPreserves ==
  ASSUME Inv, NEW d \in Deployments,
         \/ CommitDecision(d) \/ DecisionFails(d)
         \/ \E u \in Users, code \in {"approved", "rejected"} :
               BeginDecision(d, u, code)
  PROVE  Inv'
<1>1. /\ TypeOK /\ DeploymentOK(d) /\ decisions[d] = NoRow
      /\ UNCHANGED <<lockVars, now, plan, requests, start, backup, loaded>>
  BY DEF Inv, BeginDecision, CommitDecision, DecisionFails, DeploymentOK,
     DecisionAndBackup
<1>2. /\ deciding' \in [Deployments -> Decision \cup {NoRow}]
      /\ decisions' \in [Deployments -> Decision \cup {NoRow}]
      /\ \A e \in Deployments \ {d} : /\ deciding'[e] = deciding[e]
                                      /\ decisions'[e] = decisions[e]
      /\ deciding'[d] # NoRow => decisions'[d] = NoRow
  <2>1. ASSUME NEW u \in Users, NEW code \in {"approved", "rejected"},
               BeginDecision(d, u, code)
        PROVE  /\ decisions' = decisions
               /\ \E row \in Decision :
                     deciding' = [deciding EXCEPT ![d] = row]
    <3>1. [code |-> code, user |-> u, at |-> now] \in Decision
      BY <1>1 DEF Decision, TypeOK, LockTypeOK
    <3> QED BY <2>1, <3>1 DEF BeginDecision
  <2>2. CASE CommitDecision(d)
    BY <1>1, <2>2 DEF CommitDecision, TypeOK
  <2>3. CASE DecisionFails(d)
    BY <1>1, <2>3 DEF DecisionFails, TypeOK
  <2> QED BY <1>1, <2>1, <2>2, <2>3 DEF TypeOK
<1>3. TypeOK'
  BY <1>1, <1>2 DEF TypeOK, LockTypeOK, lockVars, plan, start, backup
<1>4. \A e \in Deployments \ {d} : Same(e)
  BY <1>1, <1>2 DEF Same, plan, start, backup
<1>5. attempts[d] = NoRow
  BY <1>1 DEF DeploymentOK, Authorised
<1>6. DeploymentOK(d)'
  <2>1. Latest(d)' = Latest(d)
    BY <1>1 DEF Latest, plan
  <2>2. StateTells(d)' /\ DeployingIsLast(d)' /\ DecisionAndBackup(d)'
    BY <1>1, <1>2, <2>1
       DEF DeploymentOK, StateTells, DeployingIsLast, DecisionAndBackup, plan,
       start, backup
  <2> QED BY <1>1, <1>5, <2>2 DEF DeploymentOK, start
<1>7. \A c \in Callers : StartOK(c)'
  BY <1>1, StartsKept DEF plan, start
<1> QED BY <1>3, <1>4, <1>6, <1>7, StepKeeps

\* A step that changes no row the invariant speaks of
LEMMA QuietPreserves ==
  ASSUME Inv, TypeOK', UNCHANGED <<approval, consumed, attempts, backups>>,
         UNCHANGED <<intents, events, artifacts, acceptances>>,
         \A c \in Callers : StartOK(c)'
  PROVE  Inv'
<1>1. \A e \in Deployments : Same(e)
  BY DEF Same, approval
<1>2. NoRow \notin Deployments
  BY LockConstants
<1> QED BY <1>1, <1>2, StepKeeps

\* invalidate_staging_acceptance(), the begin of a backup and the supervisor
LEMMA LedgerPreserves ==
  ASSUME Inv, NEW d \in Deployments,
         InvalidateAcceptance(d) \/ BeginBackup(d) \/ SupervisorLoads(d)
  PROVE  Inv'
<1>1. /\ TypeOK /\ UNCHANGED <<lockVars, now, approval, start, backups>>
      /\ UNCHANGED <<intents, events, artifacts, acceptances>>
      /\ invalidated' \in {invalidated, invalidated \cup {d}}
      /\ loaded' \in {loaded, loaded \cup {d}}
      /\ dumping' = dumping \/ dumping' = [dumping EXCEPT ![d] = now]
  BY DEF Inv, InvalidateAcceptance, BeginBackup, SupervisorLoads, plan, backup
<1>2. dumping' \in [Deployments -> Nat \cup {NoRow}]
  BY <1>1 DEF TypeOK, LockTypeOK
<1>3. TypeOK'
  BY <1>1, <1>2 DEF TypeOK, LockTypeOK, lockVars, approval, start
<1>4. \A c \in Callers : StartOK(c)'
  BY <1>1, StartsKept DEF start
<1> QED BY <1>1, <1>3, <1>4, QuietPreserves DEF start

\* The end of a backup: what is recorded was verified in time.
LEMMA EndBackupPreserves ==
  ASSUME Inv, NEW d \in Deployments, EndBackup(d)
  PROVE  Inv'
<1> DEFINE row == [created |-> dumping[d], verified |-> now]
<1>1. /\ TypeOK /\ DeploymentOK(d) /\ dumping[d] # NoRow
      /\ UNCHANGED <<lockVars, now, plan, approval, start, loaded>>
      /\ dumping' = [dumping EXCEPT ![d] = NoRow]
      /\ \/ /\ now - dumping[d] <= BackupMaxAge
            /\ backups' = [backups EXCEPT ![d] = row]
         \/ UNCHANGED backups
  BY DEF Inv, EndBackup
<1>2. dumping[d] \in Nat /\ now \in Nat /\ BackupMaxAge \in Nat
  BY <1>1, DeploymentConstants DEF TypeOK, LockTypeOK
<1>3. row \in Backup /\ row.created = dumping[d] /\ row.verified = now
  BY <1>2 DEF Backup
<1> HIDE DEF row
<1>4. /\ backups' \in [Deployments -> Backup \cup {NoRow}]
      /\ \A e \in Deployments \ {d} : backups'[e] = backups[e]
  BY <1>1, <1>3, ZenonT(60) DEF TypeOK
<1>5. backups'[d] # NoRow =>
         backups'[d].verified <= backups'[d].created + BackupMaxAge
  <2>1. CASE UNCHANGED backups
    BY <1>1, <2>1 DEF DeploymentOK, DecisionAndBackup
  <2>2. CASE /\ now - dumping[d] <= BackupMaxAge
             /\ backups' = [backups EXCEPT ![d] = row]
    <3>1. backups'[d] = row
      BY <1>1, <2>2 DEF TypeOK
    <3>2. now <= dumping[d] + BackupMaxAge
      BY <1>2, <2>2
    <3> QED BY <1>3, <3>1, <3>2
  <2> QED BY <1>1, <2>1, <2>2
<1>6. dumping' \in [Deployments -> Nat \cup {NoRow}]
  BY <1>1 DEF TypeOK
<1>7. TypeOK'
  BY <1>1, <1>4, <1>6 DEF TypeOK, LockTypeOK, lockVars, plan, approval, start
<1>8. \A e \in Deployments \ {d} : Same(e)
  BY <1>1, <1>4 DEF Same, plan, approval, start
<1>9. DeploymentOK(d)'
  <2>1. Latest(d)' = Latest(d) /\ Deploying(d)' = Deploying(d)
    BY <1>1 DEF Latest, Deploying, plan
  <2>2. StateTells(d)' /\ DeployingIsLast(d)'
    BY <1>1, <2>1 DEF DeploymentOK, StateTells, DeployingIsLast, plan, start
  <2>3. DecisionAndBackup(d)'
    BY <1>1, <1>5 DEF DeploymentOK, DecisionAndBackup, approval
  <2>4. attempts'[d] # NoRow => Authorised(d)'
    BY <1>1, <2>1 DEF DeploymentOK, Authorised, plan, approval, start
  <2> QED BY <2>2, <2>3, <2>4 DEF DeploymentOK
<1>10. \A c \in Callers : StartOK(c)'
  BY <1>1, StartsKept DEF plan, start
<1> QED BY <1>7, <1>8, <1>9, <1>10, StepKeeps

-----------------------------------------------------------------------------
(* start_production_deployment()                                           *)

\* The intent is locked and the clock is read; or everything is rolled back.
LEMMA BeginStartPreserves ==
  ASSUME Inv, NEW c \in Callers, BeginStart(c) \/ StartFails(c)
  PROVE  Inv'
<1>1. /\ TypeOK
      /\ UNCHANGED <<lockVars, now, plan, approval, consumed, attempts, backup,
                     loaded>>
  BY DEF Inv, BeginStart, StartFails
<1>2. /\ startOp' \in [Callers -> StartOp \cup {NoRow}]
      /\ \A b \in Callers \ {c} : startOp'[b] = startOp[b]
      /\ startOp'[c] # NoRow => intents[startOp'[c].deployment] # NoRow
  <2>1. CASE StartFails(c)
    BY <1>1, <2>1 DEF StartFails, TypeOK
  <2>2. CASE BeginStart(c)
    <3> DEFINE d == held[c].deployment
               op == [deployment |-> d, token |-> held[c].token, at |-> now]
    <3>1. intents[d] # NoRow /\ startOp' = [startOp EXCEPT ![c] = op]
      BY <2>2 DEF BeginStart, IntentFree
    <3>2. held[c] \in ProductionLease /\ now \in Nat
      BY <1>1, <2>2 DEF BeginStart, TypeOK, LockTypeOK
    <3>3. op \in StartOp /\ op.deployment = d
      BY <3>2 DEF ProductionLease, StartOp
    <3> HIDE DEF op
    <3> QED BY <1>1, <3>1, <3>3 DEF TypeOK
  <2> QED BY <2>1, <2>2
<1>3. TypeOK'
  BY <1>1, <1>2 DEF TypeOK, LockTypeOK, lockVars, plan, approval, backup
<1>4. \A b \in Callers : StartOK(b)'
  BY <1>1, <1>2 DEF Inv, StartOK, plan
<1> QED BY <1>1, <1>3, <1>4, QuietPreserves DEF plan, backup

\* The commit: consumption, attempt and state event come together, for an
\* approval that was given in time by somebody else.
LEMMA CommitStartPreserves ==
  ASSUME Inv, NEW c \in Callers, CommitStart(c)
  PROVE  Inv'
<1>1. /\ TypeOK /\ startOp[c] # NoRow
      /\ intents[startOp[c].deployment] # NoRow
  BY DEF Inv, CommitStart, StartOK
<1>2. PICK op \in StartOp : op = startOp[c]
  BY <1>1 DEF TypeOK
<1>3. PICK d \in Deployments :
         d = op.deployment /\ op.token \in Nat /\ op.at \in Nat
  BY DEF StartOp
<1> DEFINE row == [token |-> op.token]
<1>4. /\ intents[d] # NoRow /\ ApprovalValid(op)
      /\ UNCHANGED <<lockVars, now, intents, artifacts, acceptances,
                     invalidated, approval, backup, loaded>>
      /\ consumed' = [consumed EXCEPT ![d] = op.at]
      /\ attempts' = [attempts EXCEPT ![d] = row]
      /\ startOp' = [startOp EXCEPT ![c] = NoRow]
      /\ AppendStateEvent(d, Deploying(d))
  BY <1>1, <1>2, <1>3 DEF CommitStart
<1>5. row \in Attempt /\ row # NoRow
  <2>1. row \in Attempt
    BY <1>3 DEF Attempt
  <2> HIDE DEF row
  <2> QED BY <2>1, AbsenceIsNoRecord
<1> HIDE DEF row
<1>6. PICK to \in State : to = Deploying(d)
  BY KindStates
<1>7. to \in DeployingStates /\ AppendStateEvent(d, to)
  BY <1>4, <1>6, KindStates
<1>8. DeploymentOK(d) /\ intents'[d] = intents[d]
  BY <1>3, <1>4 DEF Inv
<1>9. /\ events' \in [Deployments -> Seq(State)]
      /\ \A e \in Deployments \ {d} : events'[e] = events[e]
      /\ Latest(d)' = to /\ <<Latest(d), to>> \in Transitions
  BY <1>1, <1>3, <1>4, <1>7, AppendFacts
<1>10. Latest(d) \in AcceptedStates /\ Latest(d) \notin DeployingStates
  <2>1. Latest(d) \in {"PRODUCTION_APPROVAL_PENDING",
                       "ROLLBACK_APPROVAL_PENDING"}
    BY <1>7, <1>9, TransitionFrom DEF DeployingStates
  <2> QED BY <2>1 DEF AcceptedStates, DeployingStates
<1>11. /\ attempts' \in [Deployments -> Attempt \cup {NoRow}]
       /\ attempts'[d] # NoRow
       /\ \A e \in Deployments \ {d} : attempts'[e] = attempts[e]
  BY <1>1, <1>3, <1>4, <1>5 DEF TypeOK
<1>20. /\ consumed' \in [Deployments -> Nat \cup {NoRow}]
       /\ consumed'[d] = op.at /\ consumed'[d] # NoRow
       /\ \A e \in Deployments \ {d} : consumed'[e] = consumed[e]
  BY <1>1, <1>3, <1>4, AbsenceIsNoRecord DEF TypeOK
<1>12. TypeOK'
  <2>1. startOp' \in [Callers -> StartOp \cup {NoRow}]
    BY <1>1, <1>4 DEF TypeOK
  <2> QED BY <1>1, <1>4, <1>9, <1>11, <1>20, <2>1
          DEF TypeOK, LockTypeOK, lockVars, approval, backup
<1>13. \A e \in Deployments \ {d} : Same(e)
  BY <1>1, <1>4, <1>9, <1>11, <1>20 DEF Same, approval, backup
<1>14. StateTells(d)'
  <2>1. d \in artifacts /\ acceptances[d] # NoRow
    BY <1>8, <1>10 DEF DeploymentOK, StateTells
  <2>2. Latest(d)' # "none" /\ Latest(d)' \in DeployingStates
    BY <1>7, <1>9 DEF DeployingStates
  <2> QED BY <1>1, <1>4, <1>11, <1>20, <2>1, <2>2 DEF StateTells
<1>15. DeployingIsLast(d)'
  BY <1>1, <1>3, <1>4, <1>7, <1>8, <1>10, AppendKeepsOrder DEF DeploymentOK
<1>16. Authorised(d)'
  <2>1. Deploying(d)' = to
    BY <1>6, <1>8 DEF Deploying
  <2>2. /\ decisions[d] # NoRow /\ decisions[d].code = "approved"
        /\ decisions[d].user # intents[d].user
        /\ decisions[d].at < requests[d].expires
        /\ op.at < requests[d].expires
    BY <1>3, <1>4 DEF ApprovalValid
  <2> QED BY <1>1, <1>4, <1>9, <1>20, <2>1, <2>2
          DEF Authorised, approval
<1>17. DecisionAndBackup(d)'
  BY <1>1, <1>4, <1>8 DEF DeploymentOK, DecisionAndBackup, approval, backup
<1>18. \A b \in Callers : StartOK(b)'
  BY <1>1, <1>4 DEF Inv, StartOK, TypeOK
<1>19. DeploymentOK(d)'
  BY <1>14, <1>15, <1>16, <1>17 DEF DeploymentOK
<1> QED BY <1>12, <1>13, <1>18, <1>19, StepKeeps

-----------------------------------------------------------------------------
(* The invariant is inductive                                              *)

\* The lease and the clock
LEMMA LeasePreserves ==
  ASSUME Inv, UNCHANGED others, LockTypeOK'
  PROVE  Inv'
<1>1. TypeOK'
  BY DEF Inv, TypeOK, others, plan, approval, start, backup
<1>2. \A c \in Callers : StartOK(c)'
  BY StartsKept DEF others, plan, start
<1> QED BY <1>1, <1>2, QuietPreserves DEF others, plan, start, backup

\* Every operation of a deployment keeps the invariant.
LEMMA OperationPreserves ==
  ASSUME Inv, NEW d \in Deployments, Operation(d)
  PROVE  Inv'
<1>1. ASSUME NEW k \in Kinds, NEW u \in Users, CreateDeploymentIntent(d, k, u)
      PROVE  Inv'
  BY <1>1, CreatePreserves
<1> QED BY <1>1, DecisionPreserves, PreparePreserves, AcceptPreserves,
           BindPreserves, LedgerPreserves, EndBackupPreserves DEF Operation

\* Every step keeps the invariant.
LEMMA NextInv == Inv /\ [Next]_vars => Inv'
<1> SUFFICES ASSUME Inv, [Next]_vars PROVE Inv'
  OBVIOUS
<1>1. ASSUME NEW d \in Deployments, Operation(d) PROVE Inv'
  BY <1>1, OperationPreserves
<1>2. ASSUME NEW c \in Callers,
             BeginStart(c) \/ CommitStart(c) \/ StartFails(c)
      PROVE  Inv'
  BY <1>2, BeginStartPreserves, CommitStartPreserves
<1>3. ASSUME NEW c \in Callers, Lock(c) PROVE Inv'
  <2>1. LockStep(c) /\ UNCHANGED <<now, others>> /\ LockTypeOK
    BY <1>3 DEF Lock, LockStep, Inv, TypeOK
  <2>2. LockTypeOK'
    BY <2>1, LockStepType
  <2> QED BY <2>1, <2>2, LeasePreserves
<1>4. CASE ClockTick /\ UNCHANGED <<lockVars, others>>
  <2>1. LockTypeOK'
    BY <1>4 DEF Inv, TypeOK, LockTypeOK, ClockTick, lockVars
  <2> QED BY <1>4, <2>1, LeasePreserves
<1>5. CASE UNCHANGED vars
  <2>1. LockTypeOK' /\ UNCHANGED others
    BY <1>5 DEF vars, others, Inv, TypeOK, LockTypeOK, lockVars
  <2> QED BY <2>1, LeasePreserves
<1> QED BY <1>1, <1>2, <1>3, <1>4, <1>5 DEF Next

\* The invariant holds in every reachable state.
LEMMA Invariant == Spec => []Inv
  BY InitInv, NextInv, PTL DEF Spec

-----------------------------------------------------------------------------
(* The theorems                                                            *)

\* Every variable has its type (the tables of the control plane).
THEOREM TypeCorrect == Spec => []TypeOK
<1>1. Inv => TypeOK
  BY DEF Inv
<1> QED BY <1>1, Invariant, PTL

\* An attempt exists only for a deployment that was built, accepted on
\* staging and approved in time by somebody else than its requester, and the
\* approval was consumed at a time before its expiry
\* (start_production_deployment).
THEOREM AttemptsAreAuthorised == Spec => []AttemptIsAuthorised
<1>1. Inv => AttemptIsAuthorised
  <2> SUFFICES ASSUME Inv, NEW d \in Deployments, attempts[d] # NoRow
               PROVE  /\ d \in artifacts /\ acceptances[d] # NoRow
                      /\ Authorised(d) /\ consumed[d] # NoRow
    BY DEF AttemptIsAuthorised, Authorised
  <2>1. DeploymentOK(d)
    BY DEF Inv
  <2>2. /\ Authorised(d) /\ consumed[d] # NoRow
        /\ Latest(d) \in DeployingStates
    BY <2>1 DEF DeploymentOK, StateTells
  <2>3. d \in artifacts /\ acceptances[d] # NoRow
    BY <2>1, <2>2 DEF DeploymentOK, StateTells, AcceptedStates
  <2> QED BY <2>2, <2>3
<1> QED BY <1>1, Invariant, PTL

\* The consumption of the approval, the attempt and the single deploying
\* event come together, however the starts of one deployment race
\* (start_production_deployment).
THEOREM StartsAreAtomic == Spec => []StartIsAtomic
<1>1. Inv => StartIsAtomic
  <2> SUFFICES ASSUME Inv, NEW d \in Deployments
               PROVE  LET deploying == {i \in DOMAIN events[d] :
                                           events[d][i] \in DeployingStates} IN
                      /\ (consumed[d] # NoRow) <=> (attempts[d] # NoRow)
                      /\ (consumed[d] # NoRow) <=> (deploying # {})
                      /\ \A i, k \in deploying : i = k
    BY DEF StartIsAtomic, DeployingStates
  <2> DEFINE deploying == {i \in DOMAIN events[d] :
                              events[d][i] \in DeployingStates}
  <2>1. TypeOK /\ StateTells(d) /\ DeployingIsLast(d)
    BY DEF Inv, DeploymentOK
  <2>2. \A i \in deploying : i = Len(events[d])
    BY <2>1 DEF DeployingIsLast
  <2>3. ASSUME consumed[d] # NoRow PROVE deploying # {}
    <3>1. Latest(d) \in DeployingStates
      BY <2>1, <2>3 DEF StateTells
    <3>2. Latest(d) # "none"
      BY <3>1 DEF DeployingStates
    <3>3. /\ Len(events[d]) \in Nat \ {0} /\ events[d] \in Seq(State)
          /\ events[d][Len(events[d])] \in DeployingStates
      BY <2>1, <3>1, <3>2, LatestType
    <3>4. Len(events[d]) \in DOMAIN events[d]
      BY <3>3, LenProperties
    <3> QED BY <3>3, <3>4
  <2>4. ASSUME NEW i \in deploying PROVE consumed[d] # NoRow
    <3>1. i = Len(events[d]) /\ events[d][i] \in DeployingStates
      BY <2>2
    <3>2. events[d] # <<>>
      BY <2>4
    <3>3. Latest(d) \in DeployingStates
      BY <3>1, <3>2 DEF Latest
    <3> QED BY <2>1, <3>3 DEF StateTells
  <2>5. (consumed[d] # NoRow) <=> (attempts[d] # NoRow)
    BY <2>1 DEF StateTells
  <2> HIDE DEF deploying
  <2>6. \A i, k \in deploying : i = k
    BY <2>2
  <2> QED BY <2>3, <2>4, <2>5, <2>6 DEF deploying
<1> QED BY <1>1, Invariant, PTL

\* The supervisor accepts an attempt only with a backup that was made after
\* the staging acceptance and is not older than verification and waiting
\* may take together (create_and_verify, load).
THEOREM BackupsAreRecent == Spec => BackupIsRecent
<1>1. Inv /\ [Next]_vars =>
        [\A d \in loaded' \ loaded :
            /\ backups[d] # NoRow
            /\ backups[d].created >= acceptances[d].completed
            /\ now <= backups[d].created + 2 * BackupMaxAge]_vars
  <2> SUFFICES ASSUME Inv, Next, NEW d \in loaded' \ loaded
               PROVE  /\ backups[d] # NoRow
                      /\ backups[d].created >= acceptances[d].completed
                      /\ now <= backups[d].created + 2 * BackupMaxAge
    OBVIOUS
  <2>1. d \in Deployments /\ SupervisorLoads(d)
    <3>1. ASSUME UNCHANGED loaded PROVE FALSE
      BY <3>1
    <3>2. ASSUME NEW c \in Callers, Lock(c) PROVE FALSE
      BY <3>1, <3>2 DEF Lock, others
    <3>3. ASSUME ClockTick, UNCHANGED <<lockVars, others>> PROVE FALSE
      BY <3>1, <3>3 DEF others
    <3>4. ASSUME NEW c \in Callers,
                 BeginStart(c) \/ CommitStart(c) \/ StartFails(c)
          PROVE  FALSE
      BY <3>1, <3>4 DEF BeginStart, CommitStart, StartFails
    <3>5. PICK e \in Deployments : Operation(e)
      BY <3>2, <3>3, <3>4 DEF Next
    <3>6. SupervisorLoads(e)
      <4>1. ASSUME NEW k \in Kinds, NEW u \in Users,
                   CreateDeploymentIntent(e, k, u)
            PROVE  FALSE
        BY <3>1, <4>1 DEF CreateDeploymentIntent
      <4>2. CASE \/ CommitDecision(e) \/ DecisionFails(e)
                 \/ \E u \in Users, code \in {"approved", "rejected"} :
                       BeginDecision(e, u, code)
        BY <3>1, <4>2 DEF BeginDecision, CommitDecision, DecisionFails
      <4>3. CASE \/ RecordArtifact(e) \/ BeginStaging(e)
                 \/ RecordStagingFailure(e) \/ RecordStagingAcceptance(e)
        BY <3>1, <4>3 DEF RecordArtifact, BeginStaging, RecordStagingFailure,
               RecordStagingAcceptance
      <4>4. CASE \/ InvalidateAcceptance(e) \/ CreateBoundApproval(e)
                 \/ BeginBackup(e) \/ EndBackup(e)
        BY <3>1, <4>4 DEF InvalidateAcceptance, CreateBoundApproval,
               BeginBackup, EndBackup
      <4> QED BY <3>5, <4>1, <4>2, <4>3, <4>4 DEF Operation
    <3>7. d = e
      BY <3>6 DEF SupervisorLoads
    <3> QED BY <3>6, <3>7
  <2>2. /\ backups[d] # NoRow
        /\ backups[d].created >= acceptances[d].completed
        /\ backups[d].verified + BackupMaxAge >= now
    BY <2>1 DEF SupervisorLoads, Loadable
  <2>3. backups[d] \in Backup /\ now \in Nat /\ BackupMaxAge \in Nat
    BY <2>1, <2>2, DeploymentConstants DEF Inv, TypeOK, LockTypeOK
  <2>4. backups[d].verified \in Nat /\ backups[d].created \in Nat
    BY <2>3 DEF Backup
  <2>5. backups[d].verified <= backups[d].created + BackupMaxAge
    BY <2>1, <2>2 DEF Inv, DeploymentOK, DecisionAndBackup
  <2>6. now <= backups[d].created + 2 * BackupMaxAge
    BY <2>2, <2>3, <2>4, <2>5
  <2> QED BY <2>2, <2>6
<1> QED BY <1>1, Invariant, PTL DEF Spec, BackupIsRecent

-----------------------------------------------------------------------------
(* The refinement of the documented lifecycle                              *)

KindOf == [d \in Deployments |->
              IF intents[d] = NoRow THEN "none" ELSE intents[d].kind]
StateOf == [d \in Deployments |-> Latest(d)]

\* The state of one deployment changes.
LEMMA StateChanges ==
  ASSUME TypeOK, NEW d \in Deployments, NEW to \in State,
         AppendStateEvent(d, to)
  PROVE  StateOf' = [StateOf EXCEPT ![d] = to] /\ StateOf'[d] = to
<1>1. /\ \A e \in Deployments \ {d} : events'[e] = events[e]
      /\ Latest(d)' = to
  BY AppendFacts
<1>2. \A e \in Deployments \ {d} : Latest(e)' = Latest(e)
  BY <1>1 DEF Latest
<1>3. \A e \in Deployments :
         Latest(e)' = IF e = d THEN to ELSE Latest(e)
  BY <1>1, <1>2
<1> QED BY <1>3 DEF StateOf

\* An intent has one of the two kinds.
LEMMA KindType ==
  ASSUME TypeOK, NEW d \in Deployments, intents[d] # NoRow
  PROVE  /\ KindOf[d] = intents[d].kind
         /\ intents[d].kind \in {"deploy", "rollback"}
<1>1. intents[d] \in Intent
  BY DEF TypeOK
<1> QED BY <1>1 DEF KindOf, Intent

\* An event along the chain of its kind is a step of the lifecycle.
LEMMA EventAdvances ==
  ASSUME TypeOK, NEW d \in Deployments, NEW to \in State,
         AppendStateEvent(d, to), UNCHANGED intents,
         intents[d] # NoRow,
         <<Latest(d), to>> \in Lifecycle!Chain(intents[d].kind)
  PROVE  Lifecycle!Next
<1>1. StateOf' = [StateOf EXCEPT ![d] = to] /\ StateOf'[d] = to
  BY StateChanges
<1>2. StateOf[d] = Latest(d) /\ KindOf[d] = intents[d].kind
  BY KindType DEF StateOf
<1>3. KindOf' = KindOf
  BY DEF KindOf
<1>4. /\ <<StateOf[d], StateOf'[d]>> \in Lifecycle!Chain(KindOf[d])
      /\ StateOf' = [StateOf EXCEPT ![d] = StateOf'[d]]
  BY <1>1, <1>2
<1>5. Lifecycle!Advance(d)
  BY <1>3, <1>4 DEF Lifecycle!Advance, StateOf, KindOf
<1> QED BY <1>5 DEF Lifecycle!Next

\* The transitions that the operations ask for are those of the chains.
LEMMA OnTheChain ==
  ASSUME NEW from, NEW to, NEW k \in {"deploy", "rollback"},
         <<from, to>> \in Transitions,
         \/ to \in {"ARTIFACT_RECORDED", "STAGING_DEPLOYING",
                    "STAGING_VALIDATED", "STAGING_FAILED"}
         \/ /\ k = "deploy"
            /\ to \in {"PRODUCTION_APPROVAL_PENDING", "PRODUCTION_DEPLOYING"}
         \/ /\ k = "rollback"
            /\ to \in {"ROLLBACK_APPROVAL_PENDING", "ROLLBACK_DEPLOYING"}
  PROVE  <<from, to>> \in Lifecycle!Chain(k)
<1>1. CASE to \in {"ARTIFACT_RECORDED", "STAGING_DEPLOYING",
                   "STAGING_VALIDATED", "STAGING_FAILED"}
  <2>1. <<from, to>> \in Lifecycle!Preparation
    BY <1>1, TransitionFrom DEF Lifecycle!Preparation
  <2> QED BY <2>1 DEF Lifecycle!Chain, Lifecycle!DeployChain,
                      Lifecycle!RollbackChain
<1>2. CASE /\ k = "deploy"
           /\ to \in {"PRODUCTION_APPROVAL_PENDING", "PRODUCTION_DEPLOYING"}
  BY <1>2, TransitionFrom DEF Lifecycle!Chain, Lifecycle!DeployChain
<1>3. CASE /\ k = "rollback"
           /\ to \in {"ROLLBACK_APPROVAL_PENDING", "ROLLBACK_DEPLOYING"}
  BY <1>3, TransitionFrom DEF Lifecycle!Chain, Lifecycle!RollbackChain
<1> QED BY <1>1, <1>2, <1>3

\* An operation on an intent advances it.
LEMMA IntentAdvances ==
  ASSUME TypeOK, NEW d \in Deployments, intents[d] # NoRow, UNCHANGED intents,
         NEW to, AppendStateEvent(d, to),
         to \in {"ARTIFACT_RECORDED", "STAGING_DEPLOYING", "STAGING_VALIDATED",
                 "STAGING_FAILED", Pending(d), Deploying(d)}
  PROVE  Lifecycle!Next
<1>1. PICK k \in {"deploy", "rollback"} : k = intents[d].kind
  BY KindType
<1>2. to \in State
  BY KindStates DEF State
<1>3. \/ to \in {"ARTIFACT_RECORDED", "STAGING_DEPLOYING",
                 "STAGING_VALIDATED", "STAGING_FAILED"}
      \/ /\ k = "deploy"
         /\ to \in {"PRODUCTION_APPROVAL_PENDING", "PRODUCTION_DEPLOYING"}
      \/ /\ k = "rollback"
         /\ to \in {"ROLLBACK_APPROVAL_PENDING", "ROLLBACK_DEPLOYING"}
  BY <1>1 DEF Pending, Deploying
<1>4. <<Latest(d), to>> \in Lifecycle!Chain(k)
  BY <1>3, OnTheChain DEF AppendStateEvent
<1> QED BY <1>1, <1>2, <1>4, EventAdvances

\* An intent begins the life of its deployment.
LEMMA IntentCreates ==
  ASSUME Inv, NEW d \in Deployments, NEW k \in Kinds, NEW u \in Users,
         CreateDeploymentIntent(d, k, u)
  PROVE  Lifecycle!Next
<1> DEFINE row == [kind |-> k, user |-> u]
<1>1. PICK to \in State : to = "INTENT_CREATED"
  BY DEF State
<1>2. /\ TypeOK /\ AppendStateEvent(d, to)
      /\ intents' = [intents EXCEPT ![d] = row]
  BY <1>1 DEF Inv, CreateDeploymentIntent
<1>3. row # NoRow /\ row.kind = k /\ k \in {"deploy", "rollback"}
  BY DeploymentConstants, AbsenceIsNoRecord DEF Intent
<1> HIDE DEF row
<1>4. KindOf' = [KindOf EXCEPT ![d] = k]
  BY <1>2, <1>3 DEF TypeOK, KindOf
<1>5. StateOf' = [StateOf EXCEPT ![d] = to]
  BY <1>2, StateChanges
<1>6. StateOf[d] = "none"
  BY <1>1, <1>2, TransitionFrom DEF AppendStateEvent, StateOf
<1>7. Lifecycle!Create(d, k)
  BY <1>1, <1>4, <1>5, <1>6 DEF Lifecycle!Create, StateOf, KindOf
<1> QED BY <1>3, <1>7 DEF Lifecycle!Next

\* Every step is a step of the lifecycle or leaves kind and state alone.
LEMMA StepRefines ==
  Inv /\ [Next]_vars => [Lifecycle!Next]_<<KindOf, StateOf>>
<1> SUFFICES ASSUME Inv, [Next]_vars
             PROVE  Lifecycle!Next \/ UNCHANGED <<KindOf, StateOf>>
  OBVIOUS
<1>1. TypeOK
  BY DEF Inv
<1>2. ASSUME UNCHANGED <<intents, events>>
      PROVE  UNCHANGED <<KindOf, StateOf>>
  BY <1>2 DEF KindOf, StateOf, Latest
<1>3. ASSUME NEW d \in Deployments, Operation(d)
      PROVE  Lifecycle!Next \/ UNCHANGED <<intents, events>>
  <2>1. ASSUME NEW k \in Kinds, NEW u \in Users,
               CreateDeploymentIntent(d, k, u)
        PROVE  Lifecycle!Next
    BY <2>1, IntentCreates
  <2>2. CASE \/ RecordArtifact(d) \/ BeginStaging(d)
             \/ RecordStagingFailure(d) \/ RecordStagingAcceptance(d)
             \/ CreateBoundApproval(d)
    <3>1. PICK to : /\ AppendStateEvent(d, to)
                    /\ to \in {"ARTIFACT_RECORDED", "STAGING_DEPLOYING",
                               "STAGING_VALIDATED", "STAGING_FAILED",
                               Pending(d), Deploying(d)}
      BY <2>2 DEF RecordArtifact, BeginStaging, RecordStagingFailure,
                  RecordStagingAcceptance, CreateBoundApproval
    <3>2. intents[d] # NoRow /\ UNCHANGED intents
      BY <2>2 DEF RecordArtifact, BeginStaging, RecordStagingFailure,
                  RecordStagingAcceptance, CreateBoundApproval, IntentFree
    <3> QED BY <1>1, <3>1, <3>2, IntentAdvances
  <2>3. CASE \/ InvalidateAcceptance(d) \/ BeginBackup(d) \/ EndBackup(d)
             \/ SupervisorLoads(d)
    BY <2>3 DEF InvalidateAcceptance, BeginBackup, EndBackup,
                SupervisorLoads, plan
  <2>4. CASE \/ CommitDecision(d) \/ DecisionFails(d)
             \/ \E u \in Users, code \in {"approved", "rejected"} :
                   BeginDecision(d, u, code)
    BY <2>4 DEF BeginDecision, CommitDecision, DecisionFails, plan
  <2> QED BY <1>3, <2>1, <2>2, <2>3, <2>4 DEF Operation
<1>4. ASSUME NEW c \in Callers, CommitStart(c) PROVE Lifecycle!Next
  <2>1. startOp[c] # NoRow /\ StartOK(c)
    BY <1>4 DEF CommitStart, Inv
  <2>2. startOp[c] \in StartOp
    BY <1>1, <2>1 DEF TypeOK
  <2>3. PICK d \in Deployments : d = startOp[c].deployment
    BY <2>2 DEF StartOp
  <2>4. /\ intents[d] # NoRow /\ UNCHANGED intents
        /\ AppendStateEvent(d, Deploying(d))
    BY <1>4, <2>1, <2>3 DEF CommitStart, StartOK
  <2> QED BY <1>1, <2>4, IntentAdvances
<1>5. ASSUME NEW c \in Callers, BeginStart(c) \/ StartFails(c) \/ Lock(c)
      PROVE  UNCHANGED <<intents, events>>
  BY <1>5 DEF BeginStart, StartFails, Lock, others, plan
<1>6. CASE ClockTick /\ UNCHANGED <<lockVars, others>>
  BY <1>2, <1>6 DEF others, plan
<1>7. CASE UNCHANGED vars
  BY <1>2, <1>7 DEF vars, plan
<1> QED BY <1>2, <1>3, <1>4, <1>5, <1>6, <1>7 DEF Next

\* The state events of every deployment follow the documented chain of its
\* kind, whatever operations race for it (require_transition and the row
\* lock of the intent).
THEOREM Refinement == Spec => ImplementsLifecycle
<1>1. Init => Lifecycle!Init
  BY DEF Init, Lifecycle!Init, Latest
<1>2. Inv /\ [Next]_vars =>
        [Lifecycle!Next]_<<[d \in Deployments |->
                               IF intents[d] = NoRow THEN "none"
                                                     ELSE intents[d].kind],
                           [d \in Deployments |-> Latest(d)]>>
  BY StepRefines DEF KindOf, StateOf
<1> QED BY <1>1, <1>2, Invariant, PTL
        DEF Spec, ImplementsLifecycle, Lifecycle!Spec
=============================================================================
