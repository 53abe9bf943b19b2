----------------------------- MODULE Deployment -----------------------------
(***************************************************************************)
(* The deployment control plane (app/services/deployment_service.py and    *)
(* the authorities it relies on): intents with their append-only state     *)
(* events, artifacts, staging acceptances, the approval that is bound to a *)
(* deployment, its one-time consumption by start_production_deployment,    *)
(* the predeployment backup and the check with which the host supervisor   *)
(* loads an attempt.  It runs on the production lease of ProductionLock.   *)
(*                                                                         *)
(* Every operation is one transaction that locks the row of its intent, so *)
(* it is one action.  start_production_deployment is two: it reads the     *)
(* clock after locking the intent and waits for the request, the decision  *)
(* and the lease afterwards.  record_approval_decision                     *)
(* (app/services/approval_service.py) is two as well: it locks the row of  *)
(* the request and reads the clock, and commits later.  What a deployment  *)
(* consists of (repository, SHA, digest, services, configuration) never    *)
(* changes after its intent; a call that names other values is refused and *)
(* has no action here.                                                     *)
(***************************************************************************)
EXTENDS ProductionLock, Sequences

CONSTANTS
    Users,          \* canonical users
    Kinds,          \* intent_kind values that are used
    Validity,       \* validity_seconds of a staging acceptance, in ticks
    Ttl,            \* ttl_seconds of an approval, in ticks
    BackupMaxAge    \* the 30 minutes of the backup, in ticks

ASSUME DeploymentConstants ==
    /\ Kinds \subseteq {"deploy", "rollback"}
    /\ Validity \in Nat \ {0} /\ Ttl \in Nat \ {0} /\ BackupMaxAge \in Nat
    /\ NoRow \notin Users

VARIABLES
    intents,        \* deployment_intents: kind and requester
    events,         \* deployment_state_events: to_state by sequence
    artifacts,      \* deployments with a row in deployment_artifacts
    acceptances,    \* staging_acceptances
    invalidated,    \* deployments whose acceptance has an invalidation row
    requests,       \* approval request and binding of each deployment
    deciding,       \* a decision not committed yet: the request is locked
    decisions,      \* approval_decisions
    consumed,       \* consumed_at of deployment_approval_consumptions
    attempts,       \* deployment_execution_attempts
    dumping,        \* a backup is being made: its created_at
    backups,        \* latest predeploy_backup evidence
    startOp,        \* start_production_deployment of each caller
    loaded          \* deployments whose attempt the supervisor has accepted

plan     == <<intents, events, artifacts, acceptances, invalidated>>
approval == <<requests, deciding, decisions>>
start    == <<consumed, attempts, startOp>>
backup   == <<dumping, backups>>
vars     == <<lockVars, now, plan, approval, start, backup, loaded>>

-----------------------------------------------------------------------------
(* Data                                                                    *)

State == {"INTENT_CREATED", "ARTIFACT_RECORDED", "STAGING_DEPLOYING",
          "STAGING_VALIDATED", "STAGING_FAILED",
          "PRODUCTION_APPROVAL_PENDING", "PRODUCTION_DEPLOYING",
          "PRODUCTION_HEALTHY", "PRODUCTION_FAILED",
          "ROLLBACK_APPROVAL_PENDING", "ROLLBACK_DEPLOYING",
          "ROLLED_BACK", "ROLLBACK_FAILED"}

Intent == [kind : {"deploy", "rollback"}, user : Users]
Acceptance == [completed : Nat, until : Nat]
Request == [user : Users, expires : Nat]
Decision == [code : {"approved", "rejected"}, user : Users, at : Nat]
Attempt == [token : Nat]
Backup == [created : Nat, verified : Nat]
StartOp == [deployment : Deployments, token : Nat, at : Nat]

ASSUME AbsenceIsNoRecord ==
    NoRow \notin Intent \cup Acceptance \cup Request \cup Decision
                 \cup Attempt \cup Backup \cup StartOp \cup Nat

TypeOK ==
    /\ LockTypeOK
    /\ intents \in [Deployments -> Intent \cup {NoRow}]
    /\ events \in [Deployments -> Seq(State)]
    /\ artifacts \subseteq Deployments
    /\ acceptances \in [Deployments -> Acceptance \cup {NoRow}]
    /\ invalidated \subseteq Deployments
    /\ requests \in [Deployments -> Request \cup {NoRow}]
    /\ deciding \in [Deployments -> Decision \cup {NoRow}]
    /\ decisions \in [Deployments -> Decision \cup {NoRow}]
    /\ consumed \in [Deployments -> Nat \cup {NoRow}]
    /\ attempts \in [Deployments -> Attempt \cup {NoRow}]
    /\ dumping \in [Deployments -> Nat \cup {NoRow}]
    /\ backups \in [Deployments -> Backup \cup {NoRow}]
    /\ startOp \in [Callers -> StartOp \cup {NoRow}]
    /\ loaded \subseteq Deployments

Init ==
    /\ LockInit
    /\ intents = [d \in Deployments |-> NoRow]
    /\ events = [d \in Deployments |-> <<>>]
    /\ artifacts = {}
    /\ acceptances = [d \in Deployments |-> NoRow]
    /\ invalidated = {}
    /\ requests = [d \in Deployments |-> NoRow]
    /\ deciding = [d \in Deployments |-> NoRow]
    /\ decisions = [d \in Deployments |-> NoRow]
    /\ consumed = [d \in Deployments |-> NoRow]
    /\ attempts = [d \in Deployments |-> NoRow]
    /\ dumping = [d \in Deployments |-> NoRow]
    /\ backups = [d \in Deployments |-> NoRow]
    /\ startOp = [c \in Callers |-> NoRow]
    /\ loaded = {}

-----------------------------------------------------------------------------
(* State events                                                            *)

\* DEPLOYMENT_TRANSITIONS; "none" stands for INITIAL_STATE.
Transitions ==
    {<<"none", "INTENT_CREATED">>,
     <<"INTENT_CREATED", "ARTIFACT_RECORDED">>,
     <<"ARTIFACT_RECORDED", "STAGING_DEPLOYING">>,
     <<"STAGING_DEPLOYING", "STAGING_VALIDATED">>,
     <<"STAGING_DEPLOYING", "STAGING_FAILED">>,
     <<"STAGING_VALIDATED", "PRODUCTION_APPROVAL_PENDING">>,
     <<"STAGING_VALIDATED", "ROLLBACK_APPROVAL_PENDING">>,
     <<"PRODUCTION_APPROVAL_PENDING", "PRODUCTION_DEPLOYING">>,
     <<"PRODUCTION_DEPLOYING", "PRODUCTION_HEALTHY">>,
     <<"PRODUCTION_DEPLOYING", "PRODUCTION_FAILED">>,
     <<"ROLLBACK_APPROVAL_PENDING", "ROLLBACK_DEPLOYING">>,
     <<"ROLLBACK_DEPLOYING", "ROLLED_BACK">>,
     <<"ROLLBACK_DEPLOYING", "ROLLBACK_FAILED">>}

\* _latest_state_event()
Latest(d) == IF events[d] = <<>> THEN "none" ELSE events[d][Len(events[d])]

\* require_transition() and the insert of _append_state_event()
AppendStateEvent(d, to) ==
    /\ <<Latest(d), to>> \in Transitions
    /\ events' = [events EXCEPT ![d] = Append(events[d], to)]

Pending(d) == IF intents[d].kind = "deploy"
              THEN "PRODUCTION_APPROVAL_PENDING"
              ELSE "ROLLBACK_APPROVAL_PENDING"

Deploying(d) == IF intents[d].kind = "deploy"
                THEN "PRODUCTION_DEPLOYING" ELSE "ROLLBACK_DEPLOYING"

\* The row of the intent is locked by a start that has not committed yet.
IntentFree(d) ==
    /\ intents[d] # NoRow
    /\ \A c \in Callers : startOp[c] # NoRow => startOp[c].deployment # d

-----------------------------------------------------------------------------
(* Before production                                                       *)

CreateDeploymentIntent(d, kind, user) ==
    /\ intents[d] = NoRow
    /\ intents' = [intents EXCEPT ![d] = [kind |-> kind, user |-> user]]
    /\ AppendStateEvent(d, "INTENT_CREATED")
    /\ UNCHANGED <<lockVars, now, artifacts, acceptances, invalidated,
                   approval, start, backup, loaded>>

RecordArtifact(d) ==
    /\ IntentFree(d)
    /\ d \notin artifacts
    /\ artifacts' = artifacts \cup {d}
    /\ AppendStateEvent(d, "ARTIFACT_RECORDED")
    /\ UNCHANGED <<lockVars, now, intents, acceptances, invalidated, approval,
                   start, backup, loaded>>

BeginStaging(d) ==
    /\ IntentFree(d)
    /\ AppendStateEvent(d, "STAGING_DEPLOYING")
    /\ UNCHANGED <<lockVars, now, intents, artifacts, acceptances, invalidated,
                   approval, start, backup, loaded>>

RecordStagingFailure(d) ==
    /\ IntentFree(d)
    /\ AppendStateEvent(d, "STAGING_FAILED")
    /\ UNCHANGED <<lockVars, now, intents, artifacts, acceptances, invalidated,
                   approval, start, backup, loaded>>

RecordStagingAcceptance(d) ==
    /\ IntentFree(d)
    /\ d \in artifacts
    /\ acceptances[d] = NoRow
    /\ acceptances' = [acceptances EXCEPT ![d] =
                          [completed |-> now, until |-> now + Validity]]
    /\ AppendStateEvent(d, "STAGING_VALIDATED")
    /\ UNCHANGED <<lockVars, now, intents, artifacts, invalidated, approval,
                   start, backup, loaded>>

\* invalidate_staging_acceptance locks nothing.
InvalidateAcceptance(d) ==
    /\ acceptances[d] # NoRow
    /\ d \notin invalidated
    /\ invalidated' = invalidated \cup {d}
    /\ UNCHANGED <<lockVars, now, intents, events, artifacts, acceptances,
                   approval, start, backup, loaded>>

\* Mutant: a rollback asks for the approval of a normal deployment.
CreateBoundApproval_SameForRollback(d) ==
    /\ IntentFree(d)
    /\ d \in artifacts
    /\ requests[d] = NoRow
    /\ requests' = [requests EXCEPT ![d] =
           [user |-> intents[d].user, expires |-> now + Ttl]]
    /\ AppendStateEvent(d, "PRODUCTION_APPROVAL_PENDING")
    /\ UNCHANGED <<lockVars, now, intents, artifacts, acceptances, invalidated,
                   deciding, decisions, start, backup, loaded>>

\* create_bound_production_approval
CreateBoundApproval(d) ==
    /\ IntentFree(d)
    /\ d \in artifacts
    /\ requests[d] = NoRow
    /\ requests' = [requests EXCEPT ![d] =
           [user |-> intents[d].user, expires |-> now + Ttl]]
    /\ AppendStateEvent(d, Pending(d))
    /\ UNCHANGED <<lockVars, now, intents, artifacts, acceptances, invalidated,
                   deciding, decisions, start, backup, loaded>>

\* record_approval_decision: it waits for the row of the request, then reads
\* the clock and looks for a decision ...
BeginDecision(d, user, code) ==
    /\ requests[d] # NoRow
    /\ deciding[d] = NoRow
    /\ user # requests[d].user
    /\ now < requests[d].expires
    /\ decisions[d] = NoRow
    /\ deciding' = [deciding EXCEPT ![d] =
                       [code |-> code, user |-> user, at |-> now]]
    /\ UNCHANGED <<lockVars, now, plan, requests, decisions, start, backup,
                   loaded>>

\* ... and commits,
CommitDecision(d) ==
    /\ deciding[d] # NoRow
    /\ decisions' = [decisions EXCEPT ![d] = deciding[d]]
    /\ deciding' = [deciding EXCEPT ![d] = NoRow]
    /\ UNCHANGED <<lockVars, now, plan, requests, start, backup, loaded>>

\* or a database error rolls it back.
DecisionFails(d) ==
    /\ deciding[d] # NoRow
    /\ deciding' = [deciding EXCEPT ![d] = NoRow]
    /\ UNCHANGED <<lockVars, now, plan, requests, decisions, start, backup,
                   loaded>>

\* ProductionBackupAuthority.create_and_verify: created_at ...
BeginBackup(d) ==
    /\ acceptances[d] # NoRow
    /\ dumping[d] = NoRow
    /\ dumping' = [dumping EXCEPT ![d] = now]
    /\ UNCHANGED <<lockVars, now, plan, approval, start, backups, loaded>>

\* Mutant: the time that the verification took is not looked at.
EndBackup_AnyDuration(d) ==
    /\ dumping[d] # NoRow
    /\ \/ /\ IntentFree(d)
          /\ backups' = [backups EXCEPT ![d] =
                            [created |-> dumping[d], verified |-> now]]
       \/ UNCHANGED backups
    /\ dumping' = [dumping EXCEPT ![d] = NoRow]
    /\ UNCHANGED <<lockVars, now, plan, approval, start, loaded>>

\* ... and, after dump, catalog and canary restore, verified_at
EndBackup(d) ==
    /\ dumping[d] # NoRow
    /\ \/ /\ now - dumping[d] <= BackupMaxAge
          /\ IntentFree(d)
          /\ backups' = [backups EXCEPT ![d] =
                            [created |-> dumping[d], verified |-> now]]
       \/ UNCHANGED backups
    /\ dumping' = [dumping EXCEPT ![d] = NoRow]
    /\ UNCHANGED <<lockVars, now, plan, approval, start, loaded>>

-----------------------------------------------------------------------------
(* start_production_deployment()                                           *)

\* With an attempt there already, the call only returns it.
BeginStart(c) ==
    /\ startOp[c] = NoRow
    /\ held[c] # NoRow
    /\ LET d == held[c].deployment IN
       /\ IntentFree(d)
       /\ attempts[d] = NoRow
       /\ requests[d] # NoRow
       /\ startOp' = [startOp EXCEPT ![c] =
              [deployment |-> d, token |-> held[c].token, at |-> now]]
    /\ UNCHANGED <<lockVars, now, plan, approval, consumed, attempts, backup,
                   loaded>>

\* The current lease is the deployment's, with the caller's token.
LeaseValid(op) ==
    /\ lock # NoRow
    /\ lock.deployment = op.deployment
    /\ lock.token = op.token
    /\ lock.expires > op.at

\* Mutant: what was decided is not looked at.
ApprovalValid_AnyDecision(op) ==
    LET d == op.deployment IN
    /\ decisions[d] # NoRow
    /\ op.at < requests[d].expires
    /\ decisions[d].at < requests[d].expires
    /\ decisions[d].user # intents[d].user

ApprovalValid(op) ==
    LET d == op.deployment IN
    /\ decisions[d] # NoRow
    /\ op.at < requests[d].expires
    /\ decisions[d].at < requests[d].expires
    /\ decisions[d].code = "approved"
    /\ decisions[d].user # intents[d].user

\* Mutant: the approval is consumed in a transaction of its own.
CommitStart_ConsumesAlone(c) ==
    LET op == startOp[c]
        d == op.deployment IN
    /\ op # NoRow
    /\ deciding[d] = NoRow
    /\ LeaseValid(op)
    /\ ApprovalValid(op)
    /\ AppendStateEvent(d, Deploying(d))
    /\ consumed' = [consumed EXCEPT ![d] = op.at]
    /\ startOp' = [startOp EXCEPT ![c] = NoRow]
    /\ UNCHANGED <<lockVars, now, intents, artifacts, acceptances, invalidated,
                   approval, attempts, backup, loaded>>

\* It waits for the request, which a decision may have locked, for the
\* decision and for the lease, and checks them against the time at which
\* the call began to wait.
CommitStart(c) ==
    LET op == startOp[c]
        d == op.deployment IN
    /\ op # NoRow
    /\ deciding[d] = NoRow
    /\ LeaseValid(op)
    /\ ApprovalValid(op)
    /\ AppendStateEvent(d, Deploying(d))
    /\ consumed' = [consumed EXCEPT ![d] = op.at]
    /\ attempts' = [attempts EXCEPT ![d] = [token |-> op.token]]
    /\ startOp' = [startOp EXCEPT ![c] = NoRow]
    /\ UNCHANGED <<lockVars, now, intents, artifacts, acceptances, invalidated,
                   approval, backup, loaded>>

\* deployment_lock_or_approval_invalid, approval_binding_or_separation_invalid
\* or any database error: everything is rolled back.
StartFails(c) ==
    /\ startOp[c] # NoRow
    /\ startOp' = [startOp EXCEPT ![c] = NoRow]
    /\ UNCHANGED <<lockVars, now, plan, approval, consumed, attempts, backup,
                   loaded>>

-----------------------------------------------------------------------------
(* The host supervisor                                                     *)

\* SQLAlchemyAttemptAuthority.load: what it requires of the database
Loadable(d) ==
    /\ attempts[d] # NoRow
    /\ acceptances[d] # NoRow /\ acceptances[d].until > now
    /\ lock # NoRow
    /\ lock.deployment = d
    /\ lock.token = attempts[d].token
    /\ decisions[d] # NoRow /\ decisions[d].code = "approved"
    /\ consumed[d] # NoRow
    /\ backups[d] # NoRow
    /\ backups[d].created >= acceptances[d].completed
    /\ backups[d].verified + BackupMaxAge >= now

SupervisorLoads(d) ==
    /\ Loadable(d)
    /\ loaded' = loaded \cup {d}
    /\ UNCHANGED <<lockVars, now, plan, approval, start, backup>>

-----------------------------------------------------------------------------
(* The specification                                                       *)

others == <<plan, approval, start, backup, loaded>>

\* A caller is in one operation at a time.  A new row refers to the intent,
\* which its foreign key locks; the other operations only touch the intent
\* when their evidence is new.
Lock(c) ==
    /\ startOp[c] = NoRow
    /\ \/ \E d \in Deployments : intents[d] # NoRow /\ BeginAcquire(c, d)
       \/ BeginRenew(c)
       \/ InsertLock(c) /\ IntentFree(lockOp[c].deployment)
       \/ ReacquireLock(c) \/ RenewLock(c) \/ LockOpFails(c)
       \/ ReleaseLock(c)
    /\ UNCHANGED <<now, others>>

Operation(d) ==
    \/ \E k \in Kinds, u \in Users : CreateDeploymentIntent(d, k, u)
    \/ RecordArtifact(d) \/ BeginStaging(d) \/ RecordStagingFailure(d)
    \/ RecordStagingAcceptance(d) \/ InvalidateAcceptance(d)
    \/ CreateBoundApproval(d)
    \/ \E u \in Users, code \in {"approved", "rejected"} :
          BeginDecision(d, u, code)
    \/ CommitDecision(d) \/ DecisionFails(d)
    \/ BeginBackup(d) \/ EndBackup(d)
    \/ SupervisorLoads(d)

Next ==
    \/ \E d \in Deployments : Operation(d)
    \/ \E c \in Callers :
          \/ lockOp[c] = NoRow /\ BeginStart(c)
          \/ CommitStart(c) \/ StartFails(c)
          \/ Lock(c)
    \/ ClockTick /\ UNCHANGED <<lockVars, others>>

Spec == Init /\ [][Next]_vars

-----------------------------------------------------------------------------
(* Properties                                                              *)

\* An attempt exists only for a deployment that was built, accepted on
\* staging and approved in time by somebody else than its requester; the
\* approval was consumed at a time at which it had not expired, although the
\* call waits for locks after it has read the clock; and the last state says
\* that it is deploying (start_production_deployment).
AttemptIsAuthorised ==
    \A d \in Deployments :
        attempts[d] # NoRow =>
            /\ d \in artifacts
            /\ acceptances[d] # NoRow
            /\ decisions[d] # NoRow
            /\ decisions[d].code = "approved"
            /\ decisions[d].user # intents[d].user
            /\ decisions[d].at < requests[d].expires
            /\ consumed[d] # NoRow /\ consumed[d] < requests[d].expires
            /\ Latest(d) = Deploying(d)

\* The consumption of the approval, the attempt and the single deploying
\* event come together: nothing of a start is ever seen alone or twice.
StartIsAtomic ==
    \A d \in Deployments :
        LET deploying == {i \in DOMAIN events[d] :
                             events[d][i] \in {"PRODUCTION_DEPLOYING",
                                               "ROLLBACK_DEPLOYING"}} IN
        /\ (consumed[d] # NoRow) <=> (attempts[d] # NoRow)
        /\ (consumed[d] # NoRow) <=> (deploying # {})
        /\ \A i, k \in deploying : i = k

\* The supervisor accepts an attempt only with a backup that was made after
\* the staging acceptance and whose dump is younger than the verification
\* and the waiting time together allow (create_and_verify, load).
BackupIsRecent ==
    [][\A d \in loaded' \ loaded :
          /\ backups[d] # NoRow
          /\ backups[d].created >= acceptances[d].completed
          /\ now <= backups[d].created + 2 * BackupMaxAge]_vars

Lifecycle ==
    INSTANCE DeploymentLifecycle
        WITH kind <- [d \in Deployments |->
                         IF intents[d] = NoRow THEN "none"
                                               ELSE intents[d].kind],
             state <- [d \in Deployments |-> Latest(d)]

\* The state events of every deployment follow the documented chain of its
\* kind, whatever operations race for it.
ImplementsLifecycle == Lifecycle!Spec

\* The gate of production: the supervisor accepts no attempt whose staging
\* acceptance has been invalidated.
AcceptanceStillValid ==
    [][\A d \in loaded' \ loaded : d \notin invalidated]_vars
=============================================================================
