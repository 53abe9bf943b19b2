# Maoxx OS: formal models of the control plane

Maoxx OS is a personal assistant that is operated through Feishu. Its largest
and most delicate part is the control plane that decides whether a build may
enter production and then, exactly once, replaces the production containers.
These TLA+ modules model that control plane from its source: the host
supervisor, the approval service, the production lease and the deployment
records, and beside it the Feishu worker with everything it stores and sends
and the identity authority. TLC checks them on small instances; TLAPS proves the
safety properties and the refinements for all instances.

`PROJECT.json` lists the components, the runs, the hazards, the findings, the
mutants and, for every definition, the source lines it translates.

## Parts of the system

| Part | State | Operations | What is hard | What makes it correct |
|---|---|---|---|---|
| Production supervisor (`production_supervisor.py`) | journal file, host lock file, marker and result rows, containers | `execute`, `reconcile`, `prove_quiescent_takeover` | death between any two steps, torn or lost journal, compose still running after a timeout, lost database answers | one mutation per attempt, one health window, verdicts that are earned and journalled first |
| Approval service (`approval_service.py`, handlers of `feishu_worker.py`) | requests, decisions | create a request, decide by text or by card | several workers, redelivery, expiry while waiting for a row lock, unknown commits | one decision per request and per event, in time, by somebody else than the requester; truthful answers |
| Production lease (`deployment_service.py`) | one row with deployment, token, expiry | acquire, renew, release | callers that read the clock and then wait for the row; lock orders that cross | never taken from its deployment; only its deployment releases it; concurrent transactions act like atomic operations, and end |
| Deployment control plane (`deployment_service.py`, `deployment_policy.py`) | intents, state events, artifacts, acceptances, bound approvals, consumptions, attempts | create, record, stage, accept, invalidate, bind, start | operations that race for one deployment, gates that change after they were checked | an attempt was built, accepted and approved in time by another user; its backup is recent when it is loaded; start is atomic; the state chain is legal |
| Several attempts on one host (lease, start, supervisor together) | the lease, attempts, host lock, compose clients | all of the above | the lease is read once; clients outlive their supervisor | one mutation and one verdict per attempt; supervisors act in the order of the lease |
| Feishu delivery (`feishu_delivery.py`, `feishu_messaging.py`) | none | one send with bounded retries | an answer that is lost after the message was posted | bounded copies, an honest result |
| Worker, raw inputs, worker health (`feishu_worker.py`, `api/inputs.py`, `worker_health.py`) | raw inputs, counters | handle an event, `POST /inputs/text` | overlapping redeliveries, errors after which the event still counts as handled | replies are true and losses counted once the configured user exists, events end |
| Notifications and cards (`deployment_notifications.py`, `supervision_cli.py`) | evidence, requests, card ids | notify, request an approval | sent first and recorded afterwards | posted once per evidence key; a card has its request |
| Identity authority (`identity_authority.py`, `deployment_authority.py`) | principals, versioned mappings | provision, assign, resolve | racing assignments with clocks read before the row lock; use after reassignment | one open mapping, one history, attributable records |
| Backup, resource and CI authorities | evidence rows | backup, samples, `gh` queries | freshness | evidence is fresh when it is used |
| Card formatting, configuration, staging scripts | none | | | |

The command line tools call the control plane and the supervisor; the worker
calls the approval service; the control plane binds an approval request to a
deployment and consumes its decision when it starts; the supervisor loads the
attempt that the start has committed. The worker and the tools send through the
same delivery function. They share nothing but PostgreSQL and, for the
supervisor, the journal and the lock file of the host.

## Modules

| Module | Stands for |
|---|---|
| `Supervisor` | the host supervisor with its journal, docker and the database rows it writes |
| `ApprovalAuthority` | abstract: requests are opened once and decided at most once, in time, by another user |
| `Approval` | approval service and worker handlers, statement by statement |
| `ProductionLock` | the lease, one action per operation; also the abstract specification of `LeaseTransactions` |
| `LeaseTransactions` | acquire, renew, release and start as PostgreSQL transactions, statement by statement |
| `DeploymentLifecycle` | abstract: the documented chain of states of a deployment |
| `Deployment` | the control plane on top of `ProductionLock` (EXTENDS), with the decisions of the approval service on the requests it binds |
| `AttemptExecution` | abstract: an attempt is mutated at most once and then gets one verdict |
| `Production` | several attempts on one host: `ProductionLock` (EXTENDS) composed with starts, supervisor processes and docker |
| `Delivery` | `deliver_with_retry` and the Feishu chat |
| `Inbox` | the worker's handling of events, raw inputs, the counters; on top of `Delivery` |
| `Outbox` | deployment notifications and approval cards; on top of `Delivery` |
| `Messaging` | `Inbox` and `Outbox` composed |
| `IdentityDirectory` | abstract: each subject has one history of principals without gaps |
| `Identity` | principals, mappings, assignments, and the records that name a resolved person |
| `...Proofs` | theorems about the module of that name; `LeaseProofs` about `LeaseTransactions`, `ProductionLockProofs` a lemma that several of them use |
| `MC...` | instances for TLC: symmetry sets, events and messages |

Operators whose names end in `_Something` and whose comments begin with
"Mutant" are deliberately wrong variants of the definition that follows them.
No specification uses them; they show that a property notices the mistake.
Every module has a type invariant. TLC checks those of `Supervisor` and
`Approval`; those of the others are no property of a run but are proved
(`TypeCorrect`).

### Supervisor

One attempt, a set of supervisor processes. `pc[p]` is the place in the call of
process `p`, `outcome`, `deadline` and `seen` are its locals; all of them are
lost when the process dies (`Unwind`), while `journal`, `marker`, `results` and
the containers stay. A journal record is written and synced in one step, or it
is torn (`JournalAppend`); a torn record makes every later load raise. The
calls of a process are:

* `AcquireHostLock`, `HostLockBusy`, `LoadRaises`: the lock file and `load`;
* `execute`: `ReplayTerminal`, `ResumeSubmitted`, `FailClosed`, `Accept`, then
  `ValidatePlan`, `CollectResources`, `RecordResource`,
  `RecordMutationSubmitted`, `JournalSubmission`, `Submit` and one of the answers of compose,
  `JournalCompletion`;
* `_reconcile_locked`: `StartReconciliation`, `ObserveAndBranch`;
* `_health_locked` and the loop of `verify_health`: `StartHealth` to
  `JournalTerminal`, then `RecordRuntimeResult` or one of its failures;
* `prove_quiescent_takeover`: `BeginTakeover` to `ProveQuiescence`, the last
  look for a client and at the events, and `GrantTakeover`, the record and the
  return. In between containers may change again.

`Docker` is the environment: compose recreates containers one by one, also
after its client timed out; containers settle or fail; the client exits. The
constant `InspectLoss` lets `docker inspect` fail for some containers, which
`observe` then leaves out, and `pgrep`, which is taken for the absence of a
client. `JournalLoss` lets the journal file disappear while
no supervisor runs. `submits`, `deadlines` and `passedAt` are history.
`ImplementsExecution` maps the mutations and the first verdict in the journal
onto `AttemptExecution`.

### Approval

Workers take up deliveries of a fixed set of events, any number of times.
`Receive` and `ResolveActor` are the handlers before the decision; then
`CheckDuplicate`, `LockRequest` (the row lock is `rowLock`), `ReadClock`,
`CheckDecided` and `CommitDecision` are the statements of
`record_approval_decision`. `CommitLost` is a commit whose answer is lost,
`StatementFails` any other database error. Clients create requests in two
steps, lookup and insert, so that they race for an idempotency key; a request
may also come from the control plane (`BindRequest`). Identities are the
constant function `UserOf`; an open id without a mapping has no user, and
requests without a resolved requester use `DefaultUser` as the code does.

`ImplementsAuthority` maps requests and decisions onto `ApprovalAuthority`: all
the intermediate steps stutter.

### ProductionLock

`BeginAcquire` and `BeginRenew` read the clock; `InsertLock`, `ReacquireLock`,
`RenewLock` or `LockOpFails` complete the operation after the row could be
locked. `ReleaseLock` deletes the row. The owner of a lease is always the
supervisor's identity in the code, so the owner is not modelled. The branch
that replaces an expired lease needs `stale_reconciled_at`, which nothing sets.

### LeaseTransactions

The same operations and `start_production_deployment` with the locks PostgreSQL
takes for them. `SelectLease` is the snapshot of `SELECT ... FOR UPDATE`,
`LockLease` the moment the row is granted, `LeaseNotFound` the case that it was
deleted meanwhile (READ COMMITTED then gives no row, and acquire goes on to
insert), `InsertLease` the insert that waits for another one of the same key.
`ReferToIntent` is the lock that the foreign key of the evidence row takes on the
intent. `rowOwner` is who holds the lease row and the intents. Acquire, renew and
release lock the lease first and the intent second, start the other way round;
`DeadlockAbort` is PostgreSQL's way out of the cycle and `TransactionFails` a lost
connection or any other error. The key-share lock of a foreign key is modelled
as exclusive: two of them never meet here, since both follow the lease lock.
`ImplementsLease` maps everything onto `ProductionLock`, with the open transaction
as its operation.

### Production

Each deployment may get an attempt under the lease (`StartAttempt`); processes
call `execute` for any of them. `Enter` takes the host lock, `Load` reads the
lease and the record, `RecordSubmission` stands for the marker and the journal
record, `Submit` starts a compose client, and `SubmitAcknowledged`, `SubmitFailed`,
`SubmitTimeout`, `Observe`, `VerifyHealth` and `Conclude` follow the same branches as
`Supervisor`, whose details (torn records, lost answers, deadlines) are left out
here. `Die` drops the host lock and leaves the client running. `under` and `epoch`
are history: the acquisition of the lease that a call found when it loaded, and
the latest one that anything was done under.

### Delivery, Inbox, Outbox, Messaging

`chat` counts the copies of a text in the chat. A send succeeds, fails
transiently, perhaps after the message was posted, or fails for good.
`Inbox`: `Receive` counts the event, `Route` is `handle_message` up to the branch for
ordinary texts (approval commands, and taps on cards, are only told apart by how
they are answered; what they decide is in `Approval`). The insert has four
outcomes: `StoreCreated`, `StoreDuplicate` (the unique key refuses it),
`StoreRefused` (the foreign key to `core.users` refuses it, which the handler
takes for a duplicate) and `StoreFails` (any other error). Whether the configured
user exists is `userKnown`: no migration inserts it, so `Init` leaves it open, and
`ProvisionUser` is somebody inserting it; `refused` is the history of what the
foreign key refused. `EndReply` and `Finish` are the end of the handler, which
acknowledges the event whatever happened. `CreateTextInput` is the API writing
the same key. `Outbox`: `Notify` to `RecordEvidence` are
`send_deployment_notification`. Evidence is kept for each notice (a deployment
and an evidence key), while the sink is external and, as its parameter says,
idempotent per evidence key alone (`EvidenceKey`). `RequestApproval` to `StoreCardId` are the command
`request-approval`. Workers and tools die anywhere.

### Identity

`BeginAssign` checks the principal and reads the clock, `SelectCurrent` is the
snapshot and `LockCurrent` the lock of the open row; `CurrentIsGone` when it was
closed meanwhile. `CloseCurrent` flushes `valid_to`, which the CHECK and the
trigger of migration 0003 may refuse, and `InsertAndCommit` is subject to the two
unique indexes. `Resolve` is `resolve_feishu_principal`, `Record` the commit of the
intent or the decision that names the mapping; its foreign key waits for an
assignment that has locked the row. `ImplementsDirectory` maps the rows of a
subject, in the order of their versions, onto `IdentityDirectory`.

### Deployment

An operation is one transaction that locks its intent and so one action. A
start is two (`BeginStart` reads the clock, `CommitStart` checks and commits),
because it waits for further locks in between; the backup is two because it
runs for minutes. A decision is `BeginDecision`, in which
`record_approval_decision` has the row of the request, reads the clock and finds
the request open and undecided, and `CommitDecision` or `DecisionFails`; a start
waits for an open decision, since both lock the request, and so may have read
its clock before the decision was made. The handlers in front of it are in
`Approval`. `Loadable` is what the supervisor checks of the control
plane's rows and `SupervisorLoads` its success. `create_rollback_link` has no
action: it requires a PRODUCTION_FAILED event and no code writes one.

## Runs

| Run | Shows |
|---|---|
| `SupervisorRecovery` | `execute` and `reconcile`, three calls, a death, a torn record or a database fault anywhere, inspection failures: one mutation and one lasting verdict (`AttemptExecution`); one window; verdicts only for containers of this attempt, backed by the journal and earned by a complete cycle |
| `SupervisorTakeover` | takeover is found safe only at rest, with two services, if docker and pgrep answer, and granted without an active client; every call returns |
| `SupervisorCli` | with `execute` alone, which is all the CLI offers, even a lost journal does not lead to a second mutation, nor to a second verdict; every mutation is on record before it starts |
| `ApprovalDecisions` | two workers, two requests, seven events with a shared event id, an unmapped user, expiry; refines `ApprovalAuthority` |
| `ApprovalRequests` | two clients that want different things under one key, while two workers handle deliveries that all come to an end |
| `LeaseTransactions` | two callers and two deployments, transactions of all four kinds with every interleaving of their statements, row locks, deadlocks and aborts: they implement the atomic operations of `ProductionLock`; the lease changes hands by release only; a start never goes through under the lease of the other deployment although the tokens are equal; no lease outlasts its time; every transaction ends |
| `Production` | two deployments that exchange the lease up to three times, two processes, four calls, two deaths, clients that live on: `AttemptExecution` for both attempts, and nothing is done under an earlier acquisition of the lease after something was done under a later one. That holds because `load` runs inside the host lock |
| `DeploymentOne` | one deployment of either kind, two callers that start, renew and release while everything expires; decisions that race with starts; refines `DeploymentLifecycle`; a recent backup |
| `Messaging` | two workers, two tools, a text and another message, redeliveries, lost answers, database errors, a user that is missing at first, deaths: but for the inserts that the missing user makes fail, the user is only told what is true and a text that is acknowledged without being stored is counted; a confirmation comes from one handler only, the counters add up, two notices with one evidence key are posted once and its reference recorded, a card always has its request, and every event ends |
| `Identity` | two administrators and a handler: one open mapping at any time, versions that follow each other without gap or overlap, records whose person can be found, no wait without end; refines `IdentityDirectory` |

Two runs refute a statement of the documents; the quotations are under
"findings" in `PROJECT.json`:

| Run | The code |
|---|---|
| `DeploymentInvalidated` | lets an invalidated acceptance into production |
| `ProductionExecutors` | starts a compose client for one deployment while that of an earlier one, whose supervisor died or timed out, is still at work |

### Divergences

Further places where the code does not do what a document or a comment says.
The models follow the code; these have no run.

* `execute` consults the database marker only if the journal is empty (`:627`).
  `reconcile()` and `prove_quiescent_takeover()` append to a lost journal without
  looking at it, and the next `execute` mutates a second time, although the
  comment at `:544` says that it fails closed. The CLI calls neither, and
  `SupervisorCli` shows that `execute` alone is safe; with `JournalLoss` and another
  entry point TLC finds the second mutation.
* A commit whose answer is lost is reported as "unavailable"
  (`approval_service.py:293`), with a text that says the decision was not recorded
  (`:444`); it may have been. A redelivery is then answered as a duplicate.
* The row of the lease is deleted on release and the next one starts with
  fencing token 1 again (`deployment_service.py:921`, `:1078`); the document speaks
  of an increasing token and of stale ones being refused
  (`PHASE_1D_F_CONTROLLED_DEPLOYMENT.md:135`, `:138`). What keeps stale callers out is
  the comparison of the deployment (`StartedUnderOwnLease`) and the host lock
  (`FencedOrder`).
* `handle_message` catches every database error and returns, so the event is not
  delivered again and the text is lost, with a failure counted (`LossIsCounted`);
  `ARCHITECTURE.md:52` asks for raw inputs to be kept without loss.
* Every IntegrityError of the insert is taken for a duplicate
  (`feishu_worker.py:227`). `raw_inputs.user_id` refers to `core.users`
  (`models/core.py:247`), `default_user_id` is a setting, and no migration inserts
  that user. Where it is missing, the user reads that the message is recorded
  already, the event counts as a success and nothing is stored (`StoreRefused`);
  the API answers 409 in the same case. `RepliesAreTruthful` and `LossIsCounted`
  name these messages as their exception, and `UserProvisioned` shows that there
  is no other: where the user exists from the start, both hold without it.
* The sink of `send_deployment_notification` gets the evidence key without the
  deployment (`deployment_notifications.py:103`), while evidence is unique per
  deployment, type and key. Two deployments that use one key share a post: the
  second notification does not appear, and its evidence refers to the first.
* `PHASE_1D_F_CONTROLLED_DEPLOYMENT.md:145` calls the mapping of Feishu identities
  one-to-one. Two subjects may be assigned to one principal; nothing prevents it
  and no check of the code depends on it.
* `assign_feishu_identity` closes a mapping at a time it read before it waited
  (`identity_authority.py:51`, `:66`), so a record may have been made through a
  mapping after its `valid_to`. The flush at `:68` is outside the try block: a
  refusal by the trigger is not reported as `identity_assignment_conflict`.
  Either of the two unique indexes of `external_identities` is enough for
  a single open row; only without both could there be two.
* `reconcile()` does not look for an ATTEMPT_TERMINAL record
  (`production_supervisor.py:670`). Called after a verdict it writes a second
  one, and `_terminal_state` (`:854`) then refuses every later `execute`.
  `SingleVerdict` holds in `SupervisorCli` because only `execute` is called.
* A death between the ATTEMPT_TERMINAL record and `record_runtime_result` leaves
  a verdict that the next `execute` returns from the journal (`:615`) and that
  the database never gets, although the audit is said to be reconstructible
  from PostgreSQL alone.
* `verify_health` promises to poll until the deadline (`:1094`) but catches
  `SupervisorError` only (`:1102`): a command that times out ends it at once
  (`CycleRaises`).
* `observe` skips a container whose inspection fails (`:1018`), so a takeover can
  be granted while that container is being recreated; a `pgrep` that fails counts
  as no client (`:1269`).
  `TakeoverOnlyWhenQuiescent` therefore holds only with `InspectLoss = FALSE`.
* `start_production_deployment` reads the clock once, after it locked the intent
  and before it waits for request, decision and lease
  (`deployment_service.py:1379`); `PHASE_1D_F_CONTROLLED_DEPLOYMENT.md:90` locks all of
  them and reads the clock again. It may commit with an approval and under a lease that
  expired while it waited, and `consumed_at` may precede the `decided_at` of the
  decision it consumes. `AttemptIsAuthorised` therefore compares the expiry with
  the time that was read, not with that of the commit.
* `PHASE_1D_F_CONTROLLED_DEPLOYMENT.md:103` lists gates that must all hold before the
  deploying transaction. Of these `start_production_deployment` checks the
  approval, the separation of duties and the lease. It looks neither at the
  staging acceptance (validity, invalidation), the CI evidence, the backup nor
  the resource samples: the supervisor checks the acceptance's validity, CI and
  backup in `load`, after the deploying event is written, and collects the
  samples in `execute`. The migration risk was checked when the intent was
  created, and a rollback needs no link to a failed deployment.
  So `AttemptIsAuthorised` says only what the start enforces, and `BackupIsRecent`
  speaks of loaded attempts.
* No code writes PRODUCTION_HEALTHY, PRODUCTION_FAILED, ROLLED_BACK or
  ROLLBACK_FAILED: `record_runtime_result` inserts evidence only. So
  `create_rollback_link`, which needs PRODUCTION_FAILED, cannot succeed, and a
  rollback is started without a link to a failed deployment.
* The health contract of `feishu-worker` contains a check that no code sets
  (`ContractCanHold`), and a stale clock can shorten a lease on renewal.

### Bounds

The theorems hold for all values of these constants; the bounds are for TLC.

* `Procs`: two processes are enough because the host lock admits one at a time
  and the other can only find it busy or come later. `MaxCalls` is the number
  of calls in total; three allow a mutation, an interrupted recovery and a
  second recovery. `MaxFaults` counts deaths, torn records and
  database faults; one can hit any step of any call, `SupervisorCli` has two.
  Compose timeouts and failing checks are not counted.
* `HealthWindow` and `MaxTime` of one tick: a cycle can complete before, at and
  after the deadline; the clock passes `MaxTime` as long as a window is open.
* The approval runs have a lifetime of one tick and up to two ticks, so a
  decision can come before and at the expiry. There are two users because
  separation of duties compares two.
* Lease, approval and backup live one tick, in up to three ticks, so that each
  of them expires and a backup can be too old by one tick at either of its two
  checks; the acceptance outlives them.
* `MaxAcquisitions` bounds the acquisitions of the lease. Two allow it to pass
  from one deployment to the other, three to come back, which is what a stale
  process needs to be fooled.
* `LeaseTransactions` has two callers: a cycle of two is the only one the lock
  orders allow, and a third caller can only queue. Two ticks let a clock that
  was read early be stale by more than a lease.
* `Production`: four calls and two deaths let each of the attempts be interrupted,
  resumed and overtaken; two services let containers be of both deployments.
* `Messaging`: `MaxWork` of three leaves room for two deliveries of one message and
  a third party; two attempts per delivery let an answer be lost and the retry
  succeed. One text and one other message are enough because handlers only meet
  at the row of their message; two notices share the one evidence key.
* `Identity`: three ticks allow three versions, and a clock read at the time of the
  first version to be used after the second; two principals are enough because
  an assignment compares two.

Deadlock is not checked: with bounded calls, ticks and acquisitions, and a
fixed number of deployments, every model may come to rest.

### Fairness

`Supervisor!FairSpec` has weak fairness for the steps of a call and for the
clock: the code is sequential and every external command has a timeout. A new
call, a death, an exception and the environment are not fair. `Approval!FairSpec`
has weak fairness for the steps of a worker and strong fairness for the
statement that waits for a row lock: PostgreSQL queues the waiting sessions, so
one that finds the row free again and again gets it. New deliveries, deaths and
lost connections are not fair. `LeaseTransactions!FairSpec` and
`Identity!FairSpec` take the same two for the steps that need no lock and those
that do (in `Identity` also for the insert whose foreign key waits); in
`LeaseTransactions` the deadlock detector is weakly fair, without which
`EveryTransactionEnds` fails. `Messaging!FairSpec` has weak fairness for a handler
that has begun: every call of the Feishu client returns or raises. Deaths,
errors, new calls and redeliveries are never fair.

## Theorems

Every safety property that a passing run checks, whether an invariant, an
action property or a refinement, is also proved by TLAPS, for all sets of
processes, workers, deployments, messages and services and for all values of
the bounds. Each proof module states its inductive invariant first, proves it
action by action, and derives the theorems from it. TLC has checked the
inductive invariants on the runs' instances.

The assumptions about the constants are named and stand in the modules that
declare them, and TLC evaluates them in every run. They say that durations are
positive and bounds are natural numbers; that the values for "no row", "nobody"
and "nothing" are no rows, numbers or names (NULL is none of them); and, in
`Messaging`, that a worker is not at the same time a command line tool.

### SupervisorProofs

Some theorems have a hypothesis; `ImplementsExecution`, for example, is false if
the journal file may be lost. It is repeated here, and "Divergences" says what
happens without it.

| Theorem | Property | Hypothesis |
|---|---|---|
| `SupervisorTypeOK` | `TypeOK` | |
| `OneSupervisor` | only the holder of the host lock is in a call (`LockInv`) | |
| `MutationAtMostOnce`, `MutationIsDurable` | `AtMostOneMutation`, `SubmissionIsDurable` | the journal is not lost, or only `execute` is called |
| `HealthWindowIsNeverExtended`, `HealthPassesInsideWindow` | `OneHealthWindow`, `PassedInsideWindow` | the journal is not lost |
| `TakeoverIsQuiescent` | `TakeoverOnlyWhenQuiescent` | `docker inspect` and `pgrep` do not fail |
| `HealthIsEarned` | `HealthyIsEarned` | |
| `VerdictsAreJournalled` | `ResultsBackedByJournal` | the journal is not lost |
| `OneVerdict` | `SingleVerdict` | only `execute` is called; the journal may be lost |
| `Refinement` | `ImplementsExecution` | the journal is not lost |

* `TypeInv` adds to `TypeOK` that a journal with an anchor has a first one, which
  `FirstAnchor` chooses.
* `MutationInv` adds to the two properties that only the holder of the host lock
  is in a call (`LockInv`); that nothing has been submitted while a process is on
  its way to `Submit`, and that marker and journal record are in place when it
  gets there (`SubmitInv`); what is left of a submission (`DurableInv`); and that,
  where the journal may be lost, a call past its first checks never works on an
  empty one (`LossInv`). Most steps touch none of this (`QuietStep`).
* `WindowInv`: the only deadline ever used is the time of the journal's first
  anchor plus the window, and a running verification works with it. Appending
  keeps the first anchor (`GrowsAnchored`).
* `QuietInv`: the confirmed snapshot of a takeover shows no container that is
  changing, and is still what docker shows as long as no event has come in; and
  no client is active between the last check and the return, since only the
  holder of the host lock starts one.
* `EarnedInv` extends the property to the outcomes that are about to be returned
  or recorded. The steps that write an outcome (`Speaks`) are argued one by one,
  the others (`Plain`) together.
* `BackedInv` adds the outcome of a call that is at `record_runtime_result`.
* `OneVerdictInv`: a call that was dispatched and has not decided yet works on a
  journal without a verdict. That is where a second entry point would break it.
* `JudgedInv`, for the refinement: before the mutation there is no compose
  client, no container of this attempt and no verdict; labels at which a verdict
  is formed are reached after the mutation only; verdicts are final.

### ApprovalProofs

`TypeCorrect`, `DecidedOnce` (`OneDecision`), `DutiesSeparated` (`SeparationOfDuties`),
`DecidedInTime` (`NoLateDecision`), `AnsweredTruthfully` (`AnswersTruthful`),
`KeysIdentifyContent` (`KeyMeansContent`), `Refinement` (`ImplementsAuthority`) and
`RowLockSuffices`: no two handlers are between FOR UPDATE and COMMIT for one
request, and the one that reaches the commit finds the request undecided, so
that the unique constraint on the request is never what prevents a second
decision.

The decisions are right because of what a worker knows when it commits.
`WorkerSafe` says it: it holds the row lock from `LockRequest` on, its clock was
read while it held it, and from `CheckDecided` on the request is undecided. The
refinement has one case for the insertion of a request and one for that of a
decision (`DecisionSimulated`); all other steps of the workers leave the tables
alone (`WorkerTables`).

### LeaseProofs, ProductionLockProofs

`TypeCorrect`, `StartsAreOwn` (`StartedUnderOwnLease`), `LeasesAreBounded`
(`LeaseIsBounded`), `Refinement` (`ImplementsLease`: the transactions implement the
atomic operations) and `StartedOnce`: a started attempt is neither replaced nor
removed. `TransactionOK` says that a transaction owns the lease row from FOR UPDATE
or INSERT to its end and that what it found out about the row still holds
(`HasLeaseRow`), that a start keeps its intent locked and not yet started
(`HasIntentRow`), that a caller names the lease it was given last
(`NamesItsLease`), and that its clock is not ahead. `ProductionLockProofs` has the
lemma that every operation on the lease keeps the type of the lease; the proofs
about `Production` and `Deployment`, which extend `ProductionLock`, use it.

### ProductionProofs

`TypeCorrect`, `ActsInLeaseOrder` (`FencedOrder`), `Refinement`
(`ImplementsExecutions`), `OneProcessInside` (at most one process is inside the
host lock) and `RecordedBeforeEffect` (every compose client and every container
of an attempt belongs to an attempt that was recorded as submitted). The
invariant has `HostLocked`; `LatestRow`, that the lease row is that of the
latest acquisition and nothing was done under a later one; `MutationsRecorded`,
that a mutation is on record before it starts and that clients and containers
come from a mutation; and `CallOK`, what a call that has loaded its attempt
relies on. That `load` happens inside the host
lock is what makes `under` of the call at least `epoch`.

### DeploymentProofs

`TypeCorrect`, `AttemptsAreAuthorised` (`AttemptIsAuthorised`), `StartsAreAtomic`
(`StartIsAtomic`), `BackupsAreRecent` (`BackupIsRecent`) and `Refinement`
(`ImplementsLifecycle`). `DeploymentOK`
ties the last state event of a deployment to the rows that exist (`StateTells`),
says that a deploying event can only be the last one (`DeployingIsLast`), that an
attempt is authorised, and that a decision in progress has no other beside it
and a backup was verified in time (`DecisionAndBackup`).
`StartOK` says that a waiting start has an intent. The acceptance that was
invalidated after it was bound is a matter of the violation run: no theorem
speaks of it.

### MessagingProofs

`TypeCorrect`, `RepliesAreTrue` (`RepliesAreTruthful`), `ConfirmedOnce`
(`ConfirmedByOneHandler`), `NothingLostSilently` (`LossIsCounted`), `PostedOnce`
(`NotifiedOnce`), `CardsHaveRequests` (`CardsAreBacked`) and `UserProvisioned`: where
the configured user exists from the start, replies are true and acknowledged
texts are stored or counted without the exception that the properties make.
It rests on `Provisioned`, that nothing is refused then. `ReplyOK` says that a text
in delivery is about the handler's message and already true, or a refused one's
false "already recorded" (`Answered`), and bounds the
copies of a confirmation by the attempt the delivery is at; `OneConfirms` that
two handlers never send the same confirmation; `CliOK` what the tools rely on
between sending and recording. The two halves share only `Delivery`, so each
action is argued for its own half and shown to leave the other one alone.

### IdentityProofs

`TypeCorrect`, `HistoriesAreContiguous` (`HistoryIsContiguous`),
`RecordsStayAttributable` (`RecordsAreAttributable`) and `Refinement`
(`ImplementsDirectory`). The rows of a subject are numbered from 1 without gaps
(`Numbered`), a version number is used once, each version ends where the next
begins (`Adjacent`) and exactly the last is open; no two people stand for one user
(`PeopleKnown`); `AssignmentOK` says that an assignment which is about to replace
a row owns it and that it is still the open one (`Replaces`). The refinement needs
the history as a sequence, which is defined by the row of each version; a commit
extends that sequence by one.

### Only model-checked

Liveness under fairness, which is out of reach of this prover: `CallsReturn`,
`EveryDeliveryEnds`, `EveryTransactionEnds`, `EveryEventEnds` and
`EveryAssignmentEnds`. The two violation runs are counterexamples and have nothing
to prove.

## Not modelled

* Formatting and parsing of cards, replies and messages, and the validation of
  fields: pure functions; the parsed result is an input of the models.
* The thresholds of the resource samples, the contents of archives, the GitHub
  queries, the wording of `gh` evidence: I/O or pure functions with one outcome
  that a guard depends on.
* The delays between attempts of a delivery, the times shown by worker health
  and the state of its connection: nothing decides on them.
* The command `notify`, which sends one text and keeps nothing, and
  `GET /inputs/recent`, which reads.
* Evidence rows that no operation reads, and the functions that always raise
  (`reconcile_expired_production_lock`, attaching an existing approval).
* Configuration, start-up, the migrations and the staging scripts.

## Plan

1. Done: `Supervisor` with `AttemptExecution`, `Approval` with `ApprovalAuthority`,
   `ProductionLock` with `LeaseTransactions`, `Deployment` with
   `DeploymentLifecycle`, the compositions `Production` and `Messaging`, `Identity`
   with `IdentityDirectory`; theorems for all of their safety properties and
   refinements.
2. Next: consequences of the refinements that are worth stating for the
   detailed specifications (a verdict stays, a decision stays, a closed version
   is never changed), lemmas that two proof modules could share, and shorter
   proofs where one step per action repeats the same argument.
