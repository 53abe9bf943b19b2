----------------------------- MODULE Production -----------------------------
(***************************************************************************)
(* Several deployments and one production host: the lease in PostgreSQL    *)
(* (ProductionLock), the execution attempts that are started under it      *)
(* (start_production_deployment), and the supervisor processes that        *)
(* execute them (ProductionDeploymentSupervisor.execute), which exclude    *)
(* one another with the flock of the host and read the lease once, in      *)
(* load().  Operators release and acquire the lease at any time.           *)
(*                                                                         *)
(* Of an execution this keeps what the others can notice: the durable      *)
(* record of the submission (the marker in the database and the journal,   *)
(* here one step), the compose client, the labels of the containers, and   *)
(* the verdict.  Supervisor has the details of a single attempt; both are  *)
(* related by AttemptExecution.                                            *)
(***************************************************************************)
EXTENDS ProductionLock, FiniteSets

CONSTANTS
    Procs,          \* supervisor processes on the host
    Services,       \* services of every deployment
    Nobody,         \* owner of the host lock when nobody has it
    MaxCalls,       \* bound: calls of execute
    MaxDeaths       \* bound: deaths of supervisor processes

ASSUME ProductionConstants ==
    /\ Nobody \notin Procs
    /\ Services # {} /\ NoRow \notin Services
    /\ MaxCalls \in Nat /\ MaxDeaths \in Nat

VARIABLES
    attempts,       \* deployment_execution_attempts: the fencing token
    hostLock,       \* owner of the flock on PRODUCTION_LOCK_PATH
    call,           \* the execute() call each process is in
    submitted,      \* attempts whose submission is on record
    verdict,        \* ATTEMPT_TERMINAL of each attempt
    clients,        \* attempts with an active compose client
    containers,     \* whose labels the container of each service has
    mutations,      \* history: how often each attempt was mutated
    epoch,          \* history: highest acquisition any effect was made under
    calls, deaths   \* how much of MaxCalls and MaxDeaths is used up

host   == <<hostLock, call>>
record == <<submitted, verdict>>
docker == <<clients, containers>>
bounds == <<calls, deaths>>
vars   == <<lockVars, now, attempts, host, record, docker, mutations, epoch,
            bounds>>

-----------------------------------------------------------------------------
(* Data                                                                    *)

Stage == {"entered", "prepare", "submit", "submitting", "observe", "health",
          "conclude"}

\* under is history: the acquisition that load() found.
Call == [attempt : Deployments, stage : Stage, under : Nat,
         verdict : {"none", "healthy", "failed"}]

TypeOK ==
    /\ LockTypeOK
    /\ attempts \in [Deployments -> Nat \cup {NoRow}]
    /\ hostLock \in Procs \cup {Nobody}
    /\ call \in [Procs -> Call \cup {NoRow}]
    /\ submitted \subseteq Deployments
    /\ verdict \in [Deployments -> {"none", "healthy", "failed"}]
    /\ clients \subseteq Deployments
    /\ containers \in [Services -> Deployments \cup {NoRow}]
    /\ mutations \in [Deployments -> Nat]
    /\ epoch \in Nat /\ calls \in Nat /\ deaths \in Nat

Init ==
    /\ LockInit
    /\ attempts = [d \in Deployments |-> NoRow]
    /\ hostLock = Nobody
    /\ call = [p \in Procs |-> NoRow]
    /\ submitted = {}
    /\ verdict = [d \in Deployments |-> "none"]
    /\ clients = {}
    /\ containers = [s \in Services |-> NoRow]
    /\ mutations = [d \in Deployments |-> 0]
    /\ epoch = 0
    /\ calls = 0 /\ deaths = 0

-----------------------------------------------------------------------------
(* The control plane                                                       *)

\* start_production_deployment under the caller's lease; a start that waits
\* is in LeaseTransactions, the approval it needs in Deployment.
StartAttempt(c) ==
    /\ lockOp[c] = NoRow
    /\ OwnsRow(c)
    /\ lock.expires > now
    /\ attempts[lock.deployment] = NoRow
    /\ attempts' = [attempts EXCEPT ![lock.deployment] = lock.token]
    /\ UNCHANGED <<lockVars, now, host, record, docker, mutations, epoch,
                   bounds>>

-----------------------------------------------------------------------------
(* ProductionDeploymentSupervisor.execute()                                *)

At(p, stage) == call[p] # NoRow /\ call[p].stage = stage

Goto(p, stage) ==
    /\ call' = [call EXCEPT ![p].stage = stage]
    /\ UNCHANGED hostLock

Leave(p) ==
    /\ call' = [call EXCEPT ![p] = NoRow]
    /\ hostLock' = Nobody

\* Mutant: the flock is shared instead of exclusive.
Enter_SharedLock(p, d) ==
    /\ call[p] = NoRow
    /\ calls < MaxCalls
    /\ calls' = calls + 1
    /\ hostLock' = p
    /\ call' = [call EXCEPT ![p] =
           [attempt |-> d, stage |-> "entered", under |-> 0,
            verdict |-> "none"]]
    /\ UNCHANGED <<lockVars, now, attempts, record, docker, mutations, epoch,
                   deaths>>

\* HostExecutionLock.__enter__; the call fails when the lock is taken.
Enter(p, d) ==
    /\ call[p] = NoRow
    /\ calls < MaxCalls
    /\ calls' = calls + 1
    /\ hostLock = Nobody
    /\ hostLock' = p
    /\ call' = [call EXCEPT ![p] =
           [attempt |-> d, stage |-> "entered", under |-> 0,
            verdict |-> "none"]]
    /\ UNCHANGED <<lockVars, now, attempts, record, docker, mutations, epoch,
                   deaths>>

\* The part of load() that concerns the lease.  That the lease has not
\* expired is not required.
Loadable(d) ==
    /\ attempts[d] # NoRow
    /\ lock # NoRow
    /\ lock.deployment = d
    /\ lock.token = attempts[d]

\* load(), the replay of a terminal journal and the choice between the
\* reconciliation of a submitted attempt and its first submission
Load(p) ==
    /\ At(p, "entered")
    /\ LET d == call[p].attempt IN
       IF ~Loadable(d) \/ verdict[d] # "none"
       THEN Leave(p)
       ELSE /\ call' = [call EXCEPT
                   ![p].under = lock.nth,
                   ![p].stage = IF d \in submitted THEN "observe" ELSE "prepare"]
            /\ UNCHANGED hostLock
    /\ UNCHANGED <<lockVars, now, attempts, record, docker, mutations, epoch,
                   bounds>>

\* Mutant: the submission is not recorded.
RecordSubmission_Skipped(p) ==
    /\ At(p, "prepare")
    /\ Goto(p, "submit")
    /\ UNCHANGED <<lockVars, now, attempts, record, docker, mutations, epoch,
                   bounds>>

\* The plan and the resources are good, the marker and MUTATION_SUBMITTED
\* are written; or one of them is not, and the call ends.
RecordSubmission(p) ==
    /\ At(p, "prepare")
    /\ \/ /\ submitted' = submitted \cup {call[p].attempt}
          /\ Goto(p, "submit")
       \/ /\ UNCHANGED submitted
          /\ Leave(p)
    /\ UNCHANGED <<lockVars, now, attempts, verdict, docker, mutations, epoch,
                   bounds>>

Effect(p) == epoch' = IF call[p].under > epoch THEN call[p].under ELSE epoch

\* runtime.submit: docker compose up
Submit(p) ==
    /\ At(p, "submit")
    /\ clients' = clients \cup {call[p].attempt}
    /\ mutations' = [mutations EXCEPT ![call[p].attempt] = @ + 1]
    /\ Effect(p)
    /\ Goto(p, "submitting")
    /\ UNCHANGED <<lockVars, now, attempts, record, containers, bounds>>

\* The client returns 0; another one may have replaced what it did.
SubmitAcknowledged(p) ==
    LET d == call[p].attempt IN
    /\ At(p, "submitting")
    /\ clients' = clients \ {d}
    /\ Goto(p, "health")
    /\ UNCHANGED <<lockVars, now, attempts, record, containers, mutations,
                   epoch, bounds>>

\* It returns an error: MUTATION_FAILED.
SubmitFailed(p) ==
    LET d == call[p].attempt IN
    /\ At(p, "submitting")
    /\ clients' = clients \ {d}
    /\ call' = [call EXCEPT ![p].stage = "conclude", ![p].verdict = "failed"]
    /\ UNCHANGED <<lockVars, now, hostLock, attempts, record, containers,
                   mutations, epoch, bounds>>

\* The 120 seconds are over; the compose plugin may go on.
SubmitTimeout(p) ==
    /\ At(p, "submitting")
    /\ clients' \in {clients, clients \ {call[p].attempt}}
    /\ Goto(p, "observe")
    /\ UNCHANGED <<lockVars, now, attempts, record, containers, mutations,
                   epoch, bounds>>

\* The containers that docker shows carry the labels of the attempt, and
\* there is one.  A container that cannot be inspected is left out.
BindingValid(d) == \E s \in Services : containers[s] = d

\* All of them are there and carry the labels.
AllBound(d) == \A s \in Services : containers[s] = d

\* _reconcile_locked: without valid labels the state is unknown and no
\* verdict is given; what runs is checked, what has failed is judged.
Observe(p) ==
    LET d == call[p].attempt IN
    /\ At(p, "observe")
    /\ \/ Leave(p)
       \/ AllBound(d) /\ Goto(p, "health")
       \/ /\ BindingValid(d)
          /\ call' = [call EXCEPT ![p].stage = "conclude",
                                  ![p].verdict = "failed"]
          /\ UNCHANGED hostLock
    /\ UNCHANGED <<lockVars, now, attempts, record, docker, mutations, epoch,
                   bounds>>

\* _health_locked: whatever goes wrong in the window is a failure; healthy
\* takes the labels of all services.
VerifyHealth(p) ==
    LET d == call[p].attempt IN
    /\ At(p, "health")
    /\ \E v \in {"healthy", "failed"} :
          /\ v = "healthy" => AllBound(d)
          /\ call' = [call EXCEPT ![p].stage = "conclude", ![p].verdict = v]
    /\ UNCHANGED <<lockVars, now, hostLock, attempts, record, docker,
                   mutations, epoch, bounds>>

\* ATTEMPT_TERMINAL and the result in the database
Conclude(p) ==
    /\ At(p, "conclude")
    /\ verdict' = [verdict EXCEPT ![call[p].attempt] = call[p].verdict]
    /\ Effect(p)
    /\ Leave(p)
    /\ UNCHANGED <<lockVars, now, attempts, submitted, docker, mutations,
                   bounds>>

\* The process is killed; the kernel drops the flock, the client lives on.
Die(p) ==
    /\ call[p] # NoRow
    /\ deaths < MaxDeaths
    /\ deaths' = deaths + 1
    /\ Leave(p)
    /\ UNCHANGED <<lockVars, now, attempts, record, docker, mutations, epoch,
                   calls>>

-----------------------------------------------------------------------------
(* Docker                                                                  *)

ComposeRecreates(d, s) ==
    /\ d \in clients
    /\ containers[s] # d
    /\ containers' = [containers EXCEPT ![s] = d]
    /\ UNCHANGED <<lockVars, now, attempts, host, record, clients, mutations,
                   epoch, bounds>>

\* A client nobody waits for ends.
ClientExits(d) ==
    /\ d \in clients
    /\ \A p \in Procs : At(p, "submitting") => call[p].attempt # d
    /\ clients' = clients \ {d}
    /\ UNCHANGED <<lockVars, now, attempts, host, record, containers,
                   mutations, epoch, bounds>>

-----------------------------------------------------------------------------
(* The specification                                                       *)

others == <<attempts, host, record, docker, mutations, epoch, bounds>>

Execute(p) ==
    \/ \E d \in Deployments : Enter(p, d)
    \/ Load(p) \/ RecordSubmission(p) \/ Submit(p)
    \/ SubmitAcknowledged(p) \/ SubmitFailed(p) \/ SubmitTimeout(p)
    \/ Observe(p) \/ VerifyHealth(p) \/ Conclude(p) \/ Die(p)

Next ==
    \/ \E c \in Callers :
          \/ LockStep(c) /\ UNCHANGED <<now, others>>
          \/ StartAttempt(c)
    \/ ClockTick /\ UNCHANGED <<lockVars, others>>
    \/ \E p \in Procs : Execute(p)
    \/ \E d \in Deployments :
          (\E s \in Services : ComposeRecreates(d, s)) \/ ClientExits(d)

Spec == Init /\ [][Next]_vars

-----------------------------------------------------------------------------
(* Properties                                                              *)

Executions ==
    INSTANCE AttemptExecution WITH Attempts <- Deployments,
                                   mutated <- mutations

\* However the lease goes from deployment to deployment and back, and
\* whichever processes die, an attempt is mutated at most once and gets one
\* verdict, after its mutation (execute(), _reconcile_locked()).
ImplementsExecutions == Executions!Spec

\* Supervisors act in the order of the lease: once something was done under
\* an acquisition of the lease, nothing is done any more under an earlier
\* one, although a process reads the lease only once and may then lose it
\* (load() inside HostExecutionLock).
FencedOrder ==
    [][\A p \in Procs : Submit(p) \/ Conclude(p) => call[p].under >= epoch]_vars

\* At most one executor changes production at any time.
OneExecutor == Cardinality(clients) <= 1
=============================================================================
