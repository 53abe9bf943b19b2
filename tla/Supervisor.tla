----------------------------- MODULE Supervisor -----------------------------
(***************************************************************************)
(* The host-local production supervisor (app/services/                     *)
(* production_supervisor.py) working on ONE execution attempt.             *)
(*                                                                         *)
(* Supervisor processes are started by an operator, exclude one another    *)
(* with a flock, and keep two durable records: the fsynced JSONL journal   *)
(* of the attempt on the host and evidence rows in PostgreSQL.  A process  *)
(* may die, or unwind on an exception, between any two of its steps; what  *)
(* it had written stays.  The Docker compose client is a separate process  *)
(* that may outlive the supervisor that started it.                        *)
(*                                                                         *)
(* A journal record keeps its event, the verdict of an ATTEMPT_TERMINAL    *)
(* record and the timestamp of the two events whose timestamp is read      *)
(* back (MUTATION_COMPLETED, HEALTH_STARTED).                              *)
(***************************************************************************)
EXTENDS Integers, Sequences, FiniteSets

CONSTANTS
    Procs,          \* supervisor processes that may be running on the host
    Services,       \* services of the attempt (keys of service_images)
    HealthWindow,   \* HEALTH_DEADLINE_SECONDS in clock ticks
    EntryPoints,    \* public methods the operators call
    JournalLoss,    \* TRUE: the journal file may be lost while no process runs
    InspectLoss,    \* TRUE: docker inspect of a container and pgrep may fail
    MaxCalls,       \* bound: calls of the entry points
    MaxFaults,      \* bound: process deaths, torn appends and database failures
    MaxTime,        \* bound: the clock stops here unless a window is open
    Free            \* the host lock's owner when nobody holds it

ASSUME SupervisorConstants ==
    /\ HealthWindow \in Nat \ {0}
    /\ EntryPoints \subseteq {"execute", "reconcile", "takeover"}
    /\ JournalLoss \in BOOLEAN /\ InspectLoss \in BOOLEAN
    /\ MaxCalls \in Nat /\ MaxFaults \in Nat /\ MaxTime \in Nat
    /\ Free \notin Procs
    /\ Services # {}

VARIABLES
    lock,           \* owner of the flock on PRODUCTION_LOCK_PATH
    pc,             \* where each process is; "idle" when it is not in a call
    ret,            \* what the last call of each process returned
    outcome,        \* <<source, state>> the process is about to record
    deadline,       \* end of the health window the process works with
    seen,           \* first snapshot of prove_quiescent_takeover
    journal,        \* the attempt's journal file
    marker,         \* database: the mutation_submitted evidence row exists
    results,        \* database: supervisor_runtime_result rows, by key
    containers,     \* Docker: the container of each service
    client,         \* Docker: a compose client is active
    events,         \* Docker: something happened since seen was taken
    now,            \* the clock
    submits,        \* history: how often `docker compose up` was started
    deadlines,      \* history: every health window end that was used
    passedAt,       \* history: completion times of the cycles that passed
    calls, faults   \* how much of MaxCalls and MaxFaults is used up

host    == <<lock, pc, ret, outcome, deadline, seen>>
db      == <<marker, results>>
docker  == <<containers, client, events>>
history == <<submits, deadlines, passedAt>>
vars    == <<host, journal, db, docker, now, history, calls, faults>>

-----------------------------------------------------------------------------
(* Data                                                                    *)

RuntimeState == {"not_started", "in_progress", "failed", "healthy", "unknown",
                 "mutation_completed_health_unknown"}

JournalEvent == {"ATTEMPT_ACCEPTED", "MUTATION_SUBMITTED",
                 "MUTATION_COMPLETED", "MUTATION_FAILED", "HEALTH_STARTED",
                 "HEALTH_PASSED", "HEALTH_FAILED", "RECONCILIATION_STARTED",
                 "RECONCILIATION_RESULT", "DB_DISCONNECTED",
                 "ATTEMPT_TERMINAL"}

\* A record cut short by a crash or a short write; load() cannot parse it.
Torn == "TORN"

Record == [event : JournalEvent \cup {Torn}, state : RuntimeState \cup {"-"},
           ts : Nat]

AnchorEvents == {"MUTATION_COMPLETED", "HEALTH_STARTED"}

\* Container of a service: none, one with other labels than the attempt's,
\* or one carrying the attempt's labels that is created / restarting /
\* removing / paused ("transitional"), running or exited.
ContainerState == {"absent", "foreign", "transitional", "running", "exited"}

Source == {"mutation", "reconciliation", "health"}

Verdict == Source \X RuntimeState

NoOutcome == <<"reconciliation", "unknown">>
NoSnapshot == [s \in Services |-> "absent"]

EntryPc == {"execute", "reconcile", "takeover"}
ExecutePc == {"plan", "collect", "resource", "marker", "journalSubmit",
              "submit", "submitting", "completed"}
SettlePc == {"recStart", "recObserve", "health", "cycle", "checks",
             "cycleDone", "healthError", "verdict", "terminal", "record",
             "disconnected"}
TakeoverPc == {"tkObserve", "tkClient", "tkObserveAgain", "tkProve", "tkGrant"}
Pc == {"idle"} \cup EntryPc \cup ExecutePc \cup SettlePc \cup TakeoverPc

Return == RuntimeState \cup {"none", "busy", "raised", "safe", "refused"}

TypeOK ==
    /\ lock \in Procs \cup {Free}
    /\ pc \in [Procs -> Pc]
    /\ ret \in [Procs -> Return]
    /\ outcome \in [Procs -> Verdict]
    /\ deadline \in [Procs -> Nat]
    /\ seen \in [Procs -> [Services -> ContainerState]]
    /\ journal \in Seq(Record)
    /\ marker \in BOOLEAN
    /\ results \subseteq Verdict
    /\ containers \in [Services -> ContainerState]
    /\ client \in BOOLEAN
    /\ events \in BOOLEAN
    /\ now \in Nat
    /\ submits \in Nat
    /\ deadlines \subseteq Nat
    /\ passedAt \subseteq Nat
    /\ calls \in Nat /\ faults \in Nat

Init ==
    /\ lock = Free
    /\ pc = [p \in Procs |-> "idle"]
    /\ ret = [p \in Procs |-> "none"]
    /\ outcome = [p \in Procs |-> NoOutcome]
    /\ deadline = [p \in Procs |-> 0]
    /\ seen = [p \in Procs |-> NoSnapshot]
    /\ journal = <<>>
    /\ marker = FALSE
    /\ results = {}
    /\ containers \in [Services -> {"absent", "foreign"}]
    /\ client = FALSE
    /\ events = FALSE
    /\ now = 0
    /\ submits = 0
    /\ deadlines = {}
    /\ passedAt = {}
    /\ calls = 0 /\ faults = 0

-----------------------------------------------------------------------------
(* The journal file                                                        *)

HasIn(j, e) == \E i \in DOMAIN j : j[i].event = e
Has(e) == HasIn(journal, e)

\* load() raises journal_corrupt when one line does not parse.
CorruptIn(j) == HasIn(j, Torn)
Corrupt == CorruptIn(journal)

Row(e, st) ==
    [event |-> e, state |-> st, ts |-> IF e \in AnchorEvents THEN now ELSE 0]

\* append(): one write and fsync.  The count os.write returns is not looked
\* at, so a short write tears the record and the caller goes on.
JournalAppend(e, st) ==
    \/ /\ journal' = Append(journal, Row(e, st))
       /\ UNCHANGED faults
    \/ /\ faults < MaxFaults
       /\ faults' = faults + 1
       /\ journal' = Append(journal, Row(Torn, "-"))

Anchors(j) == {i \in DOMAIN j : j[i].event \in AnchorEvents}

\* Mutant: the window starts at the latest anchor.
FirstAnchor_Latest(j) ==
    j[CHOOSE i \in Anchors(j) : \A k \in Anchors(j) : k <= i].ts

\* anchors[0] of _health_locked
FirstAnchor(j) ==
    j[CHOOSE i \in Anchors(j) : \A k \in Anchors(j) : i <= k].ts

TerminalsOf(j) == {i \in DOMAIN j : j[i].event = "ATTEMPT_TERMINAL"}

\* _terminal_state(): "raised" stands for journal_terminal_ambiguous and
\* journal_terminal_corrupt.
TerminalState(j) ==
    IF j[Len(j)].event = "DB_DISCONNECTED" THEN "unknown"
    ELSE IF \E i \in TerminalsOf(j) :
                /\ TerminalsOf(j) = {i}
                /\ j[i].state \in RuntimeState
         THEN j[CHOOSE i \in TerminalsOf(j) : TRUE].state
         ELSE "raised"

-----------------------------------------------------------------------------
(* Docker, as the supervisor's runtime adapter uses it                     *)

Selected(c) == {s \in Services : c[s] # "absent"}
Transitional(c) == \E s \in Selected(c) : c[s] = "transitional"
\* Mutant: the labels of the containers are not compared.
BindingValid_AnyLabels(c) == Selected(c) # {}

BindingValid(c) == Selected(c) # {} /\ \A s \in Selected(c) : c[s] # "foreign"
Running(c) == \A s \in Services : c[s] \in {"running", "foreign"}

\* What observe() may see of the containers c: a container that cannot be
\* inspected is skipped, as if the service had none.
Observations(c) ==
    {o \in [Services -> ContainerState] :
        \A s \in Services :
            o[s] = c[s] \/ (InspectLoss /\ o[s] = "absent")}

\* Mutant: running containers count as healthy.
Observe_RunningIsHealthy(c) ==
    IF Selected(c) = {} THEN "not_started"
    ELSE IF Transitional(c) \/ ~BindingValid(c) THEN "unknown"
    ELSE IF ~Running(c) THEN "failed"
    ELSE "healthy"

\* The state observe() gives to what it sees when `docker compose ps`
\* succeeds
Observe(c) ==
    IF Selected(c) = {} THEN "not_started"
    ELSE IF Transitional(c) \/ ~BindingValid(c) THEN "unknown"
    ELSE IF ~Running(c) THEN "failed"
    ELSE "mutation_completed_health_unknown"

\* Something observes the containers between two snapshots of a takeover.
Watching == \E p \in Procs : pc[p] \in {"tkObserveAgain", "tkProve"}

DockerEvent == events' = (events \/ Watching)

\* The compose client replaces the container of a service by one with the
\* attempt's labels.
ComposeRecreates(s) ==
    /\ client
    /\ containers[s] \in {"absent", "foreign"}
    /\ containers' = [containers EXCEPT ![s] = "transitional"]
    /\ DockerEvent
    /\ UNCHANGED <<host, journal, db, client, now, history, calls, faults>>

ContainerSettles(s) ==
    /\ containers[s] = "transitional"
    /\ \E c \in {"running", "exited"} :
           containers' = [containers EXCEPT ![s] = c]
    /\ DockerEvent
    /\ UNCHANGED <<host, journal, db, client, now, history, calls, faults>>

\* A running container dies, for good or to be restarted by Docker.
ContainerFails(s) ==
    /\ containers[s] = "running"
    /\ \E c \in {"transitional", "exited"} :
           containers' = [containers EXCEPT ![s] = c]
    /\ DockerEvent
    /\ UNCHANGED <<host, journal, db, client, now, history, calls, faults>>

\* A client whose supervisor no longer waits for it comes to its end.
ClientExits ==
    /\ client
    /\ \A p \in Procs : pc[p] # "submitting"
    /\ client' = FALSE
    /\ UNCHANGED <<host, journal, db, containers, events, now, history, calls,
                   faults>>

Docker ==
    \/ \E s \in Services :
          ComposeRecreates(s) \/ ContainerSettles(s) \/ ContainerFails(s)
    \/ ClientExits

-----------------------------------------------------------------------------
(* Entering and leaving a call                                             *)

Goto(p, label) ==
    /\ pc' = [pc EXCEPT ![p] = label]
    /\ UNCHANGED <<lock, ret>>

locals == <<outcome, deadline, seen>>

\* HostExecutionLock.__exit__, with the value the call returned
Leave(p, value) ==
    /\ lock' = Free
    /\ pc' = [pc EXCEPT ![p] = "idle"]
    /\ ret' = [ret EXCEPT ![p] = value]
    /\ outcome' = [outcome EXCEPT ![p] = NoOutcome]
    /\ deadline' = [deadline EXCEPT ![p] = 0]
    /\ seen' = [seen EXCEPT ![p] = NoSnapshot]

\* HostExecutionLock.__enter__
AcquireHostLock(p, entry) ==
    /\ pc[p] = "idle"
    /\ calls < MaxCalls
    /\ lock = Free
    /\ lock' = p
    /\ pc' = [pc EXCEPT ![p] = entry]
    /\ ret' = [ret EXCEPT ![p] = "none"]
    /\ calls' = calls + 1
    /\ UNCHANGED <<locals, journal, db, docker, now, history, faults>>

\* flock(LOCK_NB) fails: host_execution_lock_busy
HostLockBusy(p) ==
    /\ pc[p] = "idle"
    /\ calls < MaxCalls
    /\ lock # Free
    /\ ret' = [ret EXCEPT ![p] = "busy"]
    /\ calls' = calls + 1
    /\ UNCHANGED <<lock, pc, locals, journal, db, docker, now, history, faults>>

\* authority.load refuses the attempt or cannot reach the database, or
\* journal.load finds a corrupt file.
LoadRaises(p) ==
    /\ pc[p] \in EntryPc
    /\ Leave(p, "raised")
    /\ UNCHANGED <<journal, db, docker, now, history, calls, faults>>

\* The process dies, or an exception no handler catches unwinds the call.
\* A death in the middle of an append leaves a torn record.
AppendPc == {"execute", "journalSubmit", "submitting", "completed", "health",
             "healthError", "verdict", "terminal", "disconnected", "recStart",
             "recObserve", "takeover", "tkClient", "tkObserveAgain", "tkProve",
             "tkGrant"}

Unwind(p) ==
    /\ pc[p] # "idle"
    /\ faults < MaxFaults
    /\ faults' = faults + 1
    /\ Leave(p, "raised")
    /\ \/ UNCHANGED journal
       \/ /\ pc[p] \in AppendPc
          /\ journal' = Append(journal, Row(Torn, "-"))
    /\ UNCHANGED <<db, docker, now, history, calls>>

-----------------------------------------------------------------------------
(* execute()                                                               *)

\* A terminal journal is only read back.
ReplayTerminal(p) ==
    /\ pc[p] = "execute"
    /\ ~Corrupt
    /\ Has("ATTEMPT_TERMINAL")
    /\ Leave(p, TerminalState(journal))
    /\ UNCHANGED <<journal, db, docker, now, history, calls, faults>>

\* Mutant: MUTATION_SUBMITTED is looked for before ATTEMPT_TERMINAL.
ResumeSubmitted_First(p) ==
    /\ pc[p] = "execute"
    /\ ~Corrupt
    /\ Has("MUTATION_SUBMITTED")
    /\ Goto(p, "recStart")
    /\ UNCHANGED <<locals, journal, db, docker, now, history, calls, faults>>

\* A submitted mutation is reconciled, never submitted again.
ResumeSubmitted(p) ==
    /\ pc[p] = "execute"
    /\ ~Corrupt
    /\ ~Has("ATTEMPT_TERMINAL")
    /\ Has("MUTATION_SUBMITTED")
    /\ Goto(p, "recStart")
    /\ UNCHANGED <<locals, journal, db, docker, now, history, calls, faults>>

\* Mutant: the marker in the database is not consulted.
MissingJournal_Ignored == FALSE

\* journal_missing_after_db_submission
MissingJournal == journal = <<>> /\ marker

FailClosed(p) ==
    /\ pc[p] = "execute"
    /\ MissingJournal
    /\ Leave(p, "raised")
    /\ UNCHANGED <<journal, db, docker, now, history, calls, faults>>

Accept(p) ==
    /\ pc[p] = "execute"
    /\ ~Corrupt
    /\ ~Has("ATTEMPT_TERMINAL")
    /\ ~Has("MUTATION_SUBMITTED")
    /\ ~MissingJournal
    /\ JournalAppend("ATTEMPT_ACCEPTED", "-")
    /\ Goto(p, "plan")
    /\ UNCHANGED <<locals, db, docker, now, history, calls>>

\* validate_plan: go on or raise
ValidatePlan(p) ==
    /\ pc[p] = "plan"
    /\ \/ Goto(p, "collect") /\ UNCHANGED locals
       \/ Leave(p, "raised")
    /\ UNCHANGED <<journal, db, docker, now, history, calls, faults>>

\* The seven samples of the resource collector and require_fresh: a sample
\* that is missing, too low or too late raises.
CollectResources(p) ==
    /\ pc[p] = "collect"
    /\ \/ Goto(p, "resource") /\ UNCHANGED locals
       \/ Leave(p, "raised")
    /\ UNCHANGED <<journal, db, docker, now, history, calls, faults>>

\* record_resource.  Its evidence key is a fresh nonce, so the row itself
\* is never read again.  Every exception, also that the collected samples
\* are no longer fresh, is taken for a lost database.
RecordResource(p) ==
    /\ pc[p] = "resource"
    /\ \E next \in {"marker", "disconnected"} : Goto(p, next)
    /\ UNCHANGED <<locals, journal, db, docker, now, history, calls, faults>>

\* Mutant: the marker row is added but never committed.
RecordMutationSubmitted_NoCommit(p) ==
    /\ pc[p] = "marker"
    /\ Goto(p, "journalSubmit")
    /\ UNCHANGED <<locals, journal, db, docker, now, history, calls, faults>>

\* record_mutation_submitted.  A failed commit may have been applied.
RecordMutationSubmitted(p) ==
    /\ pc[p] = "marker"
    /\ \/ marker' = TRUE /\ Goto(p, "journalSubmit") /\ UNCHANGED faults
       \/ /\ faults < MaxFaults
          /\ faults' = faults + 1
          /\ marker' \in {marker, TRUE}
          /\ Goto(p, "disconnected")
    /\ UNCHANGED <<locals, journal, results, docker, now, history, calls>>

JournalSubmission(p) ==
    /\ pc[p] = "journalSubmit"
    /\ JournalAppend("MUTATION_SUBMITTED", "-")
    /\ Goto(p, "submit")
    /\ UNCHANGED <<locals, db, docker, now, history, calls>>

\* submit(): the compose client is started ...
Submit(p) ==
    /\ pc[p] = "submit"
    /\ client' = TRUE
    /\ submits' = submits + 1
    /\ Goto(p, "submitting")
    /\ UNCHANGED <<locals, journal, db, containers, events, now, deadlines,
                   passedAt, calls, faults>>

\* ... or cannot be: the override file or the docker binary is missing.
SubmitRaises(p) ==
    /\ pc[p] = "submit"
    /\ Goto(p, "recStart")
    /\ UNCHANGED <<locals, journal, db, docker, now, history, calls, faults>>

\* Return code 0: every service has a container of the attempt.
SubmitAcknowledged(p) ==
    /\ pc[p] = "submitting"
    /\ \A s \in Services : containers[s] \notin {"absent", "foreign"}
    /\ client' = FALSE
    /\ Goto(p, "completed")
    /\ UNCHANGED <<locals, journal, db, containers, events, now, history,
                   calls, faults>>

\* Any other return code: docker_mutation_failed
SubmitFailed(p) ==
    /\ pc[p] = "submitting"
    /\ client' = FALSE
    /\ JournalAppend("MUTATION_FAILED", "-")
    /\ outcome' = [outcome EXCEPT ![p] = <<"mutation", "failed">>]
    /\ Goto(p, "terminal")
    /\ UNCHANGED <<deadline, seen, db, containers, events, now, history, calls>>

\* TimeoutExpired: the docker process is killed, its plugin may live on.
SubmitTimeout(p) ==
    /\ pc[p] = "submitting"
    /\ client' \in BOOLEAN
    /\ Goto(p, "recStart")
    /\ UNCHANGED <<locals, journal, db, containers, events, now, history,
                   calls, faults>>

JournalCompletion(p) ==
    /\ pc[p] = "completed"
    /\ JournalAppend("MUTATION_COMPLETED", "-")
    /\ Goto(p, "health")
    /\ UNCHANGED <<locals, db, docker, now, history, calls>>

Execute(p) ==
    \/ ReplayTerminal(p) \/ ResumeSubmitted(p) \/ FailClosed(p) \/ Accept(p)
    \/ ValidatePlan(p) \/ CollectResources(p) \/ RecordResource(p)
    \/ RecordMutationSubmitted(p) \/ JournalSubmission(p)
    \/ Submit(p) \/ SubmitRaises(p) \/ SubmitAcknowledged(p)
    \/ SubmitFailed(p) \/ SubmitTimeout(p) \/ JournalCompletion(p)

-----------------------------------------------------------------------------
(* reconcile() and _reconcile_locked()                                     *)

\* reconcile() loads the journal but does not look at what is in it.
BeginReconcile(p) ==
    /\ pc[p] = "reconcile"
    /\ ~Corrupt
    /\ Goto(p, "recStart")
    /\ UNCHANGED <<locals, journal, db, docker, now, history, calls, faults>>

StartReconciliation(p) ==
    /\ pc[p] = "recStart"
    /\ JournalAppend("RECONCILIATION_STARTED", "-")
    /\ Goto(p, "recObserve")
    /\ UNCHANGED <<locals, db, docker, now, history, calls>>

\* Mutant: an observed failure is recorded without ATTEMPT_TERMINAL.
AfterObservation_NoTerminal(st) ==
    IF st = "mutation_completed_health_unknown" THEN "health" ELSE "record"

AfterObservation(st) ==
    CASE st = "mutation_completed_health_unknown" -> "health"
      [] st \in {"healthy", "failed"} -> "terminal"
      [] OTHER -> "record"

\* The observation and its RECONCILIATION_RESULT record; `docker compose ps`
\* may fail, which is observed as unknown.
ObserveAndBranch(p) ==
    /\ pc[p] = "recObserve"
    /\ \E st \in {Observe(o) : o \in Observations(containers)} \cup {"unknown"} :
          /\ outcome' = [outcome EXCEPT ![p] =
                IF st \in {"healthy", "failed"}
                THEN <<"reconciliation", st>> ELSE NoOutcome]
          /\ Goto(p, AfterObservation(st))
    /\ JournalAppend("RECONCILIATION_RESULT", "-")
    /\ UNCHANGED <<deadline, seen, db, docker, now, history, calls>>

-----------------------------------------------------------------------------
(* _health_locked() and verify_health()                                    *)

StartHealth(p) ==
    /\ pc[p] = "health"
    /\ JournalAppend("HEALTH_STARTED", "-")
    /\ IF CorruptIn(journal')
       THEN /\ Leave(p, "raised")
            /\ UNCHANGED deadlines
       ELSE LET end == FirstAnchor(journal') + HealthWindow IN
            /\ deadline' = [deadline EXCEPT ![p] = end]
            /\ deadlines' = deadlines \cup {end}
            /\ Goto(p, "cycle")
            /\ UNCHANGED <<outcome, seen>>
    /\ UNCHANGED <<db, docker, now, submits, passedAt, calls>>

\* One poll sees the whole attempt running inside the window.  A poll that
\* does not leaves everything as it is and sleeps.
CycleObserves(p) ==
    /\ pc[p] = "cycle"
    /\ now < deadline[p]
    /\ Observe(containers) = "mutation_completed_health_unknown"
    /\ Goto(p, "checks")
    /\ UNCHANGED <<locals, journal, db, docker, now, history, calls, faults>>

\* Mutant: the polling loop does not look at the deadline.
CycleExpires_Never(p) == pc[p] = "cycle" /\ FALSE /\ UNCHANGED vars

CycleExpires(p) ==
    /\ pc[p] = "cycle"
    /\ now >= deadline[p]
    /\ Goto(p, "healthError")
    /\ UNCHANGED <<locals, journal, db, docker, now, history, calls, faults>>

\* An exception that is not a SupervisorError (a 5 second command timeout)
\* escapes the polling loop.
CycleRaises(p) ==
    /\ pc[p] \in {"cycle", "checks"}
    /\ Goto(p, "healthError")
    /\ UNCHANGED <<locals, journal, db, docker, now, history, calls, faults>>

\* The worker's /health payload is printed as a Python dict and then parsed
\* as JSON, which fails: the check feishu-worker.connected never holds.
ContractCanHold == "feishu-worker" \notin Services

\* All mandatory checks hold, verification_within_timeout among them.
ChecksPass(p) ==
    /\ pc[p] = "checks"
    /\ ContractCanHold
    /\ now < deadline[p]
    /\ Goto(p, "cycleDone")
    /\ UNCHANGED <<locals, journal, db, docker, now, history, calls, faults>>

ChecksFail(p) ==
    /\ pc[p] = "checks"
    /\ Goto(p, IF now >= deadline[p] THEN "healthError" ELSE "cycle")
    /\ UNCHANGED <<locals, journal, db, docker, now, history, calls, faults>>

\* Mutant: completed_at is not compared with the deadline.
CycleDone_Unchecked(p) ==
    /\ pc[p] = "cycleDone"
    /\ outcome' = [outcome EXCEPT ![p] = <<"health", "healthy">>]
    /\ passedAt' = passedAt \cup {now}
    /\ Goto(p, "verdict")
    /\ UNCHANGED <<deadline, seen, journal, db, docker, now, submits,
                   deadlines, calls, faults>>

\* completed_at is read from the clock once more after the checks.
CycleDone(p) ==
    /\ pc[p] = "cycleDone"
    /\ LET passed == now <= deadline[p] IN
       /\ outcome' = [outcome EXCEPT ![p] =
                         <<"health", IF passed THEN "healthy" ELSE "failed">>]
       /\ passedAt' = IF passed THEN passedAt \cup {now} ELSE passedAt
    /\ Goto(p, "verdict")
    /\ UNCHANGED <<deadline, seen, journal, db, docker, now, submits,
                   deadlines, calls, faults>>

HealthError(p) ==
    /\ pc[p] = "healthError"
    /\ JournalAppend("HEALTH_FAILED", "-")
    /\ outcome' = [outcome EXCEPT ![p] = <<"health", "failed">>]
    /\ Goto(p, "verdict")
    /\ UNCHANGED <<deadline, seen, db, docker, now, history, calls>>

JournalHealth(p) ==
    /\ pc[p] = "verdict"
    /\ JournalAppend(IF outcome[p][2] = "healthy"
                     THEN "HEALTH_PASSED" ELSE "HEALTH_FAILED", "-")
    /\ Goto(p, "terminal")
    /\ UNCHANGED <<locals, db, docker, now, history, calls>>

JournalTerminal(p) ==
    /\ pc[p] = "terminal"
    /\ JournalAppend("ATTEMPT_TERMINAL", outcome[p][2])
    /\ Goto(p, "record")
    /\ UNCHANGED <<locals, db, docker, now, history, calls>>

\* Mutant: the two parts of the evidence key are swapped.
RecordRuntimeResult_SwappedKey(p) ==
    /\ pc[p] = "record"
    /\ outcome[p] \notin results
    /\ results' = results \cup {<<outcome[p][2], outcome[p][1]>>}
    /\ Leave(p, outcome[p][2])
    /\ UNCHANGED <<journal, marker, docker, now, history, calls, faults>>

\* record_runtime_result: the evidence key is unique in the database.
RecordRuntimeResult(p) ==
    /\ pc[p] = "record"
    /\ outcome[p] \notin results
    /\ results' = results \cup {outcome[p]}
    /\ Leave(p, outcome[p][2])
    /\ UNCHANGED <<journal, marker, docker, now, history, calls, faults>>

\* The insert fails: the key exists already, or the database is gone (and
\* the commit may or may not have been applied).
RecordRuntimeResultFails(p) ==
    /\ pc[p] = "record"
    /\ \/ outcome[p] \in results /\ UNCHANGED <<results, faults>>
       \/ /\ faults < MaxFaults
          /\ faults' = faults + 1
          /\ results' \in {results, results \cup {outcome[p]}}
    /\ Goto(p, "disconnected")
    /\ UNCHANGED <<locals, journal, marker, docker, now, history, calls>>

JournalDisconnect(p) ==
    /\ pc[p] = "disconnected"
    /\ JournalAppend("DB_DISCONNECTED", "-")
    /\ Leave(p, "unknown")
    /\ UNCHANGED <<db, docker, now, history, calls>>

Settle(p) ==
    \/ BeginReconcile(p) \/ StartReconciliation(p) \/ ObserveAndBranch(p)
    \/ StartHealth(p) \/ CycleObserves(p) \/ CycleExpires(p)
    \/ ChecksPass(p) \/ ChecksFail(p) \/ CycleDone(p) \/ HealthError(p)
    \/ JournalHealth(p) \/ JournalTerminal(p)
    \/ RecordRuntimeResult(p) \/ RecordRuntimeResultFails(p)
    \/ JournalDisconnect(p)

-----------------------------------------------------------------------------
(* prove_quiescent_takeover()                                              *)

BeginTakeover(p) ==
    /\ pc[p] = "takeover"
    /\ ~Corrupt
    /\ JournalAppend("RECONCILIATION_STARTED", "-")
    /\ Goto(p, "tkObserve")
    /\ UNCHANGED <<locals, db, docker, now, history, calls>>

\* observe() lists and inspects the containers first ...
FirstSnapshot(p) ==
    /\ pc[p] = "tkObserve"
    /\ \E o \in Observations(containers) : seen' = [seen EXCEPT ![p] = o]
    /\ Goto(p, "tkClient")
    /\ UNCHANGED <<outcome, deadline, journal, db, docker, now, history, calls,
                   faults>>

RefuseTakeover(p) ==
    /\ JournalAppend("RECONCILIATION_RESULT", "-")
    /\ Leave(p, "refused")

\* A failing pgrep is taken for the absence of a client.
NoClientSeen == ~client \/ InspectLoss

\* ... and looks for a docker client last.
FirstClientCheck(p) ==
    /\ pc[p] = "tkClient"
    /\ \/ RefuseTakeover(p) /\ UNCHANGED events
       \/ /\ NoClientSeen
          /\ ~Transitional(seen[p])
          /\ events' = FALSE
          /\ Goto(p, "tkObserveAgain")
          /\ UNCHANGED <<locals, journal, faults>>
    /\ UNCHANGED <<db, containers, client, now, history, calls>>

\* Mutant: the second observation reuses the first snapshot.
SecondSnapshot_Reused(p) ==
    /\ pc[p] = "tkObserveAgain"
    /\ Observe(seen[p]) # "unknown"
    /\ Goto(p, "tkProve")
    /\ UNCHANGED <<locals, journal, db, docker, now, history, calls, faults>>

\* After QUIESCENCE_SECONDS the fingerprint must be the same.
SecondSnapshot(p) ==
    /\ pc[p] = "tkObserveAgain"
    /\ \/ RefuseTakeover(p)
       \/ /\ seen[p] \in Observations(containers)
          /\ ~Transitional(seen[p])
          /\ Observe(seen[p]) # "unknown"
          /\ Goto(p, "tkProve")
          /\ UNCHANGED <<locals, journal, faults>>
    /\ UNCHANGED <<db, docker, now, history, calls>>

\* No client is active when the second observation ends, and the event
\* stream up to that moment is empty; docker may report events of its own or
\* fail, so refusing is always open.
ProveQuiescence(p) ==
    /\ pc[p] = "tkProve"
    /\ \/ RefuseTakeover(p)
       \/ /\ NoClientSeen
          /\ ~events
          /\ Goto(p, "tkGrant")
          /\ UNCHANGED <<locals, journal, faults>>
    /\ UNCHANGED <<db, docker, now, history, calls>>

\* The answer is journalled and returned later; containers may have changed.
GrantTakeover(p) ==
    /\ pc[p] = "tkGrant"
    /\ JournalAppend("RECONCILIATION_RESULT", "-")
    /\ Leave(p, "safe")
    /\ UNCHANGED <<db, docker, now, history, calls>>

Takeover(p) ==
    \/ BeginTakeover(p) \/ FirstSnapshot(p) \/ FirstClientCheck(p)
    \/ SecondSnapshot(p) \/ ProveQuiescence(p) \/ GrantTakeover(p)

-----------------------------------------------------------------------------
(* The specification                                                       *)

\* The clock runs on past MaxTime only while a health window is open.
Tick ==
    /\ \/ now < MaxTime
       \/ \E p \in Procs : now <= deadline[p]
    /\ now' = now + 1
    /\ UNCHANGED <<host, journal, db, docker, history, calls, faults>>

\* The journal file disappears while no supervisor runs.
LoseJournal ==
    /\ JournalLoss
    /\ lock = Free
    /\ journal # <<>>
    /\ journal' = <<>>
    /\ UNCHANGED <<host, db, docker, now, history, calls, faults>>

\* The steps a call takes by itself: no new calls, no deaths and no
\* exceptions in the health loop
Step(p) == LoadRaises(p) \/ Execute(p) \/ Settle(p) \/ Takeover(p)

Next ==
    \/ \E p \in Procs :
          \/ \E e \in EntryPoints : AcquireHostLock(p, e)
          \/ HostLockBusy(p)
          \/ Step(p)
          \/ CycleRaises(p)
          \/ Unwind(p)
    \/ Docker
    \/ Tick
    \/ LoseJournal

Spec == Init /\ [][Next]_vars

\* A process that is in a call keeps taking its steps, the clock advances.
FairSpec == Spec /\ WF_vars(Tick) /\ \A p \in Procs : WF_vars(Step(p))

-----------------------------------------------------------------------------
(* Properties                                                              *)

\* The Docker mutation of an attempt is started at most once, whatever
\* crashes, torn records, database failures, lost acknowledgements and
\* repeated calls come in between (execute(), _reconcile_locked()).
AtMostOneMutation == submits <= 1

\* Write-ahead: when a mutation has been started, the database marker is
\* set, and the journal that is left says so, or cannot be read, or is
\* missing altogether (record_mutation_submitted before MUTATION_SUBMITTED
\* before submit).
SubmissionIsDurable ==
    submits > 0 => /\ marker
                   /\ \/ Has("MUTATION_SUBMITTED")
                      \/ Corrupt
                      \/ JournalLoss /\ journal = <<>>

\* Restarts do not extend the health window: every health verification of
\* the attempt works with the same deadline (_health_locked).
OneHealthWindow == \A d, e \in deadlines : d = e

\* A health cycle counts as passed only if it completed before the end of
\* the attempt's first health window.
PassedInsideWindow == \A t \in passedAt, d \in deadlines : t <= d

\* The journal is written first: a final verdict that is in the database or
\* was returned to a caller has its ATTEMPT_TERMINAL record with the same
\* state, or the journal is torn (_health_locked, _reconcile_locked).
ResultsBackedByJournal ==
    \A v \in {r[2] : r \in results} \cup {ret[p] : p \in Procs} :
        v \in {"healthy", "failed"} =>
            \/ Corrupt
            \/ \E i \in TerminalsOf(journal) : journal[i].state = v

\* Nobody reports HEALTHY (to the caller, the journal or the database)
\* unless a complete health cycle passed.
HealthyIsEarned ==
    \/ passedAt # {}
    \/ /\ \A p \in Procs : ret[p] # "healthy"
       /\ \A r \in results : r[2] # "healthy"
       /\ \A i \in DOMAIN journal : journal[i].state # "healthy"

\* The assumption behind _terminal_state(): a journal holds one verdict.
SingleVerdict == \A i, k \in TerminalsOf(journal) : i = k

\* The verdict on the attempt: the first one that was journalled
FirstVerdict ==
    IF TerminalsOf(journal) = {} THEN "none"
    ELSE journal[CHOOSE i \in TerminalsOf(journal) :
                    \A k \in TerminalsOf(journal) : i <= k].state

Execution ==
    INSTANCE AttemptExecution
        WITH Attempts <- {"attempt"},
             mutated <- [a \in {"attempt"} |-> submits],
             verdict <- [a \in {"attempt"} |-> FirstVerdict]

\* To the rest of the system an attempt is mutated once and gets one
\* verdict, after the mutation, that stays, whatever reconcile() adds to the
\* journal later: containers of another deployment are never judged as this
\* attempt's (execute(), _reconcile_locked()).
ImplementsExecution == Execution!Spec

\* A takeover is judged safe only at a moment when no compose client is
\* active and no container is being changed, and none of this host's clients
\* has started when the answer is returned after it
\* (prove_quiescent_takeover).
TakeoverOnlyWhenQuiescent ==
    [][\A p \in Procs :
          /\ pc[p] = "tkProve" /\ pc'[p] = "tkGrant"
                 => ~client /\ ~Transitional(containers)
          /\ pc[p] = "tkGrant" /\ ret'[p] = "safe" /\ pc'[p] = "idle"
                 => ~client]_vars

\* Every call comes to an end and gives the host lock back.
CallsReturn == \A p \in Procs : pc[p] # "idle" ~> pc[p] = "idle"
=============================================================================
