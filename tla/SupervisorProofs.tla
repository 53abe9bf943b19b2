-------------------------- MODULE SupervisorProofs --------------------------
(***************************************************************************)
(* Theorems about the production supervisor, for every set of processes    *)
(* and services, every health window and every bound.                      *)
(***************************************************************************)
EXTENDS Supervisor, TLAPS

-----------------------------------------------------------------------------
(* Type correctness                                                        *)

HostOK ==
    /\ lock \in Procs \cup {Free}
    /\ pc \in [Procs -> Pc]
    /\ ret \in [Procs -> Return]
    /\ outcome \in [Procs -> Verdict]
    /\ deadline \in [Procs -> Nat]
    /\ seen \in [Procs -> [Services -> ContainerState]]

RestOK ==
    /\ marker \in BOOLEAN
    /\ results \subseteq Verdict
    /\ containers \in [Services -> ContainerState]
    /\ client \in BOOLEAN
    /\ events \in BOOLEAN
    /\ now \in Nat
    /\ submits \in Nat
    /\ deadlines \subseteq Nat
    /\ passedAt \subseteq Nat
    /\ calls \in Nat

\* i is the position of the first anchor record of journal j.
IsFirstAnchor(j, i) == i \in Anchors(j) /\ \A k \in Anchors(j) : i <= k

\* A journal with an anchor has a first one (the CHOOSE of FirstAnchor).
AnchorOK(j) == Anchors(j) = {} \/ \E i \in Nat : IsFirstAnchor(j, i)

JournalOK == journal \in Seq(Record) /\ AnchorOK(journal)

TypeInv == HostOK /\ RestOK /\ JournalOK /\ faults \in Nat

\* The journal grows by one record whose event is e or a torn one.
Grows(e) ==
    \E r \in Record : r.event \in {e, Torn} /\ journal' = Append(journal, r)

\* The default values of the local variables have their types.
LEMMA Defaults == /\ NoOutcome \in Verdict
                  /\ NoSnapshot \in [Services -> ContainerState]
  BY DEF NoOutcome, NoSnapshot, Verdict, Source, RuntimeState, ContainerState

\* What appending one record does to the journal's contents: nothing that
\* was there is lost, and only the new record's event can be new.
LEMMA AppendFacts ==
  ASSUME NEW j \in Seq(Record), NEW r \in Record
  PROVE  /\ Append(j, r) \in Seq(Record)
         /\ Append(j, r) # <<>>
         /\ Len(Append(j, r)) = Len(j) + 1
         /\ DOMAIN Append(j, r) = 1 .. (Len(j) + 1)
         /\ DOMAIN j = 1 .. Len(j)
         /\ Len(j) \in Nat
         /\ \A i \in DOMAIN j : Append(j, r)[i] = j[i]
         /\ Append(j, r)[Len(j) + 1] = r
  OBVIOUS

\* An event is in the grown journal if it was there or is the new one.
LEMMA AppendHas ==
  ASSUME NEW j \in Seq(Record), NEW r \in Record
  PROVE  \A e : HasIn(Append(j, r), e) <=> (HasIn(j, e) \/ e = r.event)
  BY AppendFacts DEF HasIn

\* The first anchor stays the first anchor when the journal grows.
LEMMA AppendAnchor ==
  ASSUME NEW j \in Seq(Record), NEW r \in Record
  PROVE  /\ \A i \in Nat :
               IsFirstAnchor(j, i) => IsFirstAnchor(Append(j, r), i)
         /\ AnchorOK(j) => AnchorOK(Append(j, r))
<1>1. \A i : i \in Anchors(Append(j, r)) =>
               i \in Anchors(j) \/ (i = Len(j) + 1 /\ r.event \in AnchorEvents)
  BY AppendFacts DEF Anchors
<1>2. \A i \in Anchors(j) : i \in Anchors(Append(j, r)) /\ i \in 1 .. Len(j)
  BY AppendFacts DEF Anchors
<1>3. \A i \in Nat : IsFirstAnchor(j, i) => IsFirstAnchor(Append(j, r), i)
  BY <1>1, <1>2, AppendFacts DEF IsFirstAnchor
<1>4. CASE Anchors(j) = {} /\ r.event \in AnchorEvents
  <2>1. Len(j) + 1 \in Anchors(Append(j, r))
    BY <1>4, AppendFacts DEF Anchors
  <2>2. IsFirstAnchor(Append(j, r), Len(j) + 1)
    BY <1>1, <1>4, <2>1, AppendFacts DEF IsFirstAnchor
  <2> QED BY <1>3, <2>2, AppendFacts DEF AnchorOK
<1>5. CASE Anchors(j) = {} /\ r.event \notin AnchorEvents
  BY <1>1, <1>3, <1>5 DEF AnchorOK
<1>6. CASE Anchors(j) # {}
  BY <1>3, <1>6 DEF AnchorOK
<1> QED BY <1>4, <1>5, <1>6

\* FirstAnchor is the timestamp of the first anchor.
LEMMA FirstAnchorIs ==
  ASSUME NEW j \in Seq(Record), NEW i \in Nat, IsFirstAnchor(j, i)
  PROVE  FirstAnchor(j) = j[i].ts /\ j[i].ts \in Nat
<1>1. Anchors(j) \subseteq DOMAIN j /\ DOMAIN j \subseteq Nat
  BY DEF Anchors
<1>2. (CHOOSE m \in Anchors(j) : \A k \in Anchors(j) : m <= k) = i
  BY <1>1 DEF IsFirstAnchor
<1>3. j[i] \in Record
  BY <1>1 DEF IsFirstAnchor
<1> QED BY <1>2, <1>3 DEF FirstAnchor, Record

\* A row that is written is a journal record.
LEMMA RowType ==
  ASSUME now \in Nat, NEW e \in JournalEvent \cup {Torn},
         NEW st \in RuntimeState \cup {"-"}
  PROVE  Row(e, st) \in Record /\ Row(e, st).event = e
  BY DEF Row, Record

\* JournalAppend keeps the journal well formed.
LEMMA JournalAppendGrows ==
  ASSUME TypeInv, NEW e \in JournalEvent, NEW st \in RuntimeState \cup {"-"},
         JournalAppend(e, st)
  PROVE  Grows(e) /\ JournalOK' /\ faults' \in Nat
<1>1. Row(e, st) \in Record /\ Row(e, st).event = e
  BY RowType DEF TypeInv, RestOK
<1>2. Row(Torn, "-") \in Record /\ Row(Torn, "-").event = Torn
  BY RowType DEF TypeInv, RestOK
<1>3. Grows(e)
  BY <1>1, <1>2 DEF JournalAppend, Grows
<1>4. JournalOK'
  BY <1>3, AppendFacts, AppendAnchor DEF Grows, JournalOK, TypeInv
<1>5. faults' \in Nat
  BY DEF JournalAppend, TypeInv
<1> QED BY <1>3, <1>4, <1>5

\* Moving on keeps the types of what belongs to the processes.
LEMMA GotoType ==
  ASSUME HostOK, NEW p \in Procs, NEW l \in Pc, Goto(p, l), UNCHANGED locals
  PROVE  HostOK'
  BY DEF HostOK, Goto, locals

\* So does leaving a call.
LEMMA LeaveType ==
  ASSUME HostOK, NEW p \in Procs, NEW v \in Return, Leave(p, v)
  PROVE  HostOK'
  BY Defaults DEF HostOK, Leave, Pc

\* What a terminal journal is read back as can be returned.
LEMMA TerminalStateType ==
  ASSUME NEW j \in Seq(Record)
  PROVE  TerminalState(j) \in Return
<1>1. CASE j[Len(j)].event = "DB_DISCONNECTED"
  BY <1>1 DEF TerminalState, Return, RuntimeState
<1>2. ASSUME NEW i \in TerminalsOf(j), TerminalsOf(j) = {i},
             j[i].state \in RuntimeState
      PROVE  j[CHOOSE k \in TerminalsOf(j) : TRUE].state \in Return
  BY <1>2 DEF Return
<1> QED BY <1>1, <1>2 DEF TerminalState, Return

\* Every label a step goes to is a program counter value.
LEMMA PcValues ==
  /\ \A l \in {"idle"} \cup EntryPc \cup ExecutePc \cup SettlePc
               \cup TakeoverPc : l \in Pc
  /\ RuntimeState \subseteq Return
  /\ {"none", "busy", "raised", "safe", "refused"} \subseteq Return
  BY DEF Pc, Return

\* The initial state has its types.
LEMMA InitType == Init => TypeInv
<1> SUFFICES ASSUME Init PROVE TypeInv
  OBVIOUS
<1>1. HostOK
  BY Defaults DEF Init, HostOK, Pc, Return
<1>2. RestOK
  BY DEF Init, RestOK, ContainerState
<1>3. JournalOK
  BY DEF Init, JournalOK, AnchorOK, Anchors
<1> QED BY <1>1, <1>2, <1>3 DEF Init, TypeInv

\* The steps of execute() keep the types.
LEMMA ExecuteType ==
  ASSUME TypeInv, NEW p \in Procs, Execute(p)
  PROVE  TypeInv'
<1> USE PcValues DEF TypeInv, EntryPc, ExecutePc, SettlePc
<1>1. CASE ReplayTerminal(p)
  BY <1>1, LeaveType, TerminalStateType
     DEF ReplayTerminal, RestOK, JournalOK, db, docker, history
<1>2. CASE ResumeSubmitted(p)
  BY <1>2, GotoType DEF ResumeSubmitted, RestOK, JournalOK, db, docker, history
<1>3. CASE FailClosed(p)
  BY <1>3, LeaveType DEF FailClosed, RestOK, JournalOK, db, docker, history
<1>4. CASE Accept(p)
  BY <1>4, GotoType, JournalAppendGrows
     DEF Accept, JournalEvent, RestOK, db, docker, history
<1>5. CASE ValidatePlan(p) \/ CollectResources(p)
  BY <1>5, GotoType, LeaveType
     DEF ValidatePlan, CollectResources, RestOK, JournalOK, db, docker, history
<1>6. CASE RecordResource(p)
  BY <1>6, GotoType DEF RecordResource, RestOK, JournalOK, db, docker, history
<1>7. CASE RecordMutationSubmitted(p)
  <2>1. marker' \in BOOLEAN
    BY <1>7, Zenon DEF RecordMutationSubmitted, RestOK
  <2>2. HostOK'
    BY <1>7, GotoType DEF RecordMutationSubmitted
  <2>3. faults' = faults \/ faults' = faults + 1
    BY <1>7, Zenon DEF RecordMutationSubmitted
  <2> QED BY <1>7, <2>1, <2>2, <2>3
          DEF RecordMutationSubmitted, RestOK, JournalOK, docker, history
<1>8. CASE JournalSubmission(p)
  BY <1>8, GotoType, JournalAppendGrows
     DEF JournalSubmission, JournalEvent, RestOK, db, docker, history
<1>9. CASE Submit(p)
  BY <1>9, GotoType DEF Submit, RestOK, JournalOK, db
<1>10. CASE SubmitRaises(p)
  BY <1>10, GotoType DEF SubmitRaises, RestOK, JournalOK, db, docker, history
<1>11. CASE SubmitAcknowledged(p)
  BY <1>11, GotoType DEF SubmitAcknowledged, RestOK, JournalOK, db, history
<1>12. CASE SubmitFailed(p)
  <2>1. <<"mutation", "failed">> \in Verdict
    BY DEF Verdict, Source, RuntimeState
  <2>2. HostOK'
    BY <1>12, <2>1 DEF SubmitFailed, HostOK, Goto
  <2> QED BY <1>12, <2>2, JournalAppendGrows
          DEF SubmitFailed, JournalEvent, RestOK, db, history
<1>13. CASE SubmitTimeout(p)
  BY <1>13, GotoType DEF SubmitTimeout, RestOK, JournalOK, db, history
<1>14. CASE JournalCompletion(p)
  BY <1>14, GotoType, JournalAppendGrows
     DEF JournalCompletion, JournalEvent, RestOK, db, docker, history
<1> QED BY <1>1, <1>2, <1>3, <1>4, <1>5, <1>6, <1>7, <1>8, <1>9, <1>10,
           <1>11, <1>12, <1>13, <1>14 DEF Execute

\* The end of the window is a number: the journal has a first anchor.
LEMMA WindowEnd ==
  ASSUME TypeInv, JournalAppend("HEALTH_STARTED", "-"), ~CorruptIn(journal')
  PROVE  /\ FirstAnchor(journal') \in Nat
         /\ \E i \in Nat : IsFirstAnchor(journal', i)
<1>1. Grows("HEALTH_STARTED") /\ JournalOK'
  BY JournalAppendGrows DEF JournalEvent
<1>2. PICK r \in Record : r.event \in {"HEALTH_STARTED", Torn}
                          /\ journal' = Append(journal, r)
  BY <1>1 DEF Grows
<1>3. r.event = "HEALTH_STARTED"
  BY <1>2, AppendHas DEF CorruptIn, TypeInv, JournalOK
<1>4. Len(journal) + 1 \in Anchors(journal')
  BY <1>2, <1>3, AppendFacts DEF Anchors, AnchorEvents, TypeInv, JournalOK
<1>5. PICK i \in Nat : IsFirstAnchor(journal', i)
  BY <1>1, <1>4 DEF JournalOK, AnchorOK
<1>6. journal' \in Seq(Record)
  BY <1>1 DEF JournalOK
<1> QED BY <1>5, <1>6, FirstAnchorIs

\* So do those of reconciliation and health verification ...
LEMMA SettleType ==
  ASSUME TypeInv, NEW p \in Procs, Settle(p) \/ CycleRaises(p)
  PROVE  TypeInv'
<1> USE PcValues DEF TypeInv, EntryPc, ExecutePc, SettlePc
<1>0. \A s \in Source, st \in RuntimeState : <<s, st>> \in Verdict
  BY DEF Verdict
<1>1. CASE BeginReconcile(p)
  BY <1>1, GotoType DEF BeginReconcile, RestOK, JournalOK, db, docker, history
<1>2. CASE StartReconciliation(p)
  BY <1>2, GotoType, JournalAppendGrows
     DEF StartReconciliation, JournalEvent, RestOK, db, docker, history
<1>3. CASE ObserveAndBranch(p)
  <2>1. PICK st : /\ outcome' = [outcome EXCEPT ![p] =
                        IF st \in {"healthy", "failed"}
                        THEN <<"reconciliation", st>> ELSE NoOutcome]
                  /\ Goto(p, AfterObservation(st))
    BY <1>3 DEF ObserveAndBranch
  <2>2. (IF st \in {"healthy", "failed"}
         THEN <<"reconciliation", st>> ELSE NoOutcome) \in Verdict
    BY <1>0, Defaults DEF Source, RuntimeState
  <2>3. AfterObservation(st) \in Pc
    BY DEF AfterObservation
  <2>4. HostOK'
    BY <1>3, <2>1, <2>2, <2>3 DEF ObserveAndBranch, HostOK, Goto
  <2> QED BY <1>3, <2>4, JournalAppendGrows
          DEF ObserveAndBranch, JournalEvent, RestOK, db, docker, history
<1>4. CASE StartHealth(p)
  <2>1. JournalOK' /\ faults' \in Nat
    BY <1>4, JournalAppendGrows DEF StartHealth, JournalEvent
  <2>2. CASE CorruptIn(journal')
    BY <1>4, <2>1, <2>2, LeaveType DEF StartHealth, RestOK, db, docker
  <2>3. CASE ~CorruptIn(journal')
    <3>1. FirstAnchor(journal') + HealthWindow \in Nat
      BY <1>4, <2>3, WindowEnd, SupervisorConstants DEF StartHealth
    <3>2. HostOK' /\ deadlines' \subseteq Nat
      BY <1>4, <2>3, <3>1 DEF StartHealth, HostOK, RestOK, Goto
    <3> QED BY <1>4, <2>1, <3>2 DEF StartHealth, RestOK, db, docker
  <2> QED BY <2>2, <2>3
<1>5. CASE CycleObserves(p)
  BY <1>5, GotoType DEF CycleObserves, RestOK, JournalOK, db, docker, history
<1>6. CASE CycleExpires(p)
  BY <1>6, GotoType DEF CycleExpires, RestOK, JournalOK, db, docker, history
<1>7. CASE CycleRaises(p)
  BY <1>7, GotoType DEF CycleRaises, RestOK, JournalOK, db, docker, history
<1>8. CASE ChecksPass(p)
  BY <1>8, GotoType DEF ChecksPass, RestOK, JournalOK, db, docker, history
<1>9. CASE ChecksFail(p)
  BY <1>9, GotoType DEF ChecksFail, RestOK, JournalOK, db, docker, history
<1>10. CASE CycleDone(p)
  <2>1. \A b \in BOOLEAN :
           <<"health", IF b THEN "healthy" ELSE "failed">> \in Verdict
    BY <1>0 DEF Source, RuntimeState
  <2>2. HostOK'
    BY <1>10, <2>1 DEF CycleDone, HostOK, Goto
  <2> QED BY <1>10, <2>2 DEF CycleDone, RestOK, JournalOK, db, docker
<1>11. CASE HealthError(p)
  <2>1. <<"health", "failed">> \in Verdict
    BY <1>0 DEF Source, RuntimeState
  <2>2. HostOK'
    BY <1>11, <2>1 DEF HealthError, HostOK, Goto
  <2> QED BY <1>11, <2>2, JournalAppendGrows
          DEF HealthError, JournalEvent, RestOK, db, docker, history
<1>12. CASE JournalHealth(p)
  BY <1>12, GotoType, JournalAppendGrows
     DEF JournalHealth, JournalEvent, RestOK, db, docker, history
<1>13. CASE JournalTerminal(p)
  <2>1. outcome[p][2] \in RuntimeState
    BY DEF HostOK, Verdict
  <2> QED BY <1>13, <2>1, GotoType, JournalAppendGrows
          DEF JournalTerminal, JournalEvent, RestOK, db, docker, history
<1>14. CASE RecordRuntimeResult(p)
  <2>1. outcome[p] \in Verdict /\ outcome[p][2] \in RuntimeState
    BY DEF HostOK, Verdict
  <2> QED BY <1>14, <2>1, LeaveType
          DEF RecordRuntimeResult, RestOK, JournalOK, docker, history
<1>15. CASE RecordRuntimeResultFails(p)
  <2>1. outcome[p] \in Verdict
    BY DEF HostOK
  <2> QED BY <1>15, <2>1, GotoType
          DEF RecordRuntimeResultFails, RestOK, JournalOK, docker, history
<1>16. CASE JournalDisconnect(p)
  BY <1>16, LeaveType, JournalAppendGrows
     DEF JournalDisconnect, JournalEvent, RuntimeState, RestOK, db, docker,
         history
<1> QED BY <1>1, <1>2, <1>3, <1>4, <1>5, <1>6, <1>7, <1>8, <1>9, <1>10,
           <1>11, <1>12, <1>13, <1>14, <1>15, <1>16 DEF Settle

\* ... those of the takeover proof ...
LEMMA TakeoverType ==
  ASSUME TypeInv, NEW p \in Procs, Takeover(p)
  PROVE  TypeInv'
<1> USE PcValues DEF TypeInv, TakeoverPc
<1>1. CASE BeginTakeover(p)
  BY <1>1, GotoType, JournalAppendGrows
     DEF BeginTakeover, JournalEvent, RestOK, db, docker, history
<1>2. CASE FirstSnapshot(p)
  <2>1. HostOK'
    BY <1>2 DEF FirstSnapshot, Observations, HostOK, RestOK, Goto
  <2> QED BY <1>2, <2>1
          DEF FirstSnapshot, RestOK, JournalOK, db, docker, history
<1>3. CASE FirstClientCheck(p)
  BY <1>3, GotoType, LeaveType, JournalAppendGrows
     DEF FirstClientCheck, RefuseTakeover, JournalEvent, RestOK, JournalOK, db,
         history
<1>4. CASE SecondSnapshot(p)
  BY <1>4, GotoType, LeaveType, JournalAppendGrows
     DEF SecondSnapshot, RefuseTakeover, JournalEvent, RestOK, JournalOK, db,
         docker, history
<1>5. CASE ProveQuiescence(p)
  BY <1>5, GotoType, LeaveType, JournalAppendGrows
     DEF ProveQuiescence, RefuseTakeover, JournalEvent, RestOK, JournalOK, db,
         docker, history
<1>6. CASE GrantTakeover(p)
  BY <1>6, LeaveType, JournalAppendGrows
     DEF GrantTakeover, JournalEvent, RestOK, db, docker, history
<1> QED BY <1>1, <1>2, <1>3, <1>4, <1>5, <1>6 DEF Takeover

\* ... Docker, the clock and the loss of the journal ...
LEMMA EnvironmentType ==
  ASSUME TypeInv, Docker \/ Tick \/ LoseJournal
  PROVE  TypeInv'
<1> USE DEF TypeInv, host
<1>1. ASSUME NEW s \in Services,
             ComposeRecreates(s) \/ ContainerSettles(s) \/ ContainerFails(s)
      PROVE  TypeInv'
  <2>1. containers' \in [Services -> ContainerState]
    BY <1>1 DEF ComposeRecreates, ContainerSettles, ContainerFails, RestOK,
                ContainerState
  <2>2. events' \in BOOLEAN
    BY <1>1 DEF ComposeRecreates, ContainerSettles, ContainerFails, DockerEvent,
                Watching, RestOK
  <2> QED BY <1>1, <2>1, <2>2
          DEF ComposeRecreates, ContainerSettles, ContainerFails, HostOK,
              RestOK, JournalOK, db, history
<1>2. CASE ClientExits
  BY <1>2 DEF ClientExits, HostOK, RestOK, JournalOK, db, history
<1>3. CASE Tick
  BY <1>3 DEF Tick, HostOK, RestOK, JournalOK, db, docker, history
<1>4. CASE LoseJournal
  <2>1. JournalOK'
    BY <1>4 DEF LoseJournal, JournalOK, AnchorOK, Anchors
  <2> QED BY <1>4, <2>1 DEF LoseJournal, HostOK, RestOK, db, docker, history
<1> QED BY <1>1, <1>2, <1>3, <1>4 DEF Docker

\* ... and the beginning and the end of a call.
LEMMA CallType ==
  ASSUME TypeInv, NEW p \in Procs,
         \/ \E e \in EntryPoints : AcquireHostLock(p, e)
         \/ HostLockBusy(p) \/ LoadRaises(p) \/ Unwind(p)
  PROVE  TypeInv'
<1> USE PcValues DEF TypeInv
<1>1. ASSUME NEW e \in EntryPoints, AcquireHostLock(p, e)
      PROVE  TypeInv'
  <2>1. e \in Pc
    BY SupervisorConstants DEF EntryPc
  <2> QED BY <1>1, <2>1
          DEF AcquireHostLock, HostOK, RestOK, JournalOK, locals, db, docker,
              history
<1>2. CASE HostLockBusy(p)
  BY <1>2 DEF HostLockBusy, HostOK, RestOK, JournalOK, locals, db, docker,
              history
<1>3. CASE LoadRaises(p)
  BY <1>3, LeaveType DEF LoadRaises, RestOK, JournalOK, db, docker, history
<1>4. CASE Unwind(p)
  <2>1. Row(Torn, "-") \in Record
    BY RowType DEF RestOK
  <2>2. CASE UNCHANGED journal
    BY <1>4, <2>2, LeaveType DEF Unwind, RestOK, JournalOK, db, docker, history
  <2>3. CASE journal' = Append(journal, Row(Torn, "-"))
    <3>1. journal \in Seq(Record) /\ AnchorOK(journal)
      BY DEF JournalOK
    <3>2. journal' \in Seq(Record) /\ AnchorOK(journal')
      BY <2>1, <2>3, <3>1, AppendFacts, AppendAnchor
    <3>3. JournalOK'
      BY <3>2 DEF JournalOK, AnchorOK, IsFirstAnchor, Anchors
    <3> QED BY <1>4, <3>3, LeaveType DEF Unwind, RestOK, db, docker, history
  <2> QED BY <1>4, <2>2, <2>3 DEF Unwind
<1> QED BY <1>1, <1>2, <1>3, <1>4

\* Every step keeps the types.
LEMMA StepType == TypeInv /\ [Next]_vars => TypeInv'
<1> SUFFICES ASSUME TypeInv, [Next]_vars PROVE TypeInv'
  OBVIOUS
<1>1. CASE UNCHANGED vars
  BY <1>1 DEF vars, host, db, docker, history, TypeInv, HostOK, RestOK,
              JournalOK
<1>2. CASE Next
  BY <1>2, ExecuteType, SettleType, TakeoverType, EnvironmentType, CallType
     DEF Next, Step
<1> QED BY <1>1, <1>2

\* Type correctness of the supervisor, and that a journal with a health
\* anchor has a first one.
THEOREM SupervisorTypeInv == Spec => []TypeInv
  BY InitType, StepType, PTL DEF Spec

\* Every variable of the supervisor keeps its type.
THEOREM SupervisorTypeOK == Spec => []TypeOK
<1>1. TypeInv => TypeOK
  BY DEF TypeInv, TypeOK, HostOK, RestOK, JournalOK
<1> QED BY <1>1, SupervisorTypeInv, PTL

-----------------------------------------------------------------------------
(* At most one mutation                                                    *)

\* A journal that tells a later execute() not to submit.
Recorded == Has("MUTATION_SUBMITTED") \/ Corrupt

BeforeSubmit == {"plan", "collect", "resource", "marker", "journalSubmit",
                 "submit"}

\* Only the holder of the host lock is in a call.
LockInv == \A p \in Procs : pc[p] # "idle" => lock = p

\* Nothing has been submitted before the submit step, and the two durable
\* records are in place when it is reached.
SubmitInv ==
    \A p \in Procs :
        /\ pc[p] \in BeforeSubmit => submits = 0
        /\ pc[p] \in {"journalSubmit", "submit"} => marker
        /\ pc[p] = "submit" => Recorded

\* What is left of a submission: the marker, and a journal that records it
\* or has been lost and not been written since.
DurableInv ==
    submits = 1 => marker /\ (Recorded \/ (JournalLoss /\ journal = <<>>))

\* Where the journal may be lost, only execute() runs, and past its first
\* checks it never works on an empty journal.
LossInv ==
    JournalLoss =>
        \A p \in Procs :
            /\ pc[p] \notin {"reconcile", "takeover"}
            /\ pc[p] \notin {"idle", "execute"} => journal # <<>>

MutationInv ==
    /\ submits \in {0, 1}
    /\ LockInv
    /\ SubmitInv
    /\ DurableInv
    /\ LossInv

\* A torn or submitted journal stays one.
LEMMA GrowsRecorded ==
  ASSUME TypeInv, NEW e, Grows(e)
  PROVE  /\ journal' # <<>>
         /\ Recorded => Recorded'
         /\ e = "MUTATION_SUBMITTED" => Recorded'
<1>1. PICK r \in Record : r.event \in {e, Torn} /\ journal' = Append(journal, r)
  BY DEF Grows
<1>2. \A x : HasIn(journal', x) <=> (HasIn(journal, x) \/ x = r.event)
  BY <1>1, AppendHas DEF TypeInv, JournalOK
<1>3. journal' # <<>>
  BY <1>1, AppendFacts DEF TypeInv, JournalOK
<1> QED BY <1>1, <1>2, <1>3 DEF Recorded, Has, Corrupt, CorruptIn

\* The steps after dispatch that submit nothing: they keep the marker, only
\* add to the journal, and do not go back before the submit step.
LEMMA QuietStep ==
  ASSUME TypeInv, MutationInv, NEW p \in Procs, NEW l \in Pc,
         pc[p] \notin {"idle", "execute"},
         l \notin BeforeSubmit, l \notin EntryPc,
         pc' = [pc EXCEPT ![p] = l],
         l = "idle" \/ lock' = lock,
         submits' = submits,
         marker => marker',
         journal' = journal \/ \E e \in JournalEvent : Grows(e)
  PROVE  MutationInv'
<1>1. \A q \in Procs : q # p => pc[q] = "idle" /\ pc'[q] = "idle"
  BY DEF MutationInv, LockInv, TypeInv, HostOK
<1>2. pc'[p] = l
  BY DEF TypeInv, HostOK
<1>3. /\ JournalLoss => journal' # <<>>
      /\ Recorded => Recorded'
  <2>1. CASE journal' = journal
    BY <2>1 DEF MutationInv, LossInv, Recorded, Has, Corrupt, CorruptIn, HasIn
  <2>2. CASE \E e \in JournalEvent : Grows(e)
    BY <2>2, GrowsRecorded
  <2> QED BY <2>1, <2>2
<1>4. LockInv'
  BY <1>1, <1>2 DEF MutationInv, LockInv
<1>5. SubmitInv'
  BY <1>1, <1>2 DEF SubmitInv, BeforeSubmit
<1>6. DurableInv'
  BY <1>3 DEF MutationInv, DurableInv, LossInv
<1>7. LossInv'
  BY <1>1, <1>2, <1>3 DEF LossInv, EntryPc
<1> QED BY <1>4, <1>5, <1>6, <1>7 DEF MutationInv

\* JournalAppend and the two ways a step moves on, in QuietStep's terms
LEMMA AppendGrows ==
  ASSUME TypeInv, NEW e \in JournalEvent, NEW st \in RuntimeState \cup {"-"},
         JournalAppend(e, st)
  PROVE  \E x \in JournalEvent : Grows(x)
  BY JournalAppendGrows

\* Nothing has been submitted initially.
LEMMA InitMutation == Init => MutationInv
  BY DEF Init, MutationInv, LockInv, SubmitInv, DurableInv, LossInv,
         BeforeSubmit

\* execute() decides on what the journal and the database say.
LEMMA DispatchMutation ==
  ASSUME TypeInv, MutationInv, NEW p \in Procs,
         \/ ReplayTerminal(p) \/ ResumeSubmitted(p) \/ FailClosed(p)
         \/ Accept(p)
  PROVE  MutationInv'
<1>1. pc[p] = "execute" /\ submits' = submits /\ marker' = marker
  BY DEF ReplayTerminal, ResumeSubmitted, FailClosed, Accept, history, db
<1>2. \A q \in Procs : q # p => pc[q] = "idle"
  BY <1>1 DEF MutationInv, LockInv, TypeInv, HostOK
<1>3. CASE ReplayTerminal(p) \/ FailClosed(p)
  <2>1. /\ pc' = [pc EXCEPT ![p] = "idle"]
        /\ journal' = journal
    BY <1>3 DEF ReplayTerminal, FailClosed, Leave
  <2>2. \A q \in Procs : pc'[q] = "idle"
    BY <1>2, <2>1 DEF TypeInv, HostOK
  <2> QED BY <1>1, <2>1, <2>2
          DEF MutationInv, LockInv, SubmitInv, DurableInv, LossInv,
              BeforeSubmit, Recorded, Has, Corrupt, CorruptIn, HasIn
<1>4. CASE ResumeSubmitted(p)
  <2>1. /\ pc' = [pc EXCEPT ![p] = "recStart"]
        /\ journal' = journal /\ lock' = lock
        /\ Has("MUTATION_SUBMITTED")
    BY <1>4 DEF ResumeSubmitted, Goto
  <2>2. \A q \in Procs : pc'[q] = IF q = p THEN "recStart" ELSE "idle"
    BY <1>2, <2>1 DEF TypeInv, HostOK
  <2>3. journal # <<>>
    BY <2>1 DEF Has, HasIn
  <2> QED BY <1>1, <2>1, <2>2, <2>3
          DEF MutationInv, LockInv, SubmitInv, DurableInv, LossInv,
              BeforeSubmit, Recorded, Has, Corrupt, CorruptIn, HasIn
<1>5. CASE Accept(p)
  <2>1. /\ pc' = [pc EXCEPT ![p] = "plan"] /\ lock' = lock
        /\ ~Recorded /\ ~MissingJournal
        /\ JournalAppend("ATTEMPT_ACCEPTED", "-")
    BY <1>5 DEF Accept, Goto, Recorded
  <2>2. \A q \in Procs : pc'[q] = IF q = p THEN "plan" ELSE "idle"
    BY <1>2, <2>1 DEF TypeInv, HostOK
  <2>3. submits = 0
    BY <2>1 DEF MutationInv, DurableInv, MissingJournal
  <2>4. journal' # <<>>
    BY <2>1, AppendGrows, GrowsRecorded DEF JournalEvent
  <2> QED BY <1>1, <2>1, <2>2, <2>3, <2>4
          DEF MutationInv, LockInv, SubmitInv, DurableInv, LossInv
<1> QED BY <1>3, <1>4, <1>5

\* The way from acceptance to the start of the compose client.
LEMMA SubmitMutation ==
  ASSUME TypeInv, MutationInv, NEW p \in Procs,
         \/ ValidatePlan(p) \/ CollectResources(p) \/ RecordResource(p)
         \/ RecordMutationSubmitted(p) \/ JournalSubmission(p) \/ Submit(p)
  PROVE  MutationInv'
<1>1. pc[p] \in BeforeSubmit
  BY DEF ValidatePlan, CollectResources, RecordResource,
         RecordMutationSubmitted, JournalSubmission, Submit, BeforeSubmit
<1>2. submits = 0 /\ lock = p
  BY <1>1 DEF MutationInv, SubmitInv, LockInv, BeforeSubmit
<1>3. \A q \in Procs : q # p => pc[q] = "idle"
  BY <1>2 DEF MutationInv, LockInv
<1>4. JournalLoss => journal # <<>>
  BY <1>1 DEF MutationInv, LossInv, BeforeSubmit
<1>5. CASE ValidatePlan(p) \/ CollectResources(p)
  <2>1. PICK l \in {"collect", "resource", "idle"} :
           /\ pc' = [pc EXCEPT ![p] = l]
           /\ l = "idle" \/ lock' = lock
    BY <1>5 DEF ValidatePlan, CollectResources, Goto, Leave
  <2>2. journal' = journal /\ submits' = submits /\ marker' = marker
    BY <1>5 DEF ValidatePlan, CollectResources, history, db
  <2>3. \A q \in Procs : pc'[q] = IF q = p THEN l ELSE "idle"
    BY <1>3, <2>1 DEF TypeInv, HostOK
  <2> QED BY <1>2, <1>4, <2>1, <2>2, <2>3
          DEF MutationInv, LockInv, SubmitInv, DurableInv, LossInv
<1>6. CASE RecordResource(p)
  <2>1. PICK l \in {"marker", "disconnected"} : pc' = [pc EXCEPT ![p] = l]
    BY <1>6 DEF RecordResource, Goto
  <2>2. /\ journal' = journal /\ submits' = submits /\ marker' = marker
        /\ lock' = lock
    BY <1>6 DEF RecordResource, Goto, history, db
  <2>3. \A q \in Procs : pc'[q] = IF q = p THEN l ELSE "idle"
    BY <1>3, <2>1 DEF TypeInv, HostOK
  <2> QED BY <1>2, <1>4, <2>2, <2>3
          DEF MutationInv, LockInv, SubmitInv, DurableInv, LossInv
<1>7. CASE RecordMutationSubmitted(p)
  <2>1. \/ pc' = [pc EXCEPT ![p] = "journalSubmit"] /\ marker'
        \/ pc' = [pc EXCEPT ![p] = "disconnected"]
    BY <1>7, Zenon DEF RecordMutationSubmitted, Goto
  <2>2. journal' = journal /\ submits' = submits /\ lock' = lock
    BY <1>7, Zenon DEF RecordMutationSubmitted, Goto, history
  <2>3. PICK l \in {"journalSubmit", "disconnected"} :
           /\ \A q \in Procs : pc'[q] = IF q = p THEN l ELSE "idle"
           /\ l = "journalSubmit" => marker'
    BY <1>3, <2>1 DEF TypeInv, HostOK
  <2> QED BY <1>2, <1>4, <2>2, <2>3
          DEF MutationInv, LockInv, SubmitInv, DurableInv, LossInv,
              BeforeSubmit
<1>8. CASE JournalSubmission(p)
  <2>1. /\ pc' = [pc EXCEPT ![p] = "submit"] /\ lock' = lock
        /\ submits' = submits /\ marker' = marker
        /\ pc[p] = "journalSubmit"
        /\ JournalAppend("MUTATION_SUBMITTED", "-")
    BY <1>8 DEF JournalSubmission, Goto, history, db
  <2>2. \A q \in Procs : pc'[q] = IF q = p THEN "submit" ELSE "idle"
    BY <1>3, <2>1 DEF TypeInv, HostOK
  <2>3. journal' # <<>> /\ Recorded'
    BY <2>1, JournalAppendGrows, GrowsRecorded DEF JournalEvent
  <2>4. marker
    BY <2>1 DEF MutationInv, SubmitInv
  <2> QED BY <1>2, <2>1, <2>2, <2>3, <2>4
          DEF MutationInv, LockInv, SubmitInv, DurableInv, LossInv
<1>9. CASE Submit(p)
  <2>1. /\ pc' = [pc EXCEPT ![p] = "submitting"] /\ lock' = lock
        /\ submits' = 1 /\ marker' = marker /\ journal' = journal
        /\ pc[p] = "submit"
    BY <1>2, <1>9 DEF Submit, Goto, db
  <2>2. \A q \in Procs : pc'[q] = IF q = p THEN "submitting" ELSE "idle"
    BY <1>3, <2>1 DEF TypeInv, HostOK
  <2>3. marker /\ Recorded /\ Recorded'
    BY <2>1 DEF MutationInv, SubmitInv, Recorded, Has, Corrupt, CorruptIn, HasIn
  <2> QED BY <1>2, <1>4, <2>1, <2>2, <2>3
          DEF MutationInv, LockInv, SubmitInv, DurableInv, LossInv,
              BeforeSubmit
<1> QED BY <1>5, <1>6, <1>7, <1>8, <1>9

\* What follows the submission, reconciliation and takeover submit nothing.
LEMMA SettleMutation ==
  ASSUME TypeInv, MutationInv, NEW p \in Procs,
         \/ SubmitRaises(p) \/ SubmitAcknowledged(p) \/ SubmitFailed(p)
         \/ SubmitTimeout(p) \/ JournalCompletion(p)
         \/ Settle(p) \/ CycleRaises(p) \/ Takeover(p)
         \/ (LoadRaises(p) /\ pc[p] # "execute")
  PROVE  MutationInv'
<1> DEFINE After == {"idle", "submitting", "completed"} \cup SettlePc
                       \cup TakeoverPc
<1>0. \A l \in After : l \in Pc /\ l \notin BeforeSubmit /\ l \notin EntryPc
  BY DEF Pc, ExecutePc, SettlePc, TakeoverPc, BeforeSubmit, EntryPc
<1>1. pc[p] \notin {"idle", "execute"}
  BY DEF SubmitRaises, SubmitAcknowledged, SubmitFailed, SubmitTimeout,
         JournalCompletion, Settle, BeginReconcile, StartReconciliation,
         ObserveAndBranch, StartHealth, CycleObserves, CycleExpires,
         CycleRaises, ChecksPass, ChecksFail, CycleDone, HealthError,
         JournalHealth, JournalTerminal, RecordRuntimeResult,
         RecordRuntimeResultFails, JournalDisconnect, Takeover, BeginTakeover,
         FirstSnapshot, FirstClientCheck, SecondSnapshot, ProveQuiescence,
         GrantTakeover, LoadRaises, EntryPc
<1>2. submits' = submits /\ marker' = marker
  BY DEF SubmitRaises, SubmitAcknowledged, SubmitFailed, SubmitTimeout,
         JournalCompletion, Settle, BeginReconcile, StartReconciliation,
         ObserveAndBranch, StartHealth, CycleObserves, CycleExpires,
         CycleRaises, ChecksPass, ChecksFail, CycleDone, HealthError,
         JournalHealth, JournalTerminal, RecordRuntimeResult,
         RecordRuntimeResultFails, JournalDisconnect, Takeover, BeginTakeover,
         FirstSnapshot, FirstClientCheck, SecondSnapshot, ProveQuiescence,
         GrantTakeover, LoadRaises, history, db
<1>3. \E l \in After : /\ pc' = [pc EXCEPT ![p] = l]
                       /\ l = "idle" \/ lock' = lock
  <2>1. CASE ObserveAndBranch(p)
    BY <2>1 DEF ObserveAndBranch, AfterObservation, Goto, SettlePc
  <2>2. CASE StartHealth(p)
    BY <2>2 DEF StartHealth, Goto, Leave, SettlePc
  <2>3. CASE SubmitRaises(p) \/ SubmitAcknowledged(p) \/ SubmitFailed(p)
             \/ SubmitTimeout(p) \/ JournalCompletion(p) \/ LoadRaises(p)
    BY <2>3 DEF SubmitRaises, SubmitAcknowledged, SubmitFailed, SubmitTimeout,
                JournalCompletion, LoadRaises, Goto, Leave, SettlePc
  <2>4. CASE BeginReconcile(p) \/ StartReconciliation(p) \/ CycleObserves(p)
             \/ CycleExpires(p) \/ CycleRaises(p) \/ ChecksPass(p)
             \/ ChecksFail(p) \/ CycleDone(p) \/ HealthError(p)
             \/ JournalHealth(p) \/ JournalTerminal(p)
             \/ RecordRuntimeResult(p) \/ RecordRuntimeResultFails(p)
             \/ JournalDisconnect(p)
    BY <2>4 DEF BeginReconcile, StartReconciliation, CycleObserves,
                CycleExpires, CycleRaises, ChecksPass, ChecksFail, CycleDone,
                HealthError, JournalHealth, JournalTerminal,
                RecordRuntimeResult, RecordRuntimeResultFails,
                JournalDisconnect, Goto, Leave, SettlePc
  <2>5. CASE Takeover(p)
    BY <2>5 DEF Takeover, BeginTakeover, FirstSnapshot, FirstClientCheck,
                SecondSnapshot, ProveQuiescence, GrantTakeover,
                RefuseTakeover, Goto, Leave,
                TakeoverPc
  <2> QED BY <2>1, <2>2, <2>3, <2>4, <2>5 DEF Settle
<1>4. journal' = journal \/ \E e \in JournalEvent : Grows(e)
  <2>1. \A e \in JournalEvent : JournalAppend(e, "-") =>
                                   \E x \in JournalEvent : Grows(x)
    BY AppendGrows
  <2>2. JournalAppend("ATTEMPT_TERMINAL", outcome[p][2]) =>
           \E x \in JournalEvent : Grows(x)
    <3>1. outcome[p][2] \in RuntimeState
      BY DEF TypeInv, HostOK, Verdict
    <3> QED BY <3>1, AppendGrows DEF JournalEvent
  <2>3. \A e \in {"MUTATION_FAILED", "MUTATION_COMPLETED", "HEALTH_STARTED",
                  "HEALTH_PASSED", "HEALTH_FAILED", "RECONCILIATION_STARTED",
                  "RECONCILIATION_RESULT", "DB_DISCONNECTED"} :
           e \in JournalEvent
    BY DEF JournalEvent
  <2>4. CASE Settle(p) \/ CycleRaises(p)
    BY <2>1, <2>2, <2>3, <2>4
       DEF Settle, BeginReconcile, StartReconciliation, ObserveAndBranch,
           StartHealth, CycleObserves, CycleExpires, CycleRaises, ChecksPass,
           ChecksFail, CycleDone, HealthError, JournalHealth, JournalTerminal,
           RecordRuntimeResult, RecordRuntimeResultFails, JournalDisconnect
  <2>5. CASE Takeover(p)
    BY <2>1, <2>3, <2>5
       DEF Takeover, BeginTakeover, FirstSnapshot, FirstClientCheck,
           SecondSnapshot, ProveQuiescence, GrantTakeover, RefuseTakeover
  <2> QED BY <2>1, <2>3, <2>4, <2>5
          DEF SubmitRaises, SubmitAcknowledged, SubmitFailed, SubmitTimeout,
              JournalCompletion, LoadRaises
<1> QED BY <1>0, <1>1, <1>2, <1>3, <1>4, QuietStep

\* Where the journal may be lost, operators use nothing but execute().
ExecuteOnlyIfLossy == JournalLoss => EntryPoints \subseteq {"execute"}

\* Calls begin, fail to load and die; Docker, the clock and the loss of the
\* journal do not touch what the supervisor relies on.
LEMMA EnvironmentMutation ==
  ASSUME TypeInv, MutationInv, ExecuteOnlyIfLossy,
         \/ \E p \in Procs : \/ \E e \in EntryPoints : AcquireHostLock(p, e)
                             \/ HostLockBusy(p) \/ LoadRaises(p) \/ Unwind(p)
         \/ Docker \/ Tick \/ LoseJournal
  PROVE  MutationInv'
<1> USE DEF MutationInv
<1>1. ASSUME NEW p \in Procs, NEW e \in EntryPoints, AcquireHostLock(p, e)
      PROVE  MutationInv'
  <2>1. /\ e \in EntryPc /\ (JournalLoss => e = "execute")
        /\ lock' = p /\ pc' = [pc EXCEPT ![p] = e]
        /\ submits' = submits /\ marker' = marker /\ journal' = journal
    BY <1>1, SupervisorConstants
       DEF AcquireHostLock, ExecuteOnlyIfLossy, EntryPc, history, db
  <2>2. \A q \in Procs : pc[q] = "idle"
    BY <1>1, SupervisorConstants DEF AcquireHostLock, LockInv
  <2>3. \A q \in Procs : pc'[q] = IF q = p THEN e ELSE "idle"
    BY <2>1, <2>2 DEF TypeInv, HostOK
  <2>4. e \notin BeforeSubmit /\ e \notin {"journalSubmit", "submit"}
    BY <2>1 DEF EntryPc, BeforeSubmit
  <2>5. LockInv'
    BY <2>1, <2>3 DEF LockInv
  <2>6. SubmitInv'
    BY <2>1, <2>3, <2>4 DEF SubmitInv, BeforeSubmit
  <2>7. DurableInv'
    BY <2>1 DEF DurableInv, Recorded, Has, Corrupt, CorruptIn, HasIn
  <2>8. LossInv'
    BY <2>1, <2>3 DEF LossInv
  <2> QED BY <2>1, <2>5, <2>6, <2>7, <2>8
<1>2. ASSUME NEW p \in Procs, LoadRaises(p) \/ Unwind(p)
      PROVE  MutationInv'
  <2>1. /\ pc[p] # "idle" /\ lock' = Free
        /\ pc' = [pc EXCEPT ![p] = "idle"]
        /\ submits' = submits /\ marker' = marker
    BY <1>2 DEF LoadRaises, Unwind, Leave, EntryPc, history, db
  <2>2. \A q \in Procs : pc'[q] = "idle"
    BY <2>1 DEF LockInv, TypeInv, HostOK
  <2>3. \/ journal' = journal
        \/ Grows(Torn)
    <3>1. Row(Torn, "-") \in Record /\ Row(Torn, "-").event = Torn
      BY RowType DEF TypeInv, RestOK
    <3> QED BY <1>2, <3>1 DEF LoadRaises, Unwind, Grows
  <2>4. \/ journal' = journal /\ (Recorded => Recorded')
        \/ Recorded'
    <3>1. Grows(Torn) => Recorded'
      <4> SUFFICES ASSUME Grows(Torn) PROVE Recorded'
        OBVIOUS
      <4>1. PICK r \in Record : r.event = Torn /\ journal' = Append(journal, r)
        BY DEF Grows
      <4>2. HasIn(journal', Torn)
        BY <4>1, AppendHas DEF TypeInv, JournalOK
      <4> QED BY <4>2 DEF Recorded, Corrupt, CorruptIn
    <3> QED BY <2>3, <3>1 DEF Recorded, Has, Corrupt, CorruptIn, HasIn
  <2> QED BY <2>1, <2>2, <2>4
          DEF LockInv, SubmitInv, DurableInv, LossInv, BeforeSubmit
<1>3. CASE LoseJournal
  <2>1. /\ JournalLoss /\ lock = Free /\ journal' = <<>>
        /\ pc' = pc /\ lock' = lock /\ submits' = submits /\ marker' = marker
    BY <1>3 DEF LoseJournal, host, history, db
  <2>2. \A q \in Procs : pc'[q] = "idle"
    BY <2>1, SupervisorConstants DEF LockInv
  <2> QED BY <2>1, <2>2
          DEF LockInv, SubmitInv, DurableInv, LossInv, BeforeSubmit
<1>4. CASE (\E p \in Procs : HostLockBusy(p)) \/ Docker \/ Tick
  <2>1. /\ pc' = pc /\ lock' = lock /\ submits' = submits
        /\ marker' = marker /\ journal' = journal
    BY <1>4 DEF HostLockBusy, Docker, ComposeRecreates, ContainerSettles,
                ContainerFails, ClientExits, Tick, host, history, db
  <2> QED BY <2>1
          DEF LockInv, SubmitInv, DurableInv, LossInv, Recorded, Has, Corrupt,
              CorruptIn, HasIn
<1> QED BY <1>1, <1>2, <1>3, <1>4

\* Every step keeps MutationInv.
LEMMA StepMutation ==
  ASSUME ExecuteOnlyIfLossy
  PROVE  TypeInv /\ MutationInv /\ [Next]_vars => MutationInv'
<1> SUFFICES ASSUME TypeInv, MutationInv, [Next]_vars PROVE MutationInv'
  OBVIOUS
<1>1. CASE UNCHANGED vars
  BY <1>1 DEF vars, host, db, docker, history, MutationInv, LockInv, SubmitInv,
              DurableInv, LossInv, Recorded, Has, Corrupt, CorruptIn, HasIn
<1>2. CASE Next
  BY <1>2, DispatchMutation, SubmitMutation, SettleMutation,
     EnvironmentMutation DEF Next, Step, Execute
<1> QED BY <1>1, <1>2

\* The invariant behind the two theorems that follow.
THEOREM SupervisorMutationInv ==
  ASSUME ExecuteOnlyIfLossy
  PROVE  Spec => []MutationInv
  BY InitMutation, StepMutation, SupervisorTypeInv, PTL DEF Spec

\* The Docker mutation of an attempt is started at most once: with any
\* number of supervisors, calls, crashes, torn records and database
\* failures; with a journal that can be lost, if only execute() is used.
THEOREM MutationAtMostOnce ==
  ASSUME ExecuteOnlyIfLossy
  PROVE  Spec => []AtMostOneMutation
<1>1. MutationInv => AtMostOneMutation
  BY DEF MutationInv, AtMostOneMutation
<1> QED BY <1>1, SupervisorMutationInv, PTL

\* A started mutation is known to the database and to what is left of the
\* journal.
THEOREM MutationIsDurable ==
  ASSUME ExecuteOnlyIfLossy
  PROVE  Spec => []SubmissionIsDurable
<1>1. MutationInv => SubmissionIsDurable
  BY DEF MutationInv, DurableInv, Recorded, SubmissionIsDurable
<1> QED BY <1>1, SupervisorMutationInv, PTL

-----------------------------------------------------------------------------
(* The health window                                                       *)

\* The only window in use is the one the first anchor of the journal opens.
AnchoredInv ==
    \/ deadlines = {} /\ passedAt = {}
    \/ \E i \in Nat : /\ IsFirstAnchor(journal, i)
                      /\ deadlines = {journal[i].ts + HealthWindow}

WindowInv ==
    /\ AnchoredInv
    /\ \A p \in Procs : pc[p] \in {"cycle", "checks", "cycleDone"}
                            => deadline[p] \in deadlines
    /\ PassedInsideWindow

\* Appending keeps the first anchor and its timestamp.
LEMMA GrowsAnchored ==
  ASSUME TypeInv, NEW e, Grows(e), AnchoredInv,
         UNCHANGED <<deadlines, passedAt>>
  PROVE  AnchoredInv'
<1>1. PICK r \in Record : journal' = Append(journal, r)
  BY DEF Grows
<1>2. CASE deadlines = {} /\ passedAt = {}
  BY <1>2 DEF AnchoredInv
<1>3. ASSUME NEW i \in Nat, IsFirstAnchor(journal, i),
             deadlines = {journal[i].ts + HealthWindow}
      PROVE  AnchoredInv'
  <2>1. IsFirstAnchor(journal', i)
    BY <1>1, <1>3, AppendAnchor DEF TypeInv, JournalOK
  <2>2. journal'[i] = journal[i]
    BY <1>1, <1>3, AppendFacts DEF IsFirstAnchor, Anchors, TypeInv, JournalOK
  <2> QED BY <1>3, <2>1, <2>2 DEF AnchoredInv
<1> QED BY <1>2, <1>3 DEF AnchoredInv

\* The steps that neither open a window nor complete a health cycle.
LEMMA WindowFrame ==
  ASSUME TypeInv, WindowInv, NEW p \in Procs, NEW l,
         pc' = [pc EXCEPT ![p] = l],
         \/ l \notin {"cycle", "checks", "cycleDone"}
         \/ pc[p] \in {"cycle", "checks"} /\ deadline'[p] = deadline[p],
         \A q \in Procs : q # p => deadline'[q] = deadline[q],
         UNCHANGED <<deadlines, passedAt>>,
         journal' = journal \/ \E e \in JournalEvent \cup {Torn} : Grows(e)
  PROVE  WindowInv'
<1>1. AnchoredInv'
  <2>1. CASE journal' = journal
    BY <2>1 DEF WindowInv, AnchoredInv, IsFirstAnchor, Anchors
  <2>2. CASE \E e \in JournalEvent \cup {Torn} : Grows(e)
    BY <2>2, GrowsAnchored DEF WindowInv
  <2> QED BY <2>1, <2>2
<1>2. \A q \in Procs : pc'[q] = IF q = p THEN l ELSE pc[q]
  BY DEF TypeInv, HostOK
<1>3. \A q \in Procs : pc'[q] \in {"cycle", "checks", "cycleDone"}
                          => deadline'[q] \in deadlines'
  BY <1>2 DEF WindowInv
<1> QED BY <1>1, <1>3 DEF WindowInv, PassedInsideWindow

\* No window has been opened initially.
LEMMA InitWindow == Init => WindowInv
  BY DEF Init, WindowInv, AnchoredInv, PassedInsideWindow

\* _health_locked opens the first window or works with the one there is.
LEMMA StartHealthWindow ==
  ASSUME TypeInv, WindowInv, NEW p \in Procs, StartHealth(p)
  PROVE  WindowInv'
<1>1. Grows("HEALTH_STARTED") /\ JournalOK'
  BY JournalAppendGrows DEF StartHealth, JournalEvent
<1>2. CASE CorruptIn(journal')
  <2>1. /\ pc' = [pc EXCEPT ![p] = "idle"]
        /\ deadline' = [deadline EXCEPT ![p] = 0]
        /\ UNCHANGED <<deadlines, passedAt>>
    BY <1>2 DEF StartHealth, Leave
  <2>2. \A q \in Procs : q # p => deadline'[q] = deadline[q]
    BY <2>1 DEF TypeInv, HostOK
  <2> QED BY <1>1, <2>1, <2>2, WindowFrame DEF JournalEvent
<1>3. CASE ~CorruptIn(journal')
  <2> DEFINE end == FirstAnchor(journal') + HealthWindow
  <2>1. /\ pc' = [pc EXCEPT ![p] = "cycle"]
        /\ deadline' = [deadline EXCEPT ![p] = end]
        /\ deadlines' = deadlines \cup {end}
        /\ passedAt' = passedAt
    BY <1>3 DEF StartHealth, Goto
  <2>2. PICK i \in Nat : IsFirstAnchor(journal', i)
    BY <1>3, WindowEnd DEF StartHealth
  <2>3. end = journal'[i].ts + HealthWindow
    BY <1>1, <2>2, FirstAnchorIs DEF JournalOK
  <2>4. (deadlines = {} /\ passedAt = {}) \/ deadlines = {end}
    <3>1. PICK r \in Record : journal' = Append(journal, r)
      BY <1>1 DEF Grows
    <3>2. ASSUME NEW k \in Nat, IsFirstAnchor(journal, k),
                 deadlines = {journal[k].ts + HealthWindow}
          PROVE  deadlines = {end}
      <4>1. IsFirstAnchor(journal', k)
        BY <3>1, <3>2, AppendAnchor DEF TypeInv, JournalOK
      <4>2. k = i
        BY <2>2, <4>1 DEF IsFirstAnchor
      <4>3. journal'[k] = journal[k]
        BY <3>1, <3>2, AppendFacts
           DEF IsFirstAnchor, Anchors, TypeInv, JournalOK
      <4> QED BY <2>3, <3>2, <4>2, <4>3
    <3> QED BY <3>2 DEF WindowInv, AnchoredInv
  <2>5. deadlines' = {end} /\ (deadlines = {} => passedAt = {})
    BY <2>1, <2>4
  <2>6. AnchoredInv'
    BY <2>2, <2>3, <2>5 DEF AnchoredInv
  <2>7. \A q \in Procs : pc'[q] \in {"cycle", "checks", "cycleDone"}
                            => deadline'[q] \in deadlines'
    <3>1. \A q \in Procs : /\ q = p => deadline'[q] = end
                           /\ q # p => /\ deadline'[q] = deadline[q]
                                       /\ pc'[q] = pc[q]
      BY <2>1 DEF TypeInv, HostOK
    <3> QED BY <2>1, <2>5, <3>1 DEF WindowInv
  <2>8. PassedInsideWindow'
    BY <2>1, <2>4, <2>5 DEF WindowInv, PassedInsideWindow
  <2> QED BY <2>6, <2>7, <2>8 DEF WindowInv
<1> QED BY <1>2, <1>3

\* A cycle is compared with a deadline that is the only one there is.
LEMMA CycleDoneWindow ==
  ASSUME TypeInv, WindowInv, NEW p \in Procs, CycleDone(p)
  PROVE  WindowInv'
<1>1. /\ pc[p] = "cycleDone"
      /\ pc' = [pc EXCEPT ![p] = "verdict"]
      /\ journal' = journal /\ deadlines' = deadlines /\ deadline' = deadline
      /\ \/ passedAt' = passedAt
         \/ passedAt' = passedAt \cup {now} /\ now <= deadline[p]
  BY DEF CycleDone, Goto
<1>2. deadline[p] \in deadlines
  BY <1>1 DEF WindowInv
<1>3. AnchoredInv'
  BY <1>1, <1>2 DEF WindowInv, AnchoredInv, IsFirstAnchor, Anchors
<1>4. \A d \in deadlines : d = deadline[p]
  BY <1>2 DEF WindowInv, AnchoredInv
<1>5. PassedInsideWindow'
  BY <1>1, <1>4 DEF WindowInv, PassedInsideWindow
<1>6. \A q \in Procs : pc'[q] \in {"cycle", "checks", "cycleDone"}
                          => deadline'[q] \in deadlines'
  <2>1. \A q \in Procs : pc'[q] = IF q = p THEN "verdict" ELSE pc[q]
    BY <1>1 DEF TypeInv, HostOK
  <2> QED BY <1>1, <2>1 DEF WindowInv
<1> QED BY <1>3, <1>5, <1>6 DEF WindowInv

\* What a step of process p does to the window's state, StartHealth and
\* CycleDone apart.
OffWindow(p) ==
    /\ \E l : /\ pc' = [pc EXCEPT ![p] = l]
              /\ \/ l \notin {"cycle", "checks", "cycleDone"}
                 \/ pc[p] \in {"cycle", "checks"} /\ deadline' = deadline
    /\ deadline' = deadline \/ deadline' = [deadline EXCEPT ![p] = 0]
    /\ UNCHANGED <<deadlines, passedAt>>
    /\ journal' = journal \/ \E e \in JournalEvent \cup {Torn} : Grows(e)

\* A step off the window keeps WindowInv.
LEMMA OffWindowFrame ==
  ASSUME TypeInv, WindowInv, NEW p \in Procs, OffWindow(p)
  PROVE  WindowInv'
<1>1. \A q \in Procs : q # p => deadline'[q] = deadline[q]
  BY DEF OffWindow, TypeInv, HostOK
<1> QED BY <1>1, WindowFrame DEF OffWindow

\* Moving on is off the window, except into it ...
LEMMA GotoOff ==
  ASSUME NEW p \in Procs, NEW l, Goto(p, l),
         \/ l \notin {"cycle", "checks", "cycleDone"}
         \/ pc[p] \in {"cycle", "checks"},
         UNCHANGED <<deadline, deadlines, passedAt>>,
         journal' = journal \/ \E e \in JournalEvent \cup {Torn} : Grows(e)
  PROVE  OffWindow(p)
  BY DEF OffWindow, Goto

\* ... and so is leaving a call.
LEMMA LeaveOff ==
  ASSUME NEW p \in Procs, NEW v, Leave(p, v),
         UNCHANGED <<deadlines, passedAt>>,
         journal' = journal \/ \E e \in JournalEvent \cup {Torn} : Grows(e)
  PROVE  OffWindow(p)
<1>1. "idle" \notin {"cycle", "checks", "cycleDone"}
  OBVIOUS
<1> QED BY <1>1 DEF OffWindow, Leave

\* Every append of the supervisor lets the journal grow by a record.
LEMMA AppendsOff ==
  ASSUME TypeInv, NEW p \in Procs
  PROVE  /\ \A e \in JournalEvent : JournalAppend(e, "-") =>
                 \E x \in JournalEvent \cup {Torn} : Grows(x)
         /\ JournalAppend("ATTEMPT_TERMINAL", outcome[p][2]) =>
                 \E x \in JournalEvent \cup {Torn} : Grows(x)
         /\ journal' = Append(journal, Row(Torn, "-")) => Grows(Torn)
         /\ \A e \in {"ATTEMPT_ACCEPTED", "MUTATION_SUBMITTED",
                      "MUTATION_FAILED", "MUTATION_COMPLETED",
                      "HEALTH_PASSED", "HEALTH_FAILED",
                      "RECONCILIATION_STARTED", "RECONCILIATION_RESULT",
                      "DB_DISCONNECTED"} : e \in JournalEvent
<1>1. \A e \in JournalEvent : JournalAppend(e, "-") => Grows(e)
  BY JournalAppendGrows
<1>2. outcome[p][2] \in RuntimeState
  BY DEF TypeInv, HostOK, Verdict
<1>3. JournalAppend("ATTEMPT_TERMINAL", outcome[p][2]) =>
         Grows("ATTEMPT_TERMINAL")
  BY <1>2, JournalAppendGrows DEF JournalEvent
<1>4. Row(Torn, "-") \in Record /\ Row(Torn, "-").event = Torn
  BY RowType DEF TypeInv, RestOK
<1> QED BY <1>1, <1>3, <1>4 DEF JournalEvent, Grows

\* The steps of execute() are off the window ...
LEMMA ExecuteOff ==
  ASSUME TypeInv, NEW p \in Procs, Execute(p)
  PROVE  OffWindow(p)
<1> USE AppendsOff, GotoOff, LeaveOff DEF locals, history
<1>1. CASE ReplayTerminal(p) \/ ResumeSubmitted(p) \/ FailClosed(p)
           \/ ValidatePlan(p) \/ CollectResources(p) \/ RecordResource(p)
  BY <1>1 DEF ReplayTerminal, ResumeSubmitted, FailClosed, ValidatePlan,
              CollectResources, RecordResource
<1>2. CASE RecordMutationSubmitted(p)
  <2>1. \E l \in {"journalSubmit", "disconnected"} : pc' = [pc EXCEPT ![p] = l]
    BY <1>2, Zenon DEF RecordMutationSubmitted, Goto
  <2>2. /\ deadline' = deadline /\ journal' = journal
        /\ UNCHANGED <<deadlines, passedAt>>
    BY <1>2, Zenon DEF RecordMutationSubmitted
  <2> QED BY <2>1, <2>2 DEF OffWindow
<1>3. CASE Accept(p) \/ JournalSubmission(p) \/ JournalCompletion(p)
           \/ SubmitFailed(p)
  BY <1>3 DEF Accept, JournalSubmission, JournalCompletion, SubmitFailed
<1>4. CASE Submit(p) \/ SubmitRaises(p) \/ SubmitAcknowledged(p)
           \/ SubmitTimeout(p)
  BY <1>4 DEF Submit, SubmitRaises, SubmitAcknowledged, SubmitTimeout
<1> QED BY <1>1, <1>2, <1>3, <1>4 DEF Execute

\* ... those of _reconcile_locked and _health_locked are, two apart ...
LEMMA SettleOff ==
  ASSUME TypeInv, NEW p \in Procs, Settle(p) \/ CycleRaises(p),
         ~StartHealth(p), ~CycleDone(p)
  PROVE  OffWindow(p)
<1> USE AppendsOff, GotoOff, LeaveOff DEF locals, history
<1>1. CASE BeginReconcile(p) \/ CycleExpires(p) \/ CycleRaises(p)
           \/ RecordRuntimeResult(p) \/ RecordRuntimeResultFails(p)
  BY <1>1 DEF BeginReconcile, CycleExpires, CycleRaises, RecordRuntimeResult,
              RecordRuntimeResultFails
<1>2. CASE CycleObserves(p) \/ ChecksPass(p) \/ ChecksFail(p)
  BY <1>2 DEF CycleObserves, ChecksPass, ChecksFail
<1>3. CASE StartReconciliation(p) \/ HealthError(p) \/ JournalHealth(p)
           \/ JournalTerminal(p) \/ JournalDisconnect(p)
  BY <1>3 DEF StartReconciliation, HealthError, JournalHealth,
              JournalTerminal, JournalDisconnect
<1>4. CASE ObserveAndBranch(p)
  <2>1. \E l : /\ pc' = [pc EXCEPT ![p] = l]
               /\ l \in {"health", "terminal", "record"}
    BY <1>4 DEF ObserveAndBranch, AfterObservation, Goto
  <2>2. /\ deadline' = deadline /\ UNCHANGED <<deadlines, passedAt>>
        /\ \E x \in JournalEvent \cup {Torn} : Grows(x)
    BY <1>4 DEF ObserveAndBranch
  <2> QED BY <2>1, <2>2 DEF OffWindow
<1> QED BY <1>1, <1>2, <1>3, <1>4 DEF Settle

\* ... and so are takeovers and the beginning and end of a call.
LEMMA OtherOff ==
  ASSUME TypeInv, NEW p \in Procs,
         Takeover(p) \/ LoadRaises(p) \/ Unwind(p)
         \/ \E e \in EntryPoints : AcquireHostLock(p, e)
  PROVE  OffWindow(p)
<1> USE AppendsOff, GotoOff, LeaveOff DEF locals, history
<1>1. CASE Takeover(p)
  BY <1>1 DEF Takeover, BeginTakeover, FirstSnapshot, FirstClientCheck,
              SecondSnapshot, ProveQuiescence, GrantTakeover, RefuseTakeover
<1>2. CASE LoadRaises(p) \/ Unwind(p)
  BY <1>2 DEF LoadRaises, Unwind
<1>3. ASSUME NEW e \in EntryPoints, AcquireHostLock(p, e)
      PROVE  OffWindow(p)
  <2>1. e \notin {"cycle", "checks", "cycleDone"}
    BY SupervisorConstants
  <2> QED BY <1>3, <2>1 DEF AcquireHostLock, OffWindow
<1> QED BY <1>1, <1>2, <1>3

\* Every step keeps WindowInv as long as the journal is kept.
LEMMA StepWindow ==
  ASSUME JournalLoss = FALSE
  PROVE  TypeInv /\ WindowInv /\ [Next]_vars => WindowInv'
<1> SUFFICES ASSUME TypeInv, WindowInv, [Next]_vars PROVE WindowInv'
  OBVIOUS
<1>1. ASSUME NEW p \in Procs, Step(p) \/ CycleRaises(p) \/ Unwind(p)
                  \/ \E e \in EntryPoints : AcquireHostLock(p, e)
      PROVE  WindowInv'
  BY <1>1, ExecuteOff, SettleOff, OtherOff, OffWindowFrame,
     StartHealthWindow, CycleDoneWindow DEF Step
<1>2. CASE \/ UNCHANGED vars \/ Docker \/ Tick
           \/ \E p \in Procs : HostLockBusy(p)
  <2>1. UNCHANGED <<pc, deadline, deadlines, passedAt, journal>>
    BY <1>2 DEF vars, host, history, Docker, ComposeRecreates,
                ContainerSettles, ContainerFails, ClientExits, Tick,
                HostLockBusy, locals
  <2> QED BY <2>1 DEF WindowInv, AnchoredInv, PassedInsideWindow,
                      IsFirstAnchor, Anchors
<1>3. ~LoseJournal
  BY DEF LoseJournal
<1> QED BY <1>1, <1>2, <1>3 DEF Next

\* As long as the journal is kept, all health verifications of an attempt,
\* across any number of supervisor restarts, share one deadline.
THEOREM HealthWindowIsNeverExtended ==
  ASSUME JournalLoss = FALSE
  PROVE  Spec => []OneHealthWindow
<1>1. WindowInv => OneHealthWindow
  BY DEF WindowInv, AnchoredInv, OneHealthWindow
<1> QED BY <1>1, InitWindow, StepWindow, SupervisorTypeInv, PTL DEF Spec

\* As long as the journal is kept, no health cycle passes after the end of
\* the attempt's only window.
THEOREM HealthPassesInsideWindow ==
  ASSUME JournalLoss = FALSE
  PROVE  Spec => []PassedInsideWindow
<1>1. WindowInv => PassedInsideWindow
  BY DEF WindowInv
<1> QED BY <1>1, InitWindow, StepWindow, SupervisorTypeInv, PTL DEF Spec

-----------------------------------------------------------------------------
(* One supervisor in a call                                                *)

\* A step of process p in a call: p moves on or leaves, and what belongs to
\* the other processes stays.
Alone(p) ==
    /\ pc[p] # "idle"
    /\ \E l \in Pc : /\ pc' = [pc EXCEPT ![p] = l]
                     /\ l = "idle" \/ lock' = lock
    /\ \A q \in Procs : q # p => /\ ret'[q] = ret[q]
                                 /\ outcome'[q] = outcome[q]
                                 /\ seen'[q] = seen[q]

\* Moving on touches only what belongs to p.
LEMMA GotoAlone ==
  ASSUME TypeInv, NEW p \in Procs, NEW l \in Pc, pc[p] # "idle", Goto(p, l),
         outcome' = outcome \/ \E v : outcome' = [outcome EXCEPT ![p] = v],
         seen' = seen \/ \E v : seen' = [seen EXCEPT ![p] = v]
  PROVE  Alone(p)
  BY DEF Alone, Goto, TypeInv, HostOK

\* So does leaving a call.
LEMMA LeaveAlone ==
  ASSUME TypeInv, NEW p \in Procs, NEW v, pc[p] # "idle", Leave(p, v)
  PROVE  Alone(p)
<1>1. "idle" \in Pc
  BY DEF Pc
<1> QED BY <1>1 DEF Alone, Leave, TypeInv, HostOK

\* The steps of execute()
LEMMA ExecuteAlone ==
  ASSUME TypeInv, NEW p \in Procs, Execute(p)
  PROVE  Alone(p)
<1> USE PcValues, GotoAlone, LeaveAlone
    DEF locals, EntryPc, ExecutePc, SettlePc
<1>1. CASE ReplayTerminal(p) \/ ResumeSubmitted(p) \/ FailClosed(p)
           \/ Accept(p)
  BY <1>1 DEF ReplayTerminal, ResumeSubmitted, FailClosed, Accept
<1>2. CASE ValidatePlan(p) \/ CollectResources(p) \/ RecordResource(p)
  BY <1>2 DEF ValidatePlan, CollectResources, RecordResource
<1>3. CASE RecordMutationSubmitted(p)
  <2>1. \E l \in {"journalSubmit", "disconnected"} : Goto(p, l)
    BY <1>3, Zenon DEF RecordMutationSubmitted
  <2>2. pc[p] = "marker" /\ UNCHANGED locals
    BY <1>3, Zenon DEF RecordMutationSubmitted
  <2> QED BY <2>1, <2>2
<1>4. CASE JournalSubmission(p) \/ Submit(p) \/ SubmitRaises(p)
           \/ SubmitAcknowledged(p)
  BY <1>4 DEF JournalSubmission, Submit, SubmitRaises, SubmitAcknowledged
<1>5. CASE SubmitFailed(p) \/ SubmitTimeout(p) \/ JournalCompletion(p)
  BY <1>5 DEF SubmitFailed, SubmitTimeout, JournalCompletion
<1> QED BY <1>1, <1>2, <1>3, <1>4, <1>5 DEF Execute

\* The steps of reconciliation and health verification
LEMMA SettleAlone ==
  ASSUME TypeInv, NEW p \in Procs, Settle(p) \/ CycleRaises(p)
  PROVE  Alone(p)
<1> USE PcValues, GotoAlone, LeaveAlone DEF locals, SettlePc
<1>1. CASE BeginReconcile(p) \/ StartReconciliation(p) \/ CycleObserves(p)
           \/ CycleExpires(p) \/ CycleRaises(p) \/ ChecksPass(p)
  BY <1>1 DEF BeginReconcile, StartReconciliation, CycleObserves,
              CycleExpires, CycleRaises, ChecksPass
<1>2. CASE ChecksFail(p) \/ CycleDone(p) \/ HealthError(p)
           \/ JournalHealth(p) \/ JournalTerminal(p)
  BY <1>2 DEF ChecksFail, CycleDone, HealthError, JournalHealth,
              JournalTerminal
<1>3. CASE RecordRuntimeResult(p) \/ RecordRuntimeResultFails(p)
           \/ JournalDisconnect(p)
  BY <1>3 DEF RecordRuntimeResult, RecordRuntimeResultFails,
              JournalDisconnect
<1>4. CASE ObserveAndBranch(p)
  <2>1. \E l \in {"health", "terminal", "record"} : Goto(p, l)
    BY <1>4 DEF ObserveAndBranch, AfterObservation
  <2> QED BY <1>4, <2>1 DEF ObserveAndBranch
<1>5. CASE StartHealth(p)
  BY <1>5 DEF StartHealth
<1> QED BY <1>1, <1>2, <1>3, <1>4, <1>5 DEF Settle

\* The steps of the takeover proof, and the ways a call is cut short
LEMMA OtherAlone ==
  ASSUME TypeInv, NEW p \in Procs, Takeover(p) \/ LoadRaises(p) \/ Unwind(p)
  PROVE  Alone(p)
<1> USE PcValues, GotoAlone, LeaveAlone DEF locals, TakeoverPc
<1>1. CASE Takeover(p)
  BY <1>1 DEF Takeover, BeginTakeover, FirstSnapshot, FirstClientCheck,
              SecondSnapshot, ProveQuiescence, GrantTakeover, RefuseTakeover
<1>2. CASE LoadRaises(p) \/ Unwind(p)
  BY <1>2 DEF LoadRaises, Unwind, EntryPc
<1> QED BY <1>1, <1>2

\* Every step of a call is one of its process alone.
LEMMA StepAlone ==
  ASSUME TypeInv, NEW p \in Procs, Step(p) \/ CycleRaises(p) \/ Unwind(p)
  PROVE  Alone(p)
  BY ExecuteAlone, SettleAlone, OtherAlone DEF Step

\* The holder of the lock moves on alone, and the lock is free before a
\* call begins.
LEMMA StepLock == TypeInv /\ LockInv /\ [Next]_vars => LockInv'
<1> SUFFICES ASSUME TypeInv, LockInv, [Next]_vars PROVE LockInv'
  OBVIOUS
<1>1. ASSUME NEW p \in Procs, Step(p) \/ CycleRaises(p) \/ Unwind(p)
      PROVE  LockInv'
  <2>1. Alone(p)
    BY <1>1, StepAlone
  <2> QED BY <2>1 DEF Alone, LockInv, TypeInv, HostOK
<1>2. ASSUME NEW p \in Procs, NEW e \in EntryPoints, AcquireHostLock(p, e)
      PROVE  LockInv'
  BY <1>2, SupervisorConstants DEF AcquireHostLock, LockInv, TypeInv, HostOK
<1>3. CASE UNCHANGED vars \/ Docker \/ Tick \/ LoseJournal
           \/ \E p \in Procs : HostLockBusy(p)
  <2>1. UNCHANGED <<pc, lock>>
    BY <1>3 DEF vars, host, Docker, ComposeRecreates, ContainerSettles,
                ContainerFails, ClientExits, Tick, LoseJournal, HostLockBusy
  <2> QED BY <2>1 DEF LockInv
<1> QED BY <1>1, <1>2, <1>3 DEF Next

\* The flock admits one supervisor process to an entry point at a time,
\* whichever entry points are used and whatever is lost.
THEOREM OneSupervisor == Spec => []LockInv
<1>1. Init => LockInv
  BY DEF Init, LockInv
<1> QED BY <1>1, StepLock, SupervisorTypeInv, PTL DEF Spec

-----------------------------------------------------------------------------
(* Takeover only when quiescent                                            *)

\* What the two snapshots and the event stream say of the containers: no
\* container was changing in the snapshot, and it still is what Docker has
\* as long as no event came after it was confirmed.  A client that was not
\* active at the last check cannot start while the host lock is held.
QuietInv ==
    \A p \in Procs :
        /\ pc[p] \in {"tkObserveAgain", "tkProve"} => ~Transitional(seen[p])
        /\ pc[p] = "tkProve" /\ ~events => containers = seen[p]
        /\ pc[p] = "tkGrant" => ~client

\* The labels at which QuietInv says something
QuietPc == {"tkObserveAgain", "tkProve", "tkGrant"}

\* The steps after which p has no confirmed snapshot
LEMMA QuietOff ==
  ASSUME TypeInv, LockInv, NEW p \in Procs, Alone(p),
         pc'[p] \notin QuietPc
  PROVE  QuietInv'
<1>1. \A q \in Procs : q # p => pc'[q] = "idle"
  BY DEF Alone, LockInv, TypeInv, HostOK
<1> QED BY <1>1 DEF QuietInv, QuietPc

\* Where every container can be inspected, a snapshot is what Docker has.
LEMMA ObservedExactly ==
  ASSUME TypeInv, InspectLoss = FALSE, NEW o \in Observations(containers)
  PROVE  o = containers
<1>1. /\ o \in [Services -> ContainerState]
      /\ \A s \in Services : o[s] = containers[s]
  BY DEF Observations
<1> QED BY <1>1 DEF TypeInv, RestOK

\* The labels a step leaves a process with, apart from the takeover's
LEMMA OffTakeover ==
  ASSUME TypeInv, NEW p \in Procs,
         Execute(p) \/ Settle(p) \/ CycleRaises(p) \/ LoadRaises(p)
         \/ Unwind(p)
  PROVE  pc'[p] \notin QuietPc
<1> USE DEF QuietPc
<1>1. \A l : pc' = [pc EXCEPT ![p] = l] => pc'[p] = l
  BY DEF TypeInv, HostOK
<1>2. /\ \A l : Goto(p, l) => pc'[p] = l
      /\ \A v : Leave(p, v) => pc'[p] = "idle"
  BY <1>1 DEF Goto, Leave
<1>3. CASE Execute(p)
  <2>1. CASE RecordMutationSubmitted(p)
    <3>1. \E l \in {"journalSubmit", "disconnected"} : Goto(p, l)
      BY <2>1, Zenon DEF RecordMutationSubmitted
    <3> QED BY <1>2, <3>1
  <2>2. CASE ~RecordMutationSubmitted(p)
    BY <1>2, <1>3, <2>2
       DEF Execute, ReplayTerminal, ResumeSubmitted, FailClosed, Accept,
           ValidatePlan, CollectResources, RecordResource, JournalSubmission,
           Submit, SubmitRaises, SubmitAcknowledged, SubmitFailed,
           SubmitTimeout, JournalCompletion
  <2> QED BY <2>1, <2>2
<1>4. CASE Settle(p) \/ CycleRaises(p)
  <2>1. CASE ObserveAndBranch(p)
    <3>1. \E l \in {"health", "terminal", "record"} : Goto(p, l)
      BY <2>1 DEF ObserveAndBranch, AfterObservation
    <3> QED BY <1>2, <3>1
  <2>2. CASE StartHealth(p)
    BY <1>2, <2>2 DEF StartHealth
  <2>3. CASE ~ObserveAndBranch(p) /\ ~StartHealth(p)
    BY <1>2, <1>4, <2>3
       DEF Settle, BeginReconcile, StartReconciliation, CycleObserves,
           CycleExpires, CycleRaises, ChecksPass, ChecksFail, CycleDone,
           HealthError, JournalHealth, JournalTerminal, RecordRuntimeResult,
           RecordRuntimeResultFails, JournalDisconnect
  <2> QED BY <2>1, <2>2, <2>3
<1>5. CASE LoadRaises(p) \/ Unwind(p)
  BY <1>2, <1>5 DEF LoadRaises, Unwind
<1> QED BY <1>3, <1>4, <1>5

\* The takeover's own steps: the second snapshot confirms the first.
LEMMA TakeoverQuiet ==
  ASSUME TypeInv, LockInv, QuietInv, InspectLoss = FALSE, NEW p \in Procs,
         Takeover(p)
  PROVE  QuietInv'
<1>1. Alone(p)
  BY OtherAlone
<1>2. \A q \in Procs : q # p => pc'[q] = "idle"
  BY <1>1 DEF Alone, LockInv, TypeInv, HostOK
<1>3. CASE pc'[p] \notin QuietPc
  BY <1>1, <1>3, QuietOff
<1>4. ASSUME pc'[p] \in QuietPc
      PROVE  \/ /\ FirstClientCheck(p) /\ pc'[p] = "tkObserveAgain"
                /\ ~Transitional(seen[p]) /\ seen' = seen
             \/ /\ SecondSnapshot(p) /\ pc'[p] = "tkProve"
                /\ ~Transitional(seen[p]) /\ seen' = seen
                /\ seen[p] \in Observations(containers)
                /\ containers' = containers
             \/ /\ ProveQuiescence(p) /\ pc'[p] = "tkGrant"
                /\ ~client /\ client' = client
  <2>1. /\ \A l : Goto(p, l) => pc'[p] = l
        /\ \A v : Leave(p, v) => pc'[p] = "idle"
    BY DEF TypeInv, HostOK, Goto, Leave
  <2> QED BY <1>4, <2>1
          DEF Takeover, BeginTakeover, FirstSnapshot, FirstClientCheck,
              SecondSnapshot, ProveQuiescence, GrantTakeover,
              RefuseTakeover, NoClientSeen, locals, docker, QuietPc
<1>5. CASE FirstClientCheck(p) /\ pc'[p] = "tkObserveAgain"
           /\ ~Transitional(seen[p]) /\ seen' = seen
  <2>1. ~Transitional(seen'[p])
    BY <1>5
  <2> QED BY <1>2, <1>5, <2>1 DEF QuietInv, Transitional, Selected
<1>6. CASE SecondSnapshot(p) /\ pc'[p] = "tkProve"
           /\ ~Transitional(seen[p]) /\ seen' = seen
           /\ seen[p] \in Observations(containers)
           /\ containers' = containers
  <2>1. seen'[p] = containers'
    BY <1>6, ObservedExactly
  <2>2. ~Transitional(seen'[p])
    BY <1>6
  <2> QED BY <1>2, <1>6, <2>1, <2>2 DEF QuietInv, Transitional, Selected
<1>7. CASE ProveQuiescence(p) /\ pc'[p] = "tkGrant" /\ ~client
           /\ client' = client
  BY <1>2, <1>7 DEF QuietInv
<1> QED BY <1>3, <1>4, <1>5, <1>6, <1>7

\* An event between the snapshots does not go unnoticed.
LEMMA DockerQuiet ==
  ASSUME TypeInv, QuietInv, Docker
  PROVE  QuietInv'
<1>1. pc' = pc /\ seen' = seen
  BY DEF Docker, ComposeRecreates, ContainerSettles, ContainerFails,
         ClientExits, host
<1>2. ASSUME NEW p \in Procs, pc[p] = "tkProve", ~events'
      PROVE  containers' = seen[p]
  <2>1. Watching
    BY <1>2 DEF Watching
  <2>2. ~DockerEvent
    BY <1>2, <2>1 DEF DockerEvent
  <2>3. containers' = containers /\ events' = events
    BY <2>2 DEF Docker, ComposeRecreates, ContainerSettles, ContainerFails,
                ClientExits
  <2> QED BY <1>2, <2>3 DEF QuietInv
<1>3. \A p \in Procs : pc[p] \in {"tkObserveAgain", "tkProve"}
                          => ~Transitional(seen'[p])
  BY <1>1 DEF QuietInv
<1>4. client' => client
  BY DEF Docker, ComposeRecreates, ContainerSettles, ContainerFails,
         ClientExits
<1> QED BY <1>1, <1>2, <1>3, <1>4 DEF QuietInv, Transitional, Selected

\* Every step keeps QuietInv where containers can be inspected.
LEMMA StepQuiet ==
  ASSUME InspectLoss = FALSE
  PROVE  TypeInv /\ LockInv /\ QuietInv /\ [Next]_vars => QuietInv'
<1> SUFFICES ASSUME TypeInv, LockInv, QuietInv, [Next]_vars PROVE QuietInv'
  OBVIOUS
<1>1. ASSUME NEW p \in Procs, Step(p) \/ CycleRaises(p) \/ Unwind(p)
      PROVE  QuietInv'
  BY <1>1, StepAlone, QuietOff, OffTakeover, TakeoverQuiet DEF Step
<1>2. ASSUME NEW p \in Procs, NEW e \in EntryPoints, AcquireHostLock(p, e)
      PROVE  QuietInv'
  <2>1. \A q \in Procs : pc[q] = "idle"
    BY <1>2, SupervisorConstants DEF AcquireHostLock, LockInv
  <2>2. \A q \in Procs : pc'[q] \notin QuietPc
    BY <1>2, <2>1, SupervisorConstants
       DEF AcquireHostLock, TypeInv, HostOK, QuietPc
  <2> QED BY <2>2 DEF QuietInv, QuietPc
<1>3. CASE UNCHANGED vars \/ Tick \/ LoseJournal
           \/ \E p \in Procs : HostLockBusy(p)
  <2>1. UNCHANGED <<pc, seen, containers, client, events>>
    BY <1>3 DEF vars, host, docker, Tick, LoseJournal, HostLockBusy, locals
  <2> QED BY <2>1 DEF QuietInv, Transitional, Selected
<1> QED BY <1>1, <1>2, <1>3, DockerQuiet DEF Next

\* Only a step of its own takes a process out of a call or on in it.
LEMMA OwnStep ==
  ASSUME TypeInv, LockInv, [Next]_vars, NEW p \in Procs,
         pc[p] # "idle", pc'[p] # pc[p]
  PROVE  Step(p) \/ CycleRaises(p) \/ Unwind(p)
<1>1. lock = p
  BY DEF LockInv
<1>2. ASSUME NEW q \in Procs, Step(q) \/ CycleRaises(q) \/ Unwind(q)
      PROVE  q = p
  BY <1>1, <1>2, StepAlone DEF Alone, LockInv
<1>3. \E q \in Procs : Step(q) \/ CycleRaises(q) \/ Unwind(q)
  <2>1. pc' # pc
    OBVIOUS
  <2>2. ~Docker /\ ~Tick /\ ~LoseJournal /\ ~UNCHANGED vars
        /\ \A q \in Procs : ~HostLockBusy(q)
    BY <2>1 DEF vars, host, Docker, ComposeRecreates, ContainerSettles,
                ContainerFails, ClientExits, Tick, LoseJournal, HostLockBusy
  <2>3. \A q \in Procs, e \in EntryPoints : ~AcquireHostLock(q, e)
    BY <1>1, SupervisorConstants DEF AcquireHostLock
  <2> QED BY <2>2, <2>3 DEF Next
<1> QED BY <1>2, <1>3

\* Where every container and the clients can be inspected, the takeover
\* proof is sound: it succeeds only when no compose client is active and no
\* container is being changed, though the containers, the client and the
\* events are looked at one after the other, and no client is active when
\* the answer is returned (prove_quiescent_takeover).
THEOREM TakeoverIsQuiescent ==
  ASSUME InspectLoss = FALSE
  PROVE  Spec => TakeoverOnlyWhenQuiescent
<1> DEFINE Granted ==
       \A p \in Procs :
          /\ pc[p] = "tkProve" /\ pc'[p] = "tkGrant"
                 => ~client /\ ~Transitional(containers)
          /\ pc[p] = "tkGrant" /\ ret'[p] = "safe" /\ pc'[p] = "idle"
                 => ~client
<1>1. TypeInv /\ LockInv /\ QuietInv /\ [Next]_vars => [Granted]_vars
  <2> SUFFICES ASSUME TypeInv, LockInv, QuietInv, [Next]_vars
               PROVE  Granted
    OBVIOUS
  <2>1. ASSUME NEW p \in Procs, pc[p] = "tkProve", pc'[p] = "tkGrant"
        PROVE  ~client /\ ~Transitional(containers)
    <3>1. Step(p) \/ CycleRaises(p) \/ Unwind(p)
      BY <2>1, OwnStep
    <3>2. Takeover(p)
      BY <2>1, <3>1, OffTakeover DEF Step, QuietPc
    <3>3. ProveQuiescence(p)
      BY <2>1, <3>2
         DEF Takeover, BeginTakeover, FirstSnapshot, FirstClientCheck,
             SecondSnapshot, GrantTakeover
    <3>4. \A v : Leave(p, v) => pc'[p] = "idle"
      BY DEF Leave, TypeInv, HostOK
    <3>5. ~client /\ ~events
      BY <2>1, <3>3, <3>4 DEF ProveQuiescence, RefuseTakeover, NoClientSeen
    <3>6. containers = seen[p] /\ ~Transitional(seen[p])
      BY <2>1, <3>5 DEF QuietInv
    <3> QED BY <3>5, <3>6
  <2>2. ASSUME NEW p \in Procs, pc[p] = "tkGrant"
        PROVE  ~client
    BY <2>2 DEF QuietInv
  <2> QED BY <2>1, <2>2
<1>2. Init => QuietInv
  BY DEF Init, QuietInv
<1>3. Spec => [](TypeInv /\ LockInv /\ QuietInv)
  BY <1>2, StepQuiet, SupervisorTypeInv, OneSupervisor, PTL DEF Spec
<1> QED BY <1>1, <1>3, PTL DEF Spec, TakeoverOnlyWhenQuiescent

-----------------------------------------------------------------------------
(* Verdicts                                                                *)

Final == {"healthy", "failed"}

\* The journal stays, or gets a record that is no verdict.
NoVerdictAdded ==
    \/ journal' = journal
    \/ \E r \in Record : /\ r.event # "ATTEMPT_TERMINAL"
                         /\ r.state = "-"
                         /\ journal' = Append(journal, r)

\* A step of p that neither finds, journals, records nor reports a verdict.
Plain(p) ==
    /\ \/ pc'[p] \notin {"verdict", "terminal", "record"}
       \/ pc[p] = "verdict" /\ pc'[p] = "terminal" /\ outcome' = outcome
    /\ outcome' = outcome \/ outcome' = [outcome EXCEPT ![p] = NoOutcome]
    /\ ret' = ret \/ \E v : v \notin Final /\ ret' = [ret EXCEPT ![p] = v]
    /\ results' = results
    /\ passedAt' = passedAt
    /\ NoVerdictAdded

\* The steps at which a verdict is found, journalled, recorded or reported
Speaks(p) ==
    \/ ReplayTerminal(p) \/ SubmitFailed(p) \/ ObserveAndBranch(p)
    \/ CycleDone(p) \/ HealthError(p) \/ JournalTerminal(p)
    \/ RecordRuntimeResult(p) \/ RecordRuntimeResultFails(p)

\* Records of every event but ATTEMPT_TERMINAL carry no state.
LEMMA AppendPlain ==
  ASSUME TypeInv
  PROVE  /\ \A e \in JournalEvent \ {"ATTEMPT_TERMINAL"} :
               JournalAppend(e, "-") => NoVerdictAdded
         /\ journal' = Append(journal, Row(Torn, "-")) => NoVerdictAdded
         /\ journal' = journal => NoVerdictAdded
         /\ \A e \in {"ATTEMPT_ACCEPTED", "MUTATION_SUBMITTED",
                      "MUTATION_FAILED", "MUTATION_COMPLETED",
                      "HEALTH_STARTED", "HEALTH_PASSED", "HEALTH_FAILED",
                      "RECONCILIATION_STARTED", "RECONCILIATION_RESULT",
                      "DB_DISCONNECTED"} :
               e \in JournalEvent \ {"ATTEMPT_TERMINAL"}
<1>1. \A e \in JournalEvent \cup {Torn} :
         Row(e, "-") \in Record /\ Row(e, "-").event = e
  BY RowType DEF TypeInv, RestOK
<1>2. \A e : Row(e, "-").state = "-"
  BY DEF Row
<1>3. Torn # "ATTEMPT_TERMINAL"
  BY DEF Torn
<1> QED BY <1>1, <1>2, <1>3 DEF JournalAppend, NoVerdictAdded, JournalEvent

\* Moving on says nothing, unless towards a verdict ...
LEMMA GotoPlain ==
  ASSUME TypeInv, NEW p \in Procs, NEW l, Goto(p, l),
         \/ l \notin {"verdict", "terminal", "record"}
         \/ pc[p] = "verdict" /\ l = "terminal",
         UNCHANGED <<outcome, results, passedAt>>, NoVerdictAdded
  PROVE  Plain(p)
  BY DEF Plain, Goto, TypeInv, HostOK

\* ... and neither does leaving without one.
LEMMA LeavePlain ==
  ASSUME TypeInv, NEW p \in Procs, NEW v, Leave(p, v), v \notin Final,
         UNCHANGED <<results, passedAt>>, NoVerdictAdded
  PROVE  Plain(p)
<1>1. pc'[p] = "idle"
  BY DEF Leave, TypeInv, HostOK
<1> QED BY <1>1 DEF Plain, Leave

\* The steps of execute() that do not speak are plain ...
LEMMA ExecutePlain ==
  ASSUME TypeInv, NEW p \in Procs, Execute(p), ~Speaks(p)
  PROVE  Plain(p)
<1> USE AppendPlain, GotoPlain, LeavePlain DEF locals, history, db, Final
<1>1. CASE ResumeSubmitted(p) \/ FailClosed(p) \/ Accept(p)
  BY <1>1 DEF ResumeSubmitted, FailClosed, Accept
<1>2. CASE ValidatePlan(p) \/ CollectResources(p) \/ RecordResource(p)
  BY <1>2 DEF ValidatePlan, CollectResources, RecordResource
<1>3. CASE RecordMutationSubmitted(p)
  <2>1. \E l \in {"journalSubmit", "disconnected"} : Goto(p, l)
    BY <1>3, Zenon DEF RecordMutationSubmitted
  <2>2. UNCHANGED <<outcome, results, passedAt, journal>>
    BY <1>3, Zenon DEF RecordMutationSubmitted
  <2> QED BY <2>1, <2>2
<1>4. CASE JournalSubmission(p) \/ Submit(p) \/ SubmitRaises(p)
           \/ SubmitAcknowledged(p) \/ SubmitTimeout(p)
           \/ JournalCompletion(p)
  BY <1>4 DEF JournalSubmission, Submit, SubmitRaises, SubmitAcknowledged,
              SubmitTimeout, JournalCompletion
<1> QED BY <1>1, <1>2, <1>3, <1>4 DEF Execute, Speaks

\* ... and those of _reconcile_locked and _health_locked ...
LEMMA SettlePlain ==
  ASSUME TypeInv, NEW p \in Procs, Settle(p) \/ CycleRaises(p), ~Speaks(p)
  PROVE  Plain(p)
<1> USE AppendPlain, GotoPlain, LeavePlain DEF locals, history, db, Final
<1>1. CASE BeginReconcile(p) \/ StartReconciliation(p) \/ CycleObserves(p)
           \/ CycleExpires(p) \/ CycleRaises(p)
  BY <1>1 DEF BeginReconcile, StartReconciliation, CycleObserves,
              CycleExpires, CycleRaises
<1>2. CASE ChecksPass(p) \/ ChecksFail(p) \/ JournalDisconnect(p)
  BY <1>2 DEF ChecksPass, ChecksFail, JournalDisconnect
<1>3. CASE StartHealth(p)
  BY <1>3 DEF StartHealth
<1>4. CASE JournalHealth(p)
  BY <1>4 DEF JournalHealth
<1> QED BY <1>1, <1>2, <1>3, <1>4 DEF Settle, Speaks

\* ... and takeovers and the beginning and end of a call.
LEMMA OtherPlain ==
  ASSUME TypeInv, NEW p \in Procs,
         Takeover(p) \/ LoadRaises(p) \/ Unwind(p)
         \/ \E e \in EntryPoints : AcquireHostLock(p, e)
  PROVE  Plain(p)
<1> USE AppendPlain, GotoPlain, LeavePlain DEF locals, history, db, Final
<1>1. CASE BeginTakeover(p) \/ FirstSnapshot(p) \/ SecondSnapshot(p)
  BY <1>1 DEF BeginTakeover, FirstSnapshot, SecondSnapshot, RefuseTakeover
<1>2. CASE FirstClientCheck(p) \/ ProveQuiescence(p) \/ GrantTakeover(p)
  BY <1>2 DEF FirstClientCheck, ProveQuiescence, GrantTakeover, RefuseTakeover
<1>3. CASE LoadRaises(p) \/ Unwind(p)
  BY <1>3 DEF LoadRaises, Unwind
<1>4. ASSUME NEW e \in EntryPoints, AcquireHostLock(p, e)
      PROVE  Plain(p)
  <2>1. pc'[p] = e /\ e \notin {"verdict", "terminal", "record"}
    BY <1>4, SupervisorConstants DEF AcquireHostLock, TypeInv, HostOK
  <2> QED BY <1>4, <2>1 DEF AcquireHostLock, Plain
<1> QED BY <1>1, <1>2, <1>3, <1>4 DEF Takeover

\* Every step of a process speaks or is plain.
LEMMA StepPlain ==
  ASSUME TypeInv, NEW p \in Procs,
         Step(p) \/ CycleRaises(p) \/ Unwind(p)
         \/ \E e \in EntryPoints : AcquireHostLock(p, e)
  PROVE  Speaks(p) \/ Plain(p)
  BY ExecutePlain, SettlePlain, OtherPlain DEF Step

\* What a terminal journal is read back as is a verdict that is in it.
LEMMA TerminalStateIs ==
  ASSUME NEW j, TerminalState(j) \in Final
  PROVE  \E i \in TerminalsOf(j) : j[i].state = TerminalState(j)
<1>1. PICK i \in TerminalsOf(j) : TerminalsOf(j) = {i}
  BY DEF TerminalState, Final
<1>2. (CHOOSE k \in TerminalsOf(j) : TRUE) = i
  BY <1>1
<1>3. TerminalState(j) = j[i].state
  BY <1>2 DEF TerminalState, Final
<1> QED BY <1>3

\* While no health cycle has passed, HEALTHY is nowhere: not in a process
\* that is about to record its outcome either.
EarnedInv ==
    passedAt = {} =>
        /\ \A p \in Procs : ret[p] # "healthy" /\ outcome[p][2] # "healthy"
        /\ \A r \in results : r[2] # "healthy"
        /\ \A i \in DOMAIN journal : journal[i].state # "healthy"

\* A journal without HEALTHY grows by a record without it.
LEMMA AppendUnearned ==
  ASSUME NEW j \in Seq(Record), NEW r \in Record, r.state # "healthy",
         \A i \in DOMAIN j : j[i].state # "healthy"
  PROVE  \A i \in DOMAIN Append(j, r) : Append(j, r)[i].state # "healthy"
<1>1. \A i \in DOMAIN Append(j, r) : i \in DOMAIN j \/ i = Len(j) + 1
  BY AppendFacts
<1> QED BY <1>1, AppendFacts

\* A plain step makes up no HEALTHY.
LEMMA PlainEarned ==
  ASSUME TypeInv, EarnedInv, NEW p \in Procs, Plain(p)
  PROVE  EarnedInv'
<1> SUFFICES ASSUME passedAt' = {}
             PROVE  /\ \A q \in Procs : /\ ret'[q] # "healthy"
                                        /\ outcome'[q][2] # "healthy"
                    /\ \A r \in results' : r[2] # "healthy"
                    /\ \A i \in DOMAIN journal' :
                          journal'[i].state # "healthy"
  BY DEF EarnedInv
<1>1. passedAt = {} /\ results' = results
  BY DEF Plain
<1>2. \A q \in Procs : ret'[q] # "healthy"
  <2>1. \A q \in Procs : ret[q] # "healthy"
    BY <1>1 DEF EarnedInv
  <2>2. ret' = ret \/ \E v : v # "healthy" /\ ret' = [ret EXCEPT ![p] = v]
    BY DEF Plain, Final
  <2> QED BY <2>1, <2>2 DEF TypeInv, HostOK
<1>3. \A q \in Procs : outcome'[q][2] # "healthy"
  <2>1. \A q \in Procs : outcome[q][2] # "healthy"
    BY <1>1 DEF EarnedInv
  <2>2. outcome' = outcome \/ outcome' = [outcome EXCEPT ![p] = NoOutcome]
    BY DEF Plain
  <2> QED BY <2>1, <2>2 DEF NoOutcome, TypeInv, HostOK
<1>4. \A i \in DOMAIN journal' : journal'[i].state # "healthy"
  <2>1. CASE journal' = journal
    BY <1>1, <2>1 DEF EarnedInv
  <2>2. ASSUME NEW r \in Record, r.state = "-",
               journal' = Append(journal, r)
        PROVE  \A i \in DOMAIN journal' : journal'[i].state # "healthy"
    BY <1>1, <2>2, AppendUnearned DEF EarnedInv, TypeInv, JournalOK
  <2> QED BY <2>1, <2>2 DEF Plain, NoVerdictAdded
<1> QED BY <1>1, <1>2, <1>3, <1>4 DEF EarnedInv

\* observe() never finds containers healthy by itself.
LEMMA ObserveNeverHealthy ==
  ASSUME NEW c
  PROVE  Observe(c) # "healthy"
  BY DEF Observe

\* A step that speaks says HEALTHY only if somebody has found it so.
LEMMA SpeaksEarned ==
  ASSUME TypeInv, EarnedInv, NEW p \in Procs, Speaks(p)
  PROVE  EarnedInv'
<1> SUFFICES ASSUME passedAt' = {}
             PROVE  /\ \A q \in Procs : /\ ret'[q] # "healthy"
                                        /\ outcome'[q][2] # "healthy"
                    /\ \A r \in results' : r[2] # "healthy"
                    /\ \A i \in DOMAIN journal' :
                          journal'[i].state # "healthy"
  BY DEF EarnedInv
<1>1. passedAt = {}
  BY DEF Speaks, ReplayTerminal, SubmitFailed, ObserveAndBranch, CycleDone,
         HealthError, JournalTerminal, RecordRuntimeResult,
         RecordRuntimeResultFails, history
<1>2. /\ \A q \in Procs : ret[q] # "healthy" /\ outcome[q][2] # "healthy"
      /\ \A r \in results : r[2] # "healthy"
      /\ \A i \in DOMAIN journal : journal[i].state # "healthy"
  BY <1>1 DEF EarnedInv
<1>3. /\ \A o : outcome' = [outcome EXCEPT ![p] = o] /\ o[2] # "healthy" =>
                   \A q \in Procs : outcome'[q][2] # "healthy"
      /\ \A v : ret' = [ret EXCEPT ![p] = v] /\ v # "healthy" =>
                   \A q \in Procs : ret'[q] # "healthy"
  BY <1>2 DEF TypeInv, HostOK
<1>4. /\ \A v : Leave(p, v) /\ v # "healthy" =>
                   \A q \in Procs : /\ ret'[q] # "healthy"
                                    /\ outcome'[q][2] # "healthy"
      /\ \A l : Goto(p, l) => \A q \in Procs : ret'[q] # "healthy"
  BY <1>2, <1>3 DEF Leave, Goto, NoOutcome
<1>5. NoVerdictAdded =>
         \A i \in DOMAIN journal' : journal'[i].state # "healthy"
  BY <1>2, AppendUnearned DEF NoVerdictAdded, TypeInv, JournalOK
<1>6. CASE ReplayTerminal(p)
  <2>1. TerminalState(journal) # "healthy"
    BY <1>2, TerminalStateIs DEF TerminalsOf, Final
  <2> QED BY <1>2, <1>4, <1>6, <2>1 DEF ReplayTerminal, db
<1>7. CASE SubmitFailed(p) \/ HealthError(p)
  <2>1. NoVerdictAdded
    BY <1>7, AppendPlain DEF SubmitFailed, HealthError
  <2>2. \A q \in Procs : outcome'[q][2] # "healthy"
    BY <1>3, <1>7 DEF SubmitFailed, HealthError
  <2> QED BY <1>2, <1>4, <1>5, <1>7, <2>1, <2>2
          DEF SubmitFailed, HealthError, db
<1>8. CASE ObserveAndBranch(p)
  <2>1. NoVerdictAdded
    BY <1>8, AppendPlain DEF ObserveAndBranch
  <2>2. PICK st : /\ st # "healthy"
                  /\ outcome' = [outcome EXCEPT ![p] =
                        IF st \in {"healthy", "failed"}
                        THEN <<"reconciliation", st>> ELSE NoOutcome]
                  /\ Goto(p, AfterObservation(st))
    BY <1>8, ObserveNeverHealthy DEF ObserveAndBranch
  <2>3. (IF st \in {"healthy", "failed"}
         THEN <<"reconciliation", st>> ELSE NoOutcome)[2] # "healthy"
    BY <2>2 DEF NoOutcome
  <2>4. \A q \in Procs : outcome'[q][2] # "healthy"
    BY <1>3, <2>2, <2>3
  <2> QED BY <1>2, <1>4, <1>5, <1>8, <2>1, <2>2, <2>4
          DEF ObserveAndBranch, db
<1>9. CASE CycleDone(p)
  <2>1. ~(now <= deadline[p])
    BY <1>9 DEF CycleDone
  <2>2. \A q \in Procs : outcome'[q][2] # "healthy"
    BY <1>3, <1>9, <2>1 DEF CycleDone
  <2> QED BY <1>2, <1>4, <1>9, <2>2 DEF CycleDone, db
<1>10. CASE JournalTerminal(p)
  <2>1. PICK r \in Record : /\ r.state # "healthy"
                            /\ journal' = Append(journal, r)
    <3>1. outcome[p][2] \in RuntimeState /\ outcome[p][2] # "healthy"
      BY <1>2 DEF TypeInv, HostOK, Verdict
    <3>2. /\ Row("ATTEMPT_TERMINAL", outcome[p][2]) \in Record
          /\ Row(Torn, "-") \in Record
      BY <3>1, RowType DEF TypeInv, RestOK, JournalEvent
    <3>3. /\ Row("ATTEMPT_TERMINAL", outcome[p][2]).state = outcome[p][2]
          /\ Row(Torn, "-").state = "-"
      BY DEF Row
    <3> QED BY <1>10, <3>1, <3>2, <3>3 DEF JournalTerminal, JournalAppend
  <2>2. \A i \in DOMAIN journal' : journal'[i].state # "healthy"
    BY <1>2, <2>1, AppendUnearned DEF TypeInv, JournalOK
  <2> QED BY <1>2, <1>4, <1>10, <2>2 DEF JournalTerminal, locals, db
<1>11. CASE RecordRuntimeResult(p)
  BY <1>2, <1>4, <1>11 DEF RecordRuntimeResult
<1>12. CASE RecordRuntimeResultFails(p)
  BY <1>2, <1>4, <1>12 DEF RecordRuntimeResultFails, locals
<1> QED BY <1>6, <1>7, <1>8, <1>9, <1>10, <1>11, <1>12 DEF Speaks

\* Docker, the clock, a refused call and a lost journal add no verdict.
LEMMA EnvironmentPlain ==
  ASSUME UNCHANGED vars \/ Docker \/ Tick \/ LoseJournal
         \/ \E p \in Procs : HostLockBusy(p)
  PROVE  /\ UNCHANGED <<pc, lock, outcome, results, passedAt>>
         /\ \/ ret' = ret
            \/ \E p \in Procs : ret' = [ret EXCEPT ![p] = "busy"]
         /\ journal' = journal \/ (JournalLoss /\ journal' = <<>>)
  BY DEF vars, host, db, history, Docker, ComposeRecreates, ContainerSettles,
         ContainerFails, ClientExits, Tick, LoseJournal, HostLockBusy, locals

\* Every step keeps EarnedInv.
LEMMA StepEarned == TypeInv /\ EarnedInv /\ [Next]_vars => EarnedInv'
<1> SUFFICES ASSUME TypeInv, EarnedInv, [Next]_vars PROVE EarnedInv'
  OBVIOUS
<1>1. ASSUME NEW p \in Procs,
             Step(p) \/ CycleRaises(p) \/ Unwind(p)
             \/ \E e \in EntryPoints : AcquireHostLock(p, e)
      PROVE  EarnedInv'
  BY <1>1, StepPlain, PlainEarned, SpeaksEarned
<1>2. CASE UNCHANGED vars \/ Docker \/ Tick \/ LoseJournal
           \/ \E p \in Procs : HostLockBusy(p)
  BY <1>2, EnvironmentPlain DEF EarnedInv, TypeInv, HostOK
<1> QED BY <1>1, <1>2 DEF Next

\* HEALTHY is never reported, journalled or recorded unless a complete
\* health cycle passed: no mix of crashes, replays, reconciliations and
\* lost journals makes it up.
THEOREM HealthIsEarned == Spec => []HealthyIsEarned
<1>1. Init => EarnedInv
  BY DEF Init, EarnedInv, NoOutcome
<1>2. EarnedInv => HealthyIsEarned
  BY DEF EarnedInv, HealthyIsEarned
<1> QED BY <1>1, <1>2, StepEarned, SupervisorTypeInv, PTL DEF Spec

\* Journal j holds the verdict v, or cannot be read.
Journalled(j, v) ==
    CorruptIn(j) \/ \E i \in TerminalsOf(j) : j[i].state = v

\* A final verdict is journalled when it is returned or in the database, and
\* already when the process is about to record it.
BackedInv ==
    /\ \A r \in results : r[2] \in Final => Journalled(journal, r[2])
    /\ \A p \in Procs : ret[p] \in Final => Journalled(journal, ret[p])
    /\ \A p \in Procs : pc[p] = "record" /\ outcome[p][2] \in Final
                            => Journalled(journal, outcome[p][2])

\* The journal is only appended to: what it holds stays in it.
LEMMA AppendJournalled ==
  ASSUME NEW j \in Seq(Record), NEW r \in Record
  PROVE  /\ \A v : Journalled(j, v) => Journalled(Append(j, r), v)
         /\ r.event = "ATTEMPT_TERMINAL" => Journalled(Append(j, r), r.state)
         /\ r.event = Torn => \A v : Journalled(Append(j, r), v)
<1>1. CorruptIn(Append(j, r)) <=> CorruptIn(j) \/ Torn = r.event
  BY AppendHas DEF CorruptIn
<1>2. \A i \in TerminalsOf(j) : /\ i \in TerminalsOf(Append(j, r))
                                /\ Append(j, r)[i] = j[i]
  BY AppendFacts DEF TerminalsOf
<1>3. r.event = "ATTEMPT_TERMINAL" =>
         /\ Len(j) + 1 \in TerminalsOf(Append(j, r))
         /\ Append(j, r)[Len(j) + 1] = r
  BY AppendFacts DEF TerminalsOf
<1> QED BY <1>1, <1>2, <1>3 DEF Journalled

\* In any step of a process the journal stays or grows by one record.
LEMMA StepJournalled ==
  ASSUME TypeInv, NEW p \in Procs, Speaks(p) \/ Plain(p)
  PROVE  \A v : Journalled(journal, v) => Journalled(journal', v)
<1>1. journal' = journal \/ \E r \in Record : journal' = Append(journal, r)
  <2>1. CASE Plain(p)
    BY <2>1 DEF Plain, NoVerdictAdded
  <2>2. CASE JournalTerminal(p)
    BY <2>2, AppendsOff DEF JournalTerminal, Grows
  <2>3. CASE Speaks(p) /\ ~JournalTerminal(p)
    BY <2>3, AppendPlain
       DEF Speaks, ReplayTerminal, SubmitFailed, ObserveAndBranch, CycleDone,
           HealthError, RecordRuntimeResult, RecordRuntimeResultFails,
           NoVerdictAdded
  <2> QED BY <2>1, <2>2, <2>3
<1> QED BY <1>1, AppendJournalled DEF TypeInv, JournalOK

\* A plain step reports nothing that is not journalled.
LEMMA PlainBacked ==
  ASSUME TypeInv, LockInv, BackedInv, NEW p \in Procs, Plain(p),
         \A q \in Procs : q # p => pc'[q] = pc[q]
  PROVE  BackedInv'
<1>1. \A v : Journalled(journal, v) => Journalled(journal', v)
  BY StepJournalled
<1>2. \A r \in results' : r[2] \in Final => Journalled(journal', r[2])
  BY <1>1 DEF Plain, BackedInv
<1>3. \A q \in Procs : ret'[q] \in Final => Journalled(journal', ret'[q])
  BY <1>1 DEF Plain, BackedInv, TypeInv, HostOK
<1>4. \A q \in Procs : pc'[q] = "record" /\ outcome'[q][2] \in Final
                          => Journalled(journal', outcome'[q][2])
  <2>1. pc'[p] # "record"
    BY DEF Plain
  <2>2. \A q \in Procs : q # p => outcome'[q] = outcome[q]
    BY DEF Plain, TypeInv, HostOK
  <2> QED BY <1>1, <2>1, <2>2 DEF BackedInv
<1> QED BY <1>2, <1>3, <1>4
        DEF BackedInv, Journalled, CorruptIn, HasIn, TerminalsOf

\* A verdict is journalled before it is recorded or returned.
LEMMA SpeaksBacked ==
  ASSUME TypeInv, LockInv, BackedInv, NEW p \in Procs, Speaks(p)
  PROVE  BackedInv'
<1>1. \A v : Journalled(journal, v) => Journalled(journal', v)
  BY StepJournalled
<1>2. pc[p] # "idle" /\ Alone(p)
  <2>1. Step(p)
    BY DEF Speaks, Step, Execute, Settle
  <2> QED BY <2>1, StepAlone DEF Alone
<1>3. \A q \in Procs : q # p => pc[q] = "idle" /\ pc'[q] = "idle"
  BY <1>2 DEF Alone, LockInv, TypeInv, HostOK
<1>4. /\ \A v : Leave(p, v) => ret'[p] = v /\ pc'[p] = "idle"
      /\ \A l : Goto(p, l) => ret'[p] = ret[p] /\ pc'[p] = l
  BY DEF Leave, Goto, TypeInv, HostOK
<1>5. ASSUME /\ \A r \in results' \ results : r[2] \in Final =>
                                      Journalled(journal', r[2])
             /\ ret'[p] \in Final => Journalled(journal', ret'[p])
             /\ pc'[p] = "record" /\ outcome'[p][2] \in Final =>
                   Journalled(journal', outcome'[p][2])
      PROVE  BackedInv'
  <2>1. \A r \in results' : r[2] \in Final => Journalled(journal', r[2])
    BY <1>1, <1>5 DEF BackedInv
  <2>2. \A q \in Procs : ret'[q] \in Final => Journalled(journal', ret'[q])
    BY <1>1, <1>2, <1>5 DEF BackedInv, Alone
  <2>3. \A q \in Procs : pc'[q] = "record" /\ outcome'[q][2] \in Final
                            => Journalled(journal', outcome'[q][2])
    BY <1>3, <1>5
  <2> QED BY <2>1, <2>2, <2>3
          DEF BackedInv, Journalled, CorruptIn, HasIn, TerminalsOf
<1>6. CASE ReplayTerminal(p)
  <2>1. TerminalState(journal) \in Final =>
           Journalled(journal, TerminalState(journal))
    BY TerminalStateIs DEF Journalled
  <2> QED BY <1>1, <1>4, <1>5, <1>6, <2>1 DEF ReplayTerminal, db
<1>7. CASE SubmitFailed(p) \/ CycleDone(p) \/ HealthError(p)
  <2>1. results' = results /\ ret'[p] = ret[p] /\ pc'[p] # "record"
    BY <1>4, <1>7 DEF SubmitFailed, CycleDone, HealthError, db
  <2> QED BY <1>1, <1>5, <2>1 DEF BackedInv
<1>8. CASE ObserveAndBranch(p)
  <2>1. PICK st : /\ outcome' = [outcome EXCEPT ![p] =
                        IF st \in {"healthy", "failed"}
                        THEN <<"reconciliation", st>> ELSE NoOutcome]
                  /\ Goto(p, AfterObservation(st))
    BY <1>8 DEF ObserveAndBranch
  <2>2. results' = results /\ ret'[p] = ret[p]
    BY <1>4, <1>8, <2>1 DEF ObserveAndBranch, db
  <2>3. pc'[p] = "record" => st \notin Final
    BY <1>4, <2>1 DEF AfterObservation, Final
  <2>4. pc'[p] = "record" => outcome'[p][2] \notin Final
    BY <2>1, <2>3 DEF NoOutcome, Final, TypeInv, HostOK
  <2> QED BY <1>1, <1>5, <2>2, <2>4 DEF BackedInv
<1>9. CASE JournalTerminal(p)
  <2>1. /\ outcome' = outcome /\ results' = results /\ ret'[p] = ret[p]
        /\ JournalAppend("ATTEMPT_TERMINAL", outcome[p][2])
    BY <1>4, <1>9 DEF JournalTerminal, locals, db
  <2>2. outcome[p][2] \in RuntimeState
    BY DEF TypeInv, HostOK, Verdict
  <2>3. /\ Row("ATTEMPT_TERMINAL", outcome[p][2]) \in Record
        /\ Row(Torn, "-") \in Record
    BY <2>2, RowType DEF TypeInv, RestOK, JournalEvent
  <2>4. /\ Row("ATTEMPT_TERMINAL", outcome[p][2]).state = outcome[p][2]
        /\ Row("ATTEMPT_TERMINAL", outcome[p][2]).event = "ATTEMPT_TERMINAL"
        /\ Row(Torn, "-").event = Torn
    BY DEF Row
  <2>5. journal \in Seq(Record)
    BY DEF TypeInv, JournalOK
  <2>6. CASE journal' = Append(journal, Row("ATTEMPT_TERMINAL", outcome[p][2]))
    BY <1>1, <1>5, <2>1, <2>3, <2>4, <2>5, <2>6, AppendJournalled
       DEF BackedInv
  <2>7. CASE journal' = Append(journal, Row(Torn, "-"))
    BY <1>1, <1>5, <2>1, <2>3, <2>4, <2>5, <2>7, AppendJournalled
       DEF BackedInv
  <2> QED BY <2>1, <2>6, <2>7 DEF JournalAppend
<1>10. CASE RecordRuntimeResult(p)
  <2>1. /\ pc[p] = "record" /\ results' = results \cup {outcome[p]}
        /\ ret'[p] = outcome[p][2] /\ pc'[p] = "idle"
    BY <1>4, <1>10 DEF RecordRuntimeResult
  <2> QED BY <1>1, <1>5, <2>1 DEF BackedInv
<1>11. CASE RecordRuntimeResultFails(p)
  <2>1. /\ pc[p] = "record" /\ results' \subseteq results \cup {outcome[p]}
        /\ ret'[p] = ret[p] /\ pc'[p] = "disconnected"
    BY <1>4, <1>11 DEF RecordRuntimeResultFails
  <2> QED BY <1>1, <1>5, <2>1 DEF BackedInv
<1> QED BY <1>6, <1>7, <1>8, <1>9, <1>10, <1>11 DEF Speaks

\* Every step keeps BackedInv as long as the journal is kept.
LEMMA StepBacked ==
  ASSUME JournalLoss = FALSE
  PROVE  TypeInv /\ LockInv /\ BackedInv /\ [Next]_vars => BackedInv'
<1> SUFFICES ASSUME TypeInv, LockInv, BackedInv, [Next]_vars
             PROVE  BackedInv'
  OBVIOUS
<1>1. ASSUME NEW p \in Procs,
             Step(p) \/ CycleRaises(p) \/ Unwind(p)
             \/ \E e \in EntryPoints : AcquireHostLock(p, e)
      PROVE  BackedInv'
  <2>1. \A q \in Procs : q # p => pc'[q] = pc[q]
    BY <1>1, StepAlone DEF Alone, AcquireHostLock, TypeInv, HostOK
  <2> QED BY <1>1, <2>1, StepPlain, PlainBacked, SpeaksBacked
<1>2. CASE UNCHANGED vars \/ Docker \/ Tick \/ LoseJournal
           \/ \E p \in Procs : HostLockBusy(p)
  <2>1. /\ UNCHANGED <<pc, outcome, results, journal>>
        /\ \A q \in Procs : ret'[q] = ret[q] \/ ret'[q] = "busy"
    BY <1>2, EnvironmentPlain DEF TypeInv, HostOK
  <2>2. \A v : Journalled(journal, v) => Journalled(journal', v)
    BY <2>1
  <2>3. \A q \in Procs : ret'[q] \in Final => Journalled(journal', ret'[q])
    BY <2>1, <2>2 DEF BackedInv, Final
  <2> QED BY <2>1, <2>2, <2>3
          DEF BackedInv, Journalled, CorruptIn, HasIn, TerminalsOf
<1> QED BY <1>1, <1>2 DEF Next

\* As long as the journal is kept, a final verdict that anybody was told or
\* that is in the database is in the journal, unless the journal is torn:
\* the write-ahead order holds whichever step a supervisor dies at.
THEOREM VerdictsAreJournalled ==
  ASSUME JournalLoss = FALSE
  PROVE  Spec => []ResultsBackedByJournal
<1>1. Init => BackedInv
  BY DEF Init, BackedInv, Final
<1>2. BackedInv => ResultsBackedByJournal
  BY DEF BackedInv, ResultsBackedByJournal, Journalled, Corrupt, Final
<1> QED BY <1>1, <1>2, StepBacked, OneSupervisor, SupervisorTypeInv, PTL
        DEF Spec

-----------------------------------------------------------------------------
(* One verdict in the journal                                              *)

\* The labels of a call that has been dispatched and has no verdict yet
Undecided == Pc \ {"idle", "execute", "record", "disconnected"}

\* When only execute() is called, a call that goes on past its dispatch works
\* on a journal without a verdict.
OneVerdictInv ==
    /\ \A p \in Procs : pc[p] \notin {"reconcile", "takeover"}
    /\ \A p \in Procs : pc[p] \in Undecided => TerminalsOf(journal) = {}
    /\ SingleVerdict

\* Only an ATTEMPT_TERMINAL record is a verdict.
LEMMA AppendTerminals ==
  ASSUME NEW j \in Seq(Record), NEW r \in Record
  PROVE  /\ r.event # "ATTEMPT_TERMINAL" =>
               TerminalsOf(Append(j, r)) = TerminalsOf(j)
         /\ r.event = "ATTEMPT_TERMINAL" =>
               TerminalsOf(Append(j, r)) = TerminalsOf(j) \cup {Len(j) + 1}
<1>1. \A i : i \in TerminalsOf(Append(j, r)) <=>
         \/ i \in TerminalsOf(j)
         \/ i = Len(j) + 1 /\ r.event = "ATTEMPT_TERMINAL"
  BY AppendFacts DEF TerminalsOf
<1> QED BY <1>1

\* A step that adds no verdict keeps the terminal records.
LEMMA SameTerminals ==
  ASSUME TypeInv, NoVerdictAdded
  PROVE  TerminalsOf(journal') = TerminalsOf(journal)
  BY AppendTerminals DEF NoVerdictAdded, TypeInv, JournalOK

\* Only JournalTerminal adds a verdict to the journal.
LEMMA OnlyTerminalAdds ==
  ASSUME TypeInv, NEW p \in Procs, Speaks(p) \/ Plain(p), ~JournalTerminal(p)
  PROVE  NoVerdictAdded
<1>1. CASE Plain(p)
  BY <1>1 DEF Plain
<1>2. CASE Speaks(p)
  BY <1>2, AppendPlain
     DEF Speaks, ReplayTerminal, SubmitFailed, ObserveAndBranch, CycleDone,
         HealthError, RecordRuntimeResult, RecordRuntimeResultFails
<1> QED BY <1>1, <1>2

\* A call that is undecided after a step was so before it, or has just read
\* a journal without a verdict.
LEMMA StaysUndecided ==
  ASSUME TypeInv, NEW p \in Procs, Step(p) \/ CycleRaises(p) \/ Unwind(p),
         pc'[p] \in Undecided
  PROVE  pc[p] \in Undecided \/ ~Has("ATTEMPT_TERMINAL")
<1> SUFFICES ASSUME pc[p] \notin Undecided PROVE ~Has("ATTEMPT_TERMINAL")
  OBVIOUS
<1>1. /\ \A l : Goto(p, l) => pc'[p] = l
      /\ \A v : Leave(p, v) => pc'[p] = "idle"
  BY DEF TypeInv, HostOK, Goto, Leave
<1>2. pc[p] \in {"execute", "record", "disconnected"}
  <2>1. pc[p] \in Pc /\ pc[p] # "idle"
    BY StepAlone DEF Alone, TypeInv, HostOK
  <2> QED BY <2>1 DEF Undecided
<1>3. pc'[p] \notin {"idle", "execute", "record", "disconnected"}
  BY DEF Undecided
<1>4. \/ ReplayTerminal(p) \/ ResumeSubmitted(p) \/ FailClosed(p)
      \/ Accept(p) \/ RecordRuntimeResult(p) \/ RecordRuntimeResultFails(p)
      \/ JournalDisconnect(p) \/ LoadRaises(p) \/ Unwind(p)
  BY <1>2
     DEF Step, CycleRaises, Execute, ValidatePlan, CollectResources,
         RecordResource, RecordMutationSubmitted, JournalSubmission, Submit,
         SubmitRaises, SubmitAcknowledged, SubmitFailed, SubmitTimeout,
         JournalCompletion, Settle, BeginReconcile, StartReconciliation,
         ObserveAndBranch, StartHealth, CycleObserves, CycleExpires,
         ChecksPass, ChecksFail, CycleDone, HealthError, JournalHealth,
         JournalTerminal, Takeover, BeginTakeover, FirstSnapshot,
         FirstClientCheck, SecondSnapshot, ProveQuiescence, GrantTakeover
<1>5. ResumeSubmitted(p) \/ Accept(p)
  BY <1>1, <1>3, <1>4
     DEF ReplayTerminal, FailClosed, RecordRuntimeResult,
         RecordRuntimeResultFails, JournalDisconnect, LoadRaises, Unwind
<1> QED BY <1>5 DEF ResumeSubmitted, Accept

\* Entry points are only entered by a call.
LEMMA NeverEnters ==
  ASSUME TypeInv, NEW p \in Procs, Step(p) \/ CycleRaises(p) \/ Unwind(p)
  PROVE  pc'[p] \notin {"reconcile", "takeover"}
<1>1. /\ \A l : Goto(p, l) => pc'[p] = l
      /\ \A v : Leave(p, v) => pc'[p] = "idle"
  BY DEF TypeInv, HostOK, Goto, Leave
<1>2. CASE RecordMutationSubmitted(p)
  <2>1. \E l \in {"journalSubmit", "disconnected"} : Goto(p, l)
    BY <1>2, Zenon DEF RecordMutationSubmitted
  <2> QED BY <1>1, <2>1
<1>3. CASE ObserveAndBranch(p)
  <2>1. \E l \in {"health", "terminal", "record"} : Goto(p, l)
    BY <1>3 DEF ObserveAndBranch, AfterObservation
  <2> QED BY <1>1, <2>1
<1>4. CASE Execute(p) /\ ~RecordMutationSubmitted(p)
  BY <1>1, <1>4
     DEF Execute, ReplayTerminal, ResumeSubmitted, FailClosed, Accept,
         ValidatePlan, CollectResources, RecordResource, JournalSubmission,
         Submit, SubmitRaises, SubmitAcknowledged, SubmitFailed,
         SubmitTimeout, JournalCompletion
<1>5. CASE (Settle(p) \/ CycleRaises(p)) /\ ~ObserveAndBranch(p)
  BY <1>1, <1>5
     DEF Settle, BeginReconcile, StartReconciliation, StartHealth,
         CycleObserves, CycleExpires, CycleRaises, ChecksPass, ChecksFail,
         CycleDone, HealthError, JournalHealth, JournalTerminal,
         RecordRuntimeResult, RecordRuntimeResultFails, JournalDisconnect
<1>6. CASE Takeover(p) \/ LoadRaises(p) \/ Unwind(p)
  BY <1>1, <1>6
     DEF Takeover, BeginTakeover, FirstSnapshot, FirstClientCheck,
         SecondSnapshot, ProveQuiescence, GrantTakeover,
         RefuseTakeover, LoadRaises, Unwind
<1> QED BY <1>2, <1>3, <1>4, <1>5, <1>6 DEF Step

\* Every step keeps OneVerdictInv when only execute() is called.
LEMMA StepOneVerdict ==
  ASSUME EntryPoints \subseteq {"execute"}
  PROVE  TypeInv /\ LockInv /\ OneVerdictInv /\ [Next]_vars => OneVerdictInv'
<1> SUFFICES ASSUME TypeInv, LockInv, OneVerdictInv, [Next]_vars
             PROVE  OneVerdictInv'
  OBVIOUS
<1>1. ASSUME NEW p \in Procs, Step(p) \/ CycleRaises(p) \/ Unwind(p)
      PROVE  OneVerdictInv'
  <2>1. Alone(p) /\ (Speaks(p) \/ Plain(p))
    BY <1>1, StepAlone, StepPlain
  <2>2. \A q \in Procs : q # p => pc'[q] = "idle"
    BY <2>1 DEF Alone, LockInv, TypeInv, HostOK
  <2>3. \A q \in Procs : pc'[q] \notin {"reconcile", "takeover"}
    BY <1>1, <2>2, NeverEnters
  <2>4. "idle" \notin Undecided /\ "record" \notin Undecided
        /\ "terminal" \in Undecided
    BY DEF Undecided, Pc, SettlePc
  <2>5. CASE JournalTerminal(p)
    <3>1. /\ pc[p] = "terminal" /\ pc'[p] = "record"
          /\ JournalAppend("ATTEMPT_TERMINAL", outcome[p][2])
      BY <2>5 DEF JournalTerminal, Goto, TypeInv, HostOK
    <3>2. TerminalsOf(journal) = {}
      BY <2>4, <3>1 DEF OneVerdictInv
    <3>3. PICK r \in Record : journal' = Append(journal, r)
      BY <3>1, AppendsOff DEF Grows
    <3>4. TerminalsOf(journal') \subseteq {Len(journal) + 1}
      BY <3>2, <3>3, AppendTerminals DEF TypeInv, JournalOK
    <3>5. SingleVerdict'
      BY <3>4 DEF SingleVerdict
    <3> QED BY <2>2, <2>3, <2>4, <3>1, <3>5 DEF OneVerdictInv
  <2>6. CASE ~JournalTerminal(p)
    <3>1. TerminalsOf(journal') = TerminalsOf(journal)
      BY <2>1, <2>6, OnlyTerminalAdds, SameTerminals
    <3>2. pc'[p] \in Undecided => TerminalsOf(journal) = {}
      BY <1>1, StaysUndecided DEF OneVerdictInv, Has, HasIn, TerminalsOf
    <3>3. SingleVerdict'
      BY <3>1 DEF OneVerdictInv, SingleVerdict
    <3> QED BY <2>2, <2>3, <2>4, <3>1, <3>2, <3>3 DEF OneVerdictInv
  <2> QED BY <2>5, <2>6
<1>2. ASSUME NEW p \in Procs, NEW e \in EntryPoints, AcquireHostLock(p, e)
      PROVE  OneVerdictInv'
  <2>1. pc' = [pc EXCEPT ![p] = "execute"] /\ journal' = journal
    BY <1>2 DEF AcquireHostLock
  <2>2. "execute" \notin Undecided
    BY DEF Undecided
  <2> QED BY <2>1, <2>2
          DEF OneVerdictInv, SingleVerdict, TerminalsOf, TypeInv, HostOK
<1>3. CASE UNCHANGED vars \/ Docker \/ Tick \/ LoseJournal
           \/ \E p \in Procs : HostLockBusy(p)
  <2>1. pc' = pc /\ TerminalsOf(journal') \in {TerminalsOf(journal), {}}
    BY <1>3, EnvironmentPlain DEF TerminalsOf
  <2> QED BY <2>1 DEF OneVerdictInv, SingleVerdict
<1> QED BY <1>1, <1>2, <1>3 DEF Next

\* When the operators use nothing but execute(), as the command line does,
\* a journal never holds two verdicts, so _terminal_state() never finds one
\* ambiguous: also across crashes and after the journal was lost.
THEOREM OneVerdict ==
  ASSUME EntryPoints \subseteq {"execute"}
  PROVE  Spec => []SingleVerdict
<1>1. Init => OneVerdictInv
  BY DEF Init, OneVerdictInv, SingleVerdict, TerminalsOf, Undecided
<1>2. OneVerdictInv => SingleVerdict
  BY DEF OneVerdictInv
<1> QED BY <1>1, <1>2, StepOneVerdict, OneSupervisor, SupervisorTypeInv, PTL
        DEF Spec

-----------------------------------------------------------------------------
(* The supervisor implements AttemptExecution                              *)

\* The labels at which the attempt's own containers are being judged
Judging == {"submitting", "completed", "health", "cycle", "checks",
            "cycleDone", "healthError", "verdict", "terminal"}

IsFirstTerminal(j, i) ==
    i \in TerminalsOf(j) /\ \A k \in TerminalsOf(j) : i <= k

\* A journal with a verdict has a first one (the CHOOSE of FirstVerdict),
\* and every verdict is final.
TerminalsOK(j) ==
    /\ \A i \in TerminalsOf(j) : j[i].state \in Final
    /\ TerminalsOf(j) = {} \/ \E i \in Nat : IsFirstTerminal(j, i)

\* Before the mutation Docker has nothing of the attempt's and the journal
\* no verdict; a process that judges does so after the mutation, and what it
\* is about to journal is final.
JudgedInv ==
    /\ submits = 0 =>
          /\ ~client
          /\ \A s \in Services : containers[s] \in {"absent", "foreign"}
          /\ TerminalsOf(journal) = {}
    /\ \A p \in Procs : pc[p] \in Judging => submits = 1
    /\ \A p \in Procs : pc[p] \in {"verdict", "terminal"} =>
                            outcome[p][2] \in Final
    /\ TerminalsOK(journal)

\* FirstVerdict, of any journal
VerdictIn(j) ==
    IF TerminalsOf(j) = {} THEN "none"
    ELSE j[CHOOSE i \in TerminalsOf(j) :
              \A k \in TerminalsOf(j) : i <= k].state

\* FirstVerdict is the state of the first terminal record.
LEMMA FirstVerdictIs ==
  ASSUME NEW j \in Seq(Record), NEW i \in Nat, IsFirstTerminal(j, i)
  PROVE  VerdictIn(j) = j[i].state
<1>1. TerminalsOf(j) \subseteq DOMAIN j /\ DOMAIN j \subseteq Nat
  BY DEF TerminalsOf
<1>2. (CHOOSE m \in TerminalsOf(j) : \A k \in TerminalsOf(j) : m <= k) = i
  BY <1>1 DEF IsFirstTerminal
<1> QED BY <1>2 DEF VerdictIn, IsFirstTerminal

\* The first verdict stays the first verdict when the journal grows.
LEMMA AppendVerdict ==
  ASSUME NEW j \in Seq(Record), NEW r \in Record, TerminalsOK(j),
         r.event = "ATTEMPT_TERMINAL" => r.state \in Final
  PROVE  /\ TerminalsOK(Append(j, r))
         /\ \/ VerdictIn(Append(j, r)) = VerdictIn(j)
            \/ /\ r.event = "ATTEMPT_TERMINAL"
               /\ VerdictIn(j) = "none"
               /\ VerdictIn(Append(j, r)) = r.state
<1>1. \A i \in TerminalsOf(j) : i \in 1 .. Len(j) /\ Append(j, r)[i] = j[i]
  BY AppendFacts DEF TerminalsOf
<1>2. Append(j, r) \in Seq(Record) /\ Len(j) \in Nat
      /\ Append(j, r)[Len(j) + 1] = r
  BY AppendFacts
<1>3. \A i \in TerminalsOf(Append(j, r)) : Append(j, r)[i].state \in Final
  BY <1>1, <1>2, AppendTerminals DEF TerminalsOK
<1>4. CASE TerminalsOf(j) = {} /\ r.event # "ATTEMPT_TERMINAL"
  BY <1>4, AppendTerminals DEF TerminalsOK, VerdictIn
<1>5. CASE TerminalsOf(j) = {} /\ r.event = "ATTEMPT_TERMINAL"
  <2>1. TerminalsOf(Append(j, r)) = {Len(j) + 1}
    BY <1>5, AppendTerminals
  <2>2. PICK i \in Nat : i = Len(j) + 1
    BY <1>2
  <2>3. IsFirstTerminal(Append(j, r), i)
    BY <2>1, <2>2 DEF IsFirstTerminal
  <2>4. VerdictIn(Append(j, r)) = r.state
    BY <1>2, <2>2, <2>3, FirstVerdictIs
  <2>5. VerdictIn(j) = "none"
    BY <1>5 DEF VerdictIn
  <2>6. TerminalsOK(Append(j, r))
    BY <1>3, <2>3 DEF TerminalsOK
  <2> QED BY <1>5, <2>4, <2>5, <2>6
<1>6. CASE TerminalsOf(j) # {}
  <2>1. PICK i \in Nat : IsFirstTerminal(j, i)
    BY <1>6 DEF TerminalsOK
  <2>2. IsFirstTerminal(Append(j, r), i)
    BY <1>1, <1>2, <2>1, AppendTerminals DEF IsFirstTerminal
  <2>3. VerdictIn(Append(j, r)) = j[i].state
    BY <1>1, <1>2, <2>1, <2>2, FirstVerdictIs DEF IsFirstTerminal
  <2>4. VerdictIn(j) = j[i].state
    BY <2>1, FirstVerdictIs
  <2> QED BY <1>3, <2>2, <2>3, <2>4 DEF TerminalsOK
<1> QED BY <1>4, <1>5, <1>6

\* Containers of another deployment are never judged as the attempt's.
LEMMA ObserveForeign ==
  ASSUME \A s \in Services : containers[s] \in {"absent", "foreign"},
         NEW o \in Observations(containers)
  PROVE  Observe(o) \in {"not_started", "unknown"}
<1>1. \A s \in Services : o[s] \in {"absent", "foreign"}
  BY DEF Observations
<1>2. Selected(o) = {} \/ ~BindingValid(o)
  BY <1>1 DEF BindingValid, Selected
<1> QED BY <1>2 DEF Observe

\* What a step of p means to the judgement, Submit and ObserveAndBranch
\* apart: it starts no mutation and does not begin to judge.
OffJudge(p) ==
    /\ UNCHANGED <<submits, containers>>
    /\ client' = client \/ client' = FALSE \/ pc[p] = "submitting"
    /\ pc'[p] \in Judging => pc[p] \in Judging

\* The steps of execute() but Submit ...
LEMMA ExecuteOffJudge ==
  ASSUME TypeInv, NEW p \in Procs, Execute(p), ~Submit(p)
  PROVE  OffJudge(p)
<1>1. /\ \A l : Goto(p, l) => pc'[p] = l
      /\ \A v : Leave(p, v) => pc'[p] = "idle"
  BY DEF TypeInv, HostOK, Goto, Leave
<1> USE <1>1 DEF OffJudge, Judging, docker, history
<1>2. CASE ReplayTerminal(p) \/ ResumeSubmitted(p) \/ FailClosed(p)
           \/ Accept(p) \/ ValidatePlan(p) \/ CollectResources(p)
           \/ RecordResource(p)
  BY <1>2 DEF ReplayTerminal, ResumeSubmitted, FailClosed, Accept,
              ValidatePlan, CollectResources, RecordResource
<1>3. CASE RecordMutationSubmitted(p)
  <2>1. \E l \in {"journalSubmit", "disconnected"} : Goto(p, l)
    BY <1>3, Zenon DEF RecordMutationSubmitted
  <2>2. UNCHANGED <<submits, containers, client>>
    BY <1>3, Zenon DEF RecordMutationSubmitted
  <2> QED BY <2>1, <2>2
<1>4. CASE JournalSubmission(p) \/ SubmitRaises(p) \/ SubmitAcknowledged(p)
           \/ SubmitFailed(p) \/ SubmitTimeout(p) \/ JournalCompletion(p)
  BY <1>4 DEF JournalSubmission, SubmitRaises, SubmitAcknowledged,
              SubmitFailed, SubmitTimeout, JournalCompletion
<1> QED BY <1>2, <1>3, <1>4 DEF Execute

\* ... those of _reconcile_locked and _health_locked ...
LEMMA SettleOffJudge ==
  ASSUME TypeInv, NEW p \in Procs, Settle(p) \/ CycleRaises(p),
         ~ObserveAndBranch(p)
  PROVE  OffJudge(p)
<1>1. /\ \A l : Goto(p, l) => pc'[p] = l
      /\ \A v : Leave(p, v) => pc'[p] = "idle"
  BY DEF TypeInv, HostOK, Goto, Leave
<1> USE <1>1 DEF OffJudge, Judging, docker, history
<1>2. CASE StartHealth(p)
  BY <1>2 DEF StartHealth
<1>3. CASE BeginReconcile(p) \/ StartReconciliation(p) \/ CycleObserves(p)
           \/ CycleExpires(p) \/ CycleRaises(p) \/ ChecksPass(p)
           \/ ChecksFail(p) \/ CycleDone(p)
  BY <1>3 DEF BeginReconcile, StartReconciliation, CycleObserves,
              CycleExpires, CycleRaises, ChecksPass, ChecksFail, CycleDone
<1>4. CASE HealthError(p) \/ JournalHealth(p) \/ JournalTerminal(p)
           \/ RecordRuntimeResult(p) \/ RecordRuntimeResultFails(p)
           \/ JournalDisconnect(p)
  BY <1>4 DEF HealthError, JournalHealth, JournalTerminal,
              RecordRuntimeResult, RecordRuntimeResultFails,
              JournalDisconnect
<1> QED BY <1>2, <1>3, <1>4 DEF Settle

\* ... takeovers and the beginning and end of a call: none judges.
LEMMA OtherOffJudge ==
  ASSUME TypeInv, NEW p \in Procs,
         Takeover(p) \/ LoadRaises(p) \/ Unwind(p)
         \/ \E e \in EntryPoints : AcquireHostLock(p, e)
  PROVE  OffJudge(p)
<1>1. /\ \A l : Goto(p, l) => pc'[p] = l
      /\ \A v : Leave(p, v) => pc'[p] = "idle"
  BY DEF TypeInv, HostOK, Goto, Leave
<1> USE <1>1 DEF OffJudge, Judging, docker, history
<1>2. CASE Takeover(p)
  BY <1>2 DEF Takeover, BeginTakeover, FirstSnapshot, FirstClientCheck,
              SecondSnapshot, ProveQuiescence, GrantTakeover, RefuseTakeover
<1>3. CASE LoadRaises(p) \/ Unwind(p)
  BY <1>3 DEF LoadRaises, Unwind
<1>4. ASSUME NEW e \in EntryPoints, AcquireHostLock(p, e)
      PROVE  OffJudge(p)
  <2>1. pc'[p] = e /\ e \notin Judging
    BY <1>4, SupervisorConstants DEF AcquireHostLock, TypeInv, HostOK
  <2> QED BY <1>4, <2>1 DEF AcquireHostLock
<1> QED BY <1>2, <1>3, <1>4

\* So only Submit and ObserveAndBranch can begin to judge.
LEMMA StepOffJudge ==
  ASSUME TypeInv, NEW p \in Procs,
         Step(p) \/ CycleRaises(p) \/ Unwind(p)
         \/ \E e \in EntryPoints : AcquireHostLock(p, e)
  PROVE  Submit(p) \/ ObserveAndBranch(p) \/ OffJudge(p)
  BY ExecuteOffJudge, SettleOffJudge, OtherOffJudge DEF Step

\* A step that adds no verdict changes no verdict.
LEMMA SameVerdict ==
  ASSUME TypeInv, TerminalsOK(journal), NoVerdictAdded
  PROVE  /\ TerminalsOK(journal')
         /\ VerdictIn(journal') = VerdictIn(journal)
         /\ TerminalsOf(journal') = TerminalsOf(journal)
<1>1. CASE journal' = journal
  BY <1>1
<1>2. ASSUME NEW r \in Record, r.event # "ATTEMPT_TERMINAL",
             journal' = Append(journal, r)
      PROVE  /\ TerminalsOK(journal')
             /\ VerdictIn(journal') = VerdictIn(journal)
  BY <1>2, AppendVerdict DEF TypeInv, JournalOK
<1> QED BY <1>1, <1>2, SameTerminals DEF NoVerdictAdded

\* A journalled verdict is the first one, or changes nothing.
LEMMA TerminalVerdict ==
  ASSUME TypeInv, JudgedInv, NEW p \in Procs, JournalTerminal(p)
  PROVE  /\ TerminalsOK(journal')
         /\ \/ VerdictIn(journal') = VerdictIn(journal)
            \/ /\ VerdictIn(journal) = "none"
               /\ VerdictIn(journal') \in Final
<1>1. outcome[p][2] \in Final /\ outcome[p][2] \in RuntimeState
  BY DEF JournalTerminal, JudgedInv, TypeInv, HostOK, Verdict
<1>2. PICK st \in Final \cap RuntimeState : st = outcome[p][2]
  BY <1>1
<1>3. PICK e \in JournalEvent : e = "ATTEMPT_TERMINAL"
  BY DEF JournalEvent
<1>4. /\ Row(e, st) \in Record /\ Row(Torn, "-") \in Record
      /\ Row(e, st).event = e /\ Row(Torn, "-").event = Torn
  BY RowType DEF TypeInv, RestOK
<1>5. Row(e, st).state = st /\ Torn # "ATTEMPT_TERMINAL"
  BY DEF Row, Torn
<1>6. journal' = Append(journal, Row(e, st))
      \/ journal' = Append(journal, Row(Torn, "-"))
  BY <1>2, <1>3 DEF JournalTerminal, JournalAppend
<1>7. journal \in Seq(Record) /\ TerminalsOK(journal)
  BY DEF TypeInv, JournalOK, JudgedInv
<1>8. PICK r \in Record : /\ journal' = Append(journal, r)
                          /\ r.event = "ATTEMPT_TERMINAL" => r.state = st
  BY <1>3, <1>4, <1>5, <1>6
<1> QED BY <1>2, <1>7, <1>8, AppendVerdict

\* What is journalled next by a process on its way there is final.
LEMMA StepOutcome ==
  ASSUME TypeInv, JudgedInv, NEW p \in Procs, Speaks(p) \/ Plain(p),
         pc'[p] \in {"verdict", "terminal"}
  PROVE  outcome'[p][2] \in Final
<1>1. /\ \A l : Goto(p, l) => pc'[p] = l
      /\ \A v : Leave(p, v) => pc'[p] = "idle"
      /\ \A o : outcome' = [outcome EXCEPT ![p] = o] => outcome'[p] = o
  BY DEF TypeInv, HostOK, Goto, Leave
<1>2. CASE Plain(p)
  BY <1>2 DEF Plain, JudgedInv
<1>3. CASE SubmitFailed(p) \/ HealthError(p)
  <2>1. \E s \in Source : outcome'[p] = <<s, "failed">>
    BY <1>1, <1>3 DEF SubmitFailed, HealthError, Source
  <2> QED BY <2>1 DEF Final
<1>4. CASE CycleDone(p)
  <2>1. \E v \in Final : outcome'[p] = <<"health", v>>
    BY <1>1, <1>4 DEF CycleDone, Final
  <2> QED BY <2>1
<1>5. CASE ObserveAndBranch(p)
  <2>1. PICK st : /\ outcome' = [outcome EXCEPT ![p] =
                        IF st \in {"healthy", "failed"}
                        THEN <<"reconciliation", st>> ELSE NoOutcome]
                  /\ Goto(p, AfterObservation(st))
    BY <1>5 DEF ObserveAndBranch
  <2>2. st \in {"healthy", "failed"}
    BY <1>1, <2>1 DEF AfterObservation
  <2>3. outcome'[p] = <<"reconciliation", st>>
    BY <1>1, <2>1, <2>2
  <2> QED BY <2>2, <2>3 DEF Final
<1>6. CASE ReplayTerminal(p) \/ JournalTerminal(p) \/ RecordRuntimeResult(p)
           \/ RecordRuntimeResultFails(p)
  BY <1>1, <1>6 DEF ReplayTerminal, JournalTerminal, RecordRuntimeResult,
                    RecordRuntimeResultFails
<1> QED BY <1>2, <1>3, <1>4, <1>5, <1>6 DEF Speaks

\* Docker does nothing of the attempt's before a client is started.
LEMMA DockerJudged ==
  ASSUME TypeInv, JudgedInv, Docker
  PROVE  JudgedInv'
<1>1. UNCHANGED <<pc, outcome, journal, submits>>
  BY DEF Docker, ComposeRecreates, ContainerSettles, ContainerFails,
         ClientExits, host, history
<1>2. ASSUME submits = 0
      PROVE  ~client' /\ containers' = containers
  BY <1>2 DEF JudgedInv, Docker, ComposeRecreates, ContainerSettles,
              ContainerFails, ClientExits
<1>3. TerminalsOf(journal') = TerminalsOf(journal) /\ TerminalsOK(journal')
  BY <1>1 DEF JudgedInv
<1>4. \A p \in Procs : /\ pc'[p] \in Judging => submits' = 1
                       /\ pc'[p] \in {"verdict", "terminal"} =>
                             outcome'[p][2] \in Final
  BY <1>1 DEF JudgedInv
<1>5. submits' = 0 =>
         /\ ~client'
         /\ \A s \in Services : containers'[s] \in {"absent", "foreign"}
         /\ TerminalsOf(journal') = {}
  BY <1>1, <1>2, <1>3 DEF JudgedInv
<1> QED BY <1>3, <1>4, <1>5
        DEF JudgedInv, TerminalsOf, TerminalsOK, IsFirstTerminal

\* A step of a process keeps JudgedInv; Submit is the only one that starts a
\* mutation, and ObserveAndBranch begins to judge only after one.
LEMMA StepJudged ==
  ASSUME TypeInv, MutationInv, JudgedInv, NEW p \in Procs,
         Step(p) \/ CycleRaises(p) \/ Unwind(p)
         \/ \E e \in EntryPoints : AcquireHostLock(p, e)
  PROVE  JudgedInv'
<1>1. \A q \in Procs : q # p => pc[q] = "idle" /\ pc'[q] = "idle"
  <2>1. CASE Step(p) \/ CycleRaises(p) \/ Unwind(p)
    BY <2>1, StepAlone DEF Alone, MutationInv, LockInv, TypeInv, HostOK
  <2>2. CASE \E e \in EntryPoints : AcquireHostLock(p, e)
    BY <2>2, SupervisorConstants
       DEF AcquireHostLock, MutationInv, LockInv, TypeInv, HostOK
  <2> QED BY <2>1, <2>2
<1>2. Speaks(p) \/ Plain(p)
  BY StepPlain
<1>3. TerminalsOK(journal')
  BY <1>2, OnlyTerminalAdds, SameVerdict, TerminalVerdict DEF JudgedInv
<1>4. submits \in {0, 1}
  BY DEF MutationInv
<1>5. ASSUME \/ submits' = 1
             \/ /\ submits' = submits
                /\ pc'[p] \in Judging => submits = 1
                /\ submits = 0 =>
                      /\ ~client'
                      /\ containers' = containers
                      /\ ~JournalTerminal(p)
      PROVE  JudgedInv'
  <2>1. submits' = 0 =>
           /\ ~client'
           /\ \A s \in Services : containers'[s] \in {"absent", "foreign"}
           /\ TerminalsOf(journal') = {}
    BY <1>2, <1>5, OnlyTerminalAdds, SameTerminals DEF JudgedInv
  <2>2. \A q \in Procs : pc'[q] \in Judging => submits' = 1
    BY <1>1, <1>5 DEF Judging
  <2>3. \A q \in Procs : pc'[q] \in {"verdict", "terminal"} =>
                            outcome'[q][2] \in Final
    BY <1>1, <1>2, StepOutcome
  <2> QED BY <1>3, <2>1, <2>2, <2>3
          DEF JudgedInv, TerminalsOf, TerminalsOK, IsFirstTerminal
<1>6. CASE Submit(p)
  BY <1>5, <1>6 DEF Submit, MutationInv, SubmitInv, BeforeSubmit
<1>7. CASE ObserveAndBranch(p)
  <2>1. /\ submits' = submits /\ containers' = containers
        /\ client' = client /\ pc[p] = "recObserve"
    BY <1>7 DEF ObserveAndBranch, docker, history
  <2>2. PICK st \in {Observe(o) : o \in Observations(containers)}
                       \cup {"unknown"} : Goto(p, AfterObservation(st))
    BY <1>7 DEF ObserveAndBranch
  <2>3. pc'[p] = AfterObservation(st)
    BY <2>2 DEF Goto, TypeInv, HostOK
  <2>4. submits = 0 => st \in {"not_started", "unknown"}
    BY <2>2, ObserveForeign DEF JudgedInv
  <2>5. pc'[p] \in Judging => submits = 1
    BY <1>4, <2>3, <2>4 DEF AfterObservation, Judging
  <2> QED BY <1>5, <2>1, <2>5 DEF JudgedInv, JournalTerminal
<1>8. CASE OffJudge(p)
  <2>1. pc[p] \in Judging => submits = 1
    BY DEF JudgedInv
  <2>2. JournalTerminal(p) => submits = 1
    BY <2>1 DEF JournalTerminal, Judging
  <2>3. pc[p] = "submitting" => submits = 1
    BY <2>1 DEF Judging
  <2>4. submits = 0 => ~client'
    BY <1>8, <2>3 DEF OffJudge, JudgedInv
  <2> QED BY <1>5, <1>8, <2>1, <2>2, <2>4 DEF OffJudge
<1> QED BY <1>6, <1>7, <1>8, StepOffJudge

\* Every step keeps JudgedInv as long as the journal is kept.
LEMMA NextJudged ==
  ASSUME JournalLoss = FALSE
  PROVE  TypeInv /\ MutationInv /\ JudgedInv /\ [Next]_vars => JudgedInv'
<1> SUFFICES ASSUME TypeInv, MutationInv, JudgedInv, [Next]_vars
             PROVE  JudgedInv'
  OBVIOUS
<1>1. CASE UNCHANGED vars \/ Tick \/ \E p \in Procs : HostLockBusy(p)
  <2>1. UNCHANGED <<pc, outcome, journal, submits, client, containers>>
    BY <1>1 DEF vars, host, docker, history, Tick, HostLockBusy, locals
  <2> QED BY <2>1
          DEF JudgedInv, TerminalsOf, TerminalsOK, IsFirstTerminal
<1> QED BY <1>1, StepJudged, DockerJudged DEF Next, LoseJournal

\* The initial states are those of AttemptExecution.
LEMMA InitExecution == Init => JudgedInv /\ Execution!Init
<1> SUFFICES ASSUME Init PROVE JudgedInv /\ Execution!Init
  OBVIOUS
<1>1. TerminalsOf(journal) = {}
  BY DEF Init, TerminalsOf
<1>2. JudgedInv
  BY <1>1 DEF Init, JudgedInv, Judging, TerminalsOK
<1>3. FirstVerdict = "none" /\ submits = 0
  BY <1>1 DEF FirstVerdict, Init
<1> QED BY <1>2, <1>3 DEF Execution!Init

\* Every step is a step of AttemptExecution or changes nothing of it: Submit
\* mutates an attempt without a verdict, the first ATTEMPT_TERMINAL record
\* concludes a mutated one.
LEMMA NextExecution ==
  ASSUME JournalLoss = FALSE
  PROVE  TypeInv /\ MutationInv /\ JudgedInv /\ [Next]_vars =>
            [Execution!Next]_<<[a \in {"attempt"} |-> submits],
                               [a \in {"attempt"} |-> FirstVerdict]>>
<1> DEFINE Abstract == [Execution!Next]_<<[a \in {"attempt"} |-> submits],
                                    [a \in {"attempt"} |-> FirstVerdict]>>
<1> SUFFICES ASSUME TypeInv, MutationInv, JudgedInv, [Next]_vars
             PROVE  Abstract
  OBVIOUS
<1>1. /\ FirstVerdict = VerdictIn(journal)
      /\ FirstVerdict' = VerdictIn(journal')
  BY DEF FirstVerdict, VerdictIn
<1>2. journal \in Seq(Record) /\ TerminalsOK(journal) /\ submits \in {0, 1}
  BY DEF TypeInv, JournalOK, JudgedInv, MutationInv
<1>3. ASSUME submits' = submits, FirstVerdict' = FirstVerdict PROVE Abstract
  BY <1>3
<1>4. ASSUME NEW p \in Procs,
             Step(p) \/ CycleRaises(p) \/ Unwind(p)
             \/ \E e \in EntryPoints : AcquireHostLock(p, e)
      PROVE  Abstract
  <2>1. Speaks(p) \/ Plain(p)
    BY <1>4, StepPlain
  <2>2. CASE Submit(p)
    <3>1. /\ submits = 0 /\ submits' = 1 /\ journal' = journal
      BY <2>2 DEF Submit, MutationInv, SubmitInv, BeforeSubmit
    <3>2. FirstVerdict = "none" /\ FirstVerdict' = "none"
      BY <1>1, <3>1 DEF JudgedInv, VerdictIn
    <3>3. Execution!Mutate("attempt")
      BY <3>1, <3>2 DEF Execution!Mutate
    <3> QED BY <3>3 DEF Execution!Next
  <2>3. CASE JournalTerminal(p)
    <3>1. submits = 1 /\ submits' = 1
      BY <2>3 DEF JournalTerminal, JudgedInv, Judging, history
    <3>2. CASE VerdictIn(journal') = VerdictIn(journal)
      BY <1>1, <1>3, <3>1, <3>2
    <3>3. CASE /\ VerdictIn(journal) = "none"
               /\ VerdictIn(journal') \in Final
      <4>1. Execution!Conclude("attempt")
        BY <1>1, <3>1, <3>3 DEF Execution!Conclude, Final
      <4> QED BY <4>1 DEF Execution!Next
    <3> QED BY <2>3, <3>2, <3>3, TerminalVerdict
  <2>4. CASE ~Submit(p) /\ ~JournalTerminal(p)
    <3>1. FirstVerdict' = FirstVerdict
      BY <1>1, <1>2, <2>1, <2>4, OnlyTerminalAdds, SameVerdict
    <3>2. submits' = submits
      BY <1>4, <2>4, StepOffJudge DEF OffJudge, ObserveAndBranch, history
    <3> QED BY <1>3, <3>1, <3>2
  <2> QED BY <2>2, <2>3, <2>4
<1>5. CASE UNCHANGED vars \/ Docker \/ Tick
           \/ \E p \in Procs : HostLockBusy(p)
  <2>1. journal' = journal /\ submits' = submits
    BY <1>5 DEF vars, history, Docker, ComposeRecreates, ContainerSettles,
                ContainerFails, ClientExits, Tick, HostLockBusy
  <2> QED BY <1>1, <1>3, <2>1
<1> QED BY <1>4, <1>5 DEF Next, LoseJournal

\* As long as the journal is kept, the supervisors of a host, however many
\* and however often they die, implement AttemptExecution: the attempt is
\* mutated at most once and gets one verdict, after the mutation, that no
\* later reconciliation takes back.
THEOREM Refinement ==
  ASSUME JournalLoss = FALSE
  PROVE  Spec => ImplementsExecution
<1>1. ExecuteOnlyIfLossy
  BY DEF ExecuteOnlyIfLossy
<1>2. Spec => [](TypeInv /\ MutationInv)
  BY <1>1, SupervisorTypeInv, SupervisorMutationInv, PTL
<1>3. Spec => []JudgedInv
  BY <1>2, InitExecution, NextJudged, PTL DEF Spec
<1> QED BY <1>2, <1>3, InitExecution, NextExecution, PTL
        DEF Spec, ImplementsExecution, Execution!Spec
=============================================================================
