-------------------------- MODULE ProductionProofs --------------------------
(***************************************************************************)
(* Theorems about several deployments on one production host, for every    *)
(* set of deployments, callers, supervisor processes and services, every   *)
(* lease time and every bound.                                             *)
(***************************************************************************)
EXTENDS Production, ProductionLockProofs, TLAPS

-----------------------------------------------------------------------------
(* The inductive invariant                                                 *)

\* The flock: only its owner is in a call.
HostLocked == \A p \in Procs : call[p] # NoRow => hostLock = p

\* The row of the lease is the latest one that was inserted, and no effect
\* was made under a later one.
LatestRow ==
    /\ epoch <= acquisitions
    /\ lock # NoRow => lock.nth = acquisitions

\* What the record says of a mutation is written before it starts, and only
\* a mutation makes a client and containers with its labels.
MutationsRecorded ==
    /\ \A d \in Deployments :
          /\ mutations[d] \in {0, 1}
          /\ mutations[d] = 1 => d \in submitted
          /\ d \in clients => mutations[d] = 1
    /\ \A s \in Services :
          containers[s] # NoRow => mutations[containers[s]] = 1

\* What a call that has loaded its attempt relies on
CallOK(p) ==
    LET d == call[p].attempt IN
    call[p] # NoRow /\ call[p].stage # "entered" =>
        /\ epoch <= call[p].under /\ call[p].under <= acquisitions
        /\ verdict[d] = "none"
        /\ call[p].stage \in {"prepare", "submit"} => mutations[d] = 0
        /\ call[p].stage # "prepare" => d \in submitted
        /\ call[p].stage \in {"submitting", "health", "conclude"} =>
              mutations[d] = 1
        /\ call[p].stage = "conclude" => call[p].verdict # "none"

Inv == /\ TypeOK
       /\ HostLocked /\ LatestRow /\ MutationsRecorded
       /\ \A p \in Procs : CallOK(p)

\* The invariant holds in the initial state.
LEMMA InitInv == Init => Inv
<1> SUFFICES ASSUME Init PROVE Inv
  OBVIOUS
<1>1. TypeOK
  BY DEF Init, LockInit, TypeOK, LockTypeOK
<1>2. HostLocked /\ LatestRow /\ MutationsRecorded
  BY DEF Init, LockInit, HostLocked, LatestRow, MutationsRecorded
<1>3. \A p \in Procs : CallOK(p)
  BY DEF Init, CallOK
<1> QED BY <1>1, <1>2, <1>3 DEF Inv

-----------------------------------------------------------------------------
(* The lease                                                               *)

\* The lease changes hands while calls are in progress: they go on with the
\* acquisition they loaded.
LEMMA LeasePreserves ==
  ASSUME Inv, UNCHANGED others, LockTypeOK', acquisitions <= acquisitions',
         lock' # NoRow => lock'.nth = acquisitions'
  PROVE  Inv'
<1>1. TypeOK /\ TypeOK'
  BY DEF Inv, TypeOK, others, host, record, docker, bounds
<1>2. HostLocked' /\ MutationsRecorded'
  BY DEF Inv, HostLocked, MutationsRecorded, others, host, record, docker
<1>3. LatestRow'
  <2>1. epoch \in Nat /\ acquisitions \in Nat /\ acquisitions' \in Nat
    BY <1>1 DEF TypeOK, LockTypeOK
  <2> QED BY <2>1 DEF Inv, LatestRow, others
<1>4. ASSUME NEW p \in Procs PROVE CallOK(p)'
  <2>1. acquisitions \in Nat /\ acquisitions' \in Nat
        /\ (call[p] # NoRow => call[p].under \in Nat)
    BY <1>1 DEF TypeOK, LockTypeOK, Call
  <2> QED BY <2>1 DEF Inv, CallOK, others, host, record
<1> QED BY <1>1, <1>2, <1>3, <1>4 DEF Inv

-----------------------------------------------------------------------------
(* Calls of execute()                                                      *)

\* A call in progress has its type, and is the only one.
LEMMA CallType ==
  ASSUME Inv, NEW p \in Procs, call[p] # NoRow
  PROVE  /\ call[p] \in Call /\ call[p].attempt \in Deployments
         /\ call[p].stage \in Stage /\ call[p].under \in Nat
         /\ call[p].verdict \in {"none", "healthy", "failed"}
         /\ hostLock = p
         /\ \A q \in Procs \ {p} : call[q] = NoRow
<1>1. call[p] \in Call
  BY DEF Inv, TypeOK
<1> QED BY <1>1 DEF Inv, HostLocked, Call

\* What the invariant says of the tables, the lease and Docker: all of it
\* but the calls
StateOK == TypeOK /\ LatestRow /\ MutationsRecorded

\* The call of p becomes k, or ends; the others are not in a call.
LEMMA CallStep ==
  ASSUME Inv, NEW p \in Procs, call[p] # NoRow, NEW k \in Call,
         call' = [call EXCEPT ![p] = k], UNCHANGED hostLock,
         StateOK', CallOK(p)'
  PROVE  Inv'
<1>1. call \in [Procs -> Call \cup {NoRow}]
  BY DEF Inv, TypeOK
<1>2. /\ hostLock = p /\ call'[p] = k
      /\ \A q \in Procs \ {p} : call'[q] = NoRow
  BY <1>1, CallType
<1>3. HostLocked' /\ \A q \in Procs : CallOK(q)'
  BY <1>2 DEF HostLocked, CallOK
<1> QED BY <1>3 DEF Inv, StateOK

\* The call of p ends.
LEMMA CallEnds ==
  ASSUME Inv, NEW p \in Procs, call[p] # NoRow, Leave(p), StateOK'
  PROVE  Inv'
<1>1. call \in [Procs -> Call \cup {NoRow}]
  BY DEF Inv, TypeOK
<1>2. \A q \in Procs : call'[q] = NoRow
  BY <1>1, CallType DEF Leave
<1> QED BY <1>2 DEF Inv, StateOK, HostLocked, CallOK

\* The types after a call ended or went on
LEMMA HostType ==
  ASSUME Inv, NEW p \in Procs
  PROVE  /\ Leave(p) => /\ call' \in [Procs -> Call \cup {NoRow}]
                        /\ hostLock' \in Procs \cup {Nobody}
         /\ \A k \in Call : call' = [call EXCEPT ![p] = k] =>
               call' \in [Procs -> Call \cup {NoRow}] /\ call'[p] = k
  BY DEF Inv, TypeOK, Leave

\* A call with another stage in it
LEMMA StageRecord ==
  ASSUME Inv, NEW p \in Procs, call[p] # NoRow, NEW stage \in Stage
  PROVE  LET k == [call[p] EXCEPT !.stage = stage] IN
         /\ k \in Call /\ k.attempt = call[p].attempt /\ k.stage = stage
         /\ k.under = call[p].under /\ k.verdict = call[p].verdict
<1>1. call[p] \in Call
  BY CallType
<1> QED BY <1>1 DEF Call

\* A call with a verdict
LEMMA VerdictRecord ==
  ASSUME Inv, NEW p \in Procs, call[p] # NoRow, NEW v \in {"healthy", "failed"}
  PROVE  LET k == [call[p] EXCEPT !.stage = "conclude", !.verdict = v] IN
         /\ k \in Call /\ k.attempt = call[p].attempt /\ k.stage = "conclude"
         /\ k.under = call[p].under /\ k.verdict = v
<1>1. call[p] \in Call
  BY CallType
<1> QED BY <1>1 DEF Call, Stage

\* The flock is taken when nobody has it.
LEMMA EnterPreserves ==
  ASSUME Inv, NEW p \in Procs, NEW d \in Deployments, Enter(p, d)
  PROVE  Inv'
<1>1. /\ TypeOK /\ hostLock = Nobody /\ hostLock' = p
      /\ \A q \in Procs : call[q] = NoRow
  BY ProductionConstants DEF Inv, Enter, HostLocked
<1> DEFINE k == [attempt |-> d, stage |-> "entered", under |-> 0,
                 verdict |-> "none"]
<1>2. k \in Call /\ k.stage = "entered"
  BY DEF Call, Stage
<1>3. call' = [call EXCEPT ![p] = k] /\ calls' = calls + 1
      /\ UNCHANGED <<lockVars, now, attempts, record, docker, mutations, epoch,
                     deaths>>
  BY DEF Enter
<1> HIDE DEF k
<1>4. /\ call' \in [Procs -> Call \cup {NoRow}] /\ call'[p] = k
      /\ \A q \in Procs \ {p} : call'[q] = NoRow
  BY <1>1, <1>2, <1>3 DEF TypeOK
<1>5. calls' \in Nat
  BY <1>1, <1>3 DEF TypeOK
<1>6. TypeOK'
  BY <1>1, <1>3, <1>4, <1>5 DEF TypeOK, LockTypeOK, lockVars, record, docker
<1>7. LatestRow' /\ MutationsRecorded'
  BY <1>3 DEF Inv, LatestRow, MutationsRecorded, lockVars, record, docker
<1>8. HostLocked' /\ \A q \in Procs : CallOK(q)'
  BY <1>1, <1>2, <1>4 DEF HostLocked, CallOK
<1> QED BY <1>6, <1>7, <1>8 DEF Inv

\* load() finds the latest acquisition, so nothing was done under a later
\* one; a submission that is on record is observed, another one prepared.
LEMMA LoadPreserves ==
  ASSUME Inv, NEW p \in Procs, Load(p)
  PROVE  Inv'
<1>1. /\ TypeOK /\ call[p] # NoRow /\ call[p] \in Call
      /\ call[p].attempt \in Deployments
      /\ UNCHANGED <<lockVars, now, attempts, record, docker, mutations, epoch,
                     bounds>>
  BY CallType DEF Inv, Load, At
<1>2. LatestRow' /\ MutationsRecorded'
  BY <1>1 DEF Inv, LatestRow, MutationsRecorded, lockVars, record, docker
<1>3. ASSUME call' \in [Procs -> Call \cup {NoRow}],
             hostLock' \in Procs \cup {Nobody}
      PROVE  StateOK'
  BY <1>1, <1>2, <1>3 DEF StateOK, TypeOK, LockTypeOK, lockVars, record,
     docker, bounds
<1>4. CASE Leave(p)
  BY <1>1, <1>3, <1>4, CallEnds, HostType
<1>5. ASSUME NEW stage \in {"observe", "prepare"}, UNCHANGED hostLock,
             Loadable(call[p].attempt), verdict[call[p].attempt] = "none",
             call[p].attempt \in submitted <=> stage = "observe",
             call' = [call EXCEPT ![p].under = lock.nth, ![p].stage = stage]
      PROVE  Inv'
  <2> DEFINE k == [call[p] EXCEPT !.under = lock.nth, !.stage = stage]
  <2>1. lock \in LockRow /\ lock.nth = acquisitions /\ lock.nth \in Nat
    BY <1>1, <1>5 DEF Loadable, Inv, LatestRow, TypeOK, LockTypeOK, LockRow
  <2>2. /\ k \in Call /\ k.attempt = call[p].attempt /\ k.stage = stage
        /\ k.under = acquisitions /\ k.verdict = call[p].verdict
    BY <1>1, <2>1 DEF Call, Stage
  <2>3. call' = [call EXCEPT ![p] = k]
    BY <1>5
  <2> HIDE DEF k
  <2>4. /\ call' \in [Procs -> Call \cup {NoRow}] /\ call'[p] = k
        /\ hostLock' \in Procs \cup {Nobody}
    BY <1>1, <1>5, <2>2, <2>3, HostType DEF TypeOK
  <2>5. /\ mutations[call[p].attempt] \in {0, 1}
        /\ stage = "prepare" => mutations[call[p].attempt] = 0
        /\ epoch <= acquisitions /\ acquisitions <= acquisitions
    <3>1. acquisitions \in Nat
      BY <1>1 DEF TypeOK, LockTypeOK
    <3> QED BY <1>1, <1>5, <3>1 DEF Inv, MutationsRecorded, LatestRow
  <2>6. CallOK(p)'
    <3>1. UNCHANGED <<epoch, acquisitions, verdict, mutations, submitted>>
      BY <1>1 DEF record, lockVars
    <3>2. CASE stage = "observe"
      <4>1. call[p].attempt \in submitted
        BY <1>5, <3>2
      <4>2. call'[p].stage = "observe" /\ call'[p].attempt = call[p].attempt
            /\ call'[p].under = acquisitions
        BY <2>2, <2>4, <3>2
      <4>3. call'[p].attempt \in submitted'
        BY <3>1, <4>1, <4>2
      <4>4. verdict'[call'[p].attempt] = "none"
        BY <1>5, <3>1, <4>2
      <4>5. epoch' <= call'[p].under /\ call'[p].under <= acquisitions'
        BY <2>5, <3>1, <4>2
      <4> QED BY <4>2, <4>3, <4>4, <4>5 DEF CallOK
    <3>3. CASE stage = "prepare"
      BY <1>5, <2>2, <2>4, <2>5, <3>1, <3>3 DEF CallOK
    <3> QED BY <3>2, <3>3
  <2> QED BY <1>1, <1>3, <1>5, <2>2, <2>3, <2>4, <2>6, CallStep
<1> QED BY <1>4, <1>5 DEF Load

\* A call that has loaded its attempt goes on under the acquisition it found.
LEMMA GoesOn ==
  ASSUME Inv, NEW p \in Procs, call[p] # NoRow, call[p].stage # "entered",
         NEW k \in Call, call' = [call EXCEPT ![p] = k], UNCHANGED hostLock,
         k.attempt = call[p].attempt, k.under = call[p].under,
         k.stage \notin {"entered", "prepare"},
         k.attempt \in submitted',
         k.stage = "submit" => mutations'[k.attempt] = 0,
         k.stage \in {"submitting", "health", "conclude"} =>
            mutations'[k.attempt] = 1,
         k.stage = "conclude" => k.verdict # "none",
         UNCHANGED <<verdict, acquisitions>>,
         epoch' = epoch \/ epoch' = call[p].under,
         StateOK'
  PROVE  Inv'
<1>1. call'[p] = k
  BY HostType
<1>2. /\ verdict[call[p].attempt] = "none" /\ call[p].under \in Nat
      /\ epoch <= call[p].under /\ call[p].under <= acquisitions
  BY CallType DEF Inv, CallOK
<1>3. /\ verdict'[k.attempt] = "none"
      /\ epoch' <= k.under /\ k.under <= acquisitions'
  BY <1>2
<1>4. CallOK(p)'
  BY <1>1, <1>3 DEF CallOK
<1> QED BY <1>4, CallStep

\* The types hold when a step of a call changes Docker, the record of its own
\* submission and the epoch.
LEMMA ExecuteType ==
  ASSUME Inv, UNCHANGED <<lockVars, now, attempts, bounds>>,
         call' \in [Procs -> Call \cup {NoRow}],
         hostLock' \in Procs \cup {Nobody},
         submitted' \subseteq Deployments, clients' \subseteq Deployments,
         verdict' \in [Deployments -> {"none", "healthy", "failed"}],
         containers' \in [Services -> Deployments \cup {NoRow}],
         mutations' \in [Deployments -> Nat], epoch' \in Nat
  PROVE  TypeOK'
  BY DEF Inv, TypeOK, LockTypeOK, lockVars, bounds

\* MUTATION_SUBMITTED is on record before the mutation starts.
LEMMA RecordSubmissionPreserves ==
  ASSUME Inv, NEW p \in Procs, RecordSubmission(p)
  PROVE  Inv'
<1>1. /\ TypeOK /\ call[p] # NoRow /\ call[p].stage = "prepare"
      /\ call[p].attempt \in Deployments
      /\ UNCHANGED <<lockVars, now, attempts, verdict, docker, mutations, epoch,
                     bounds>>
      /\ UNCHANGED <<clients, containers, acquisitions>>
      /\ mutations[call[p].attempt] = 0
  BY CallType DEF Inv, RecordSubmission, At, CallOK, docker, lockVars
<1>2. ASSUME submitted \subseteq submitted', submitted' \subseteq Deployments,
             call' \in [Procs -> Call \cup {NoRow}],
             hostLock' \in Procs \cup {Nobody}
      PROVE  StateOK'
  <2>1. TypeOK'
    BY <1>1, <1>2, ExecuteType DEF TypeOK
  <2>2. LatestRow'
    BY <1>1 DEF Inv, LatestRow, lockVars
  <2>3. MutationsRecorded'
    BY <1>1, <1>2 DEF Inv, MutationsRecorded
  <2> QED BY <2>1, <2>2, <2>3 DEF StateOK
<1>3. CASE Leave(p) /\ UNCHANGED submitted
  <2>1. submitted \subseteq submitted' /\ submitted' \subseteq Deployments
    BY <1>1, <1>3 DEF TypeOK
  <2> QED BY <1>1, <1>2, <1>3, <2>1, CallEnds, HostType
<1>4. ASSUME submitted' = submitted \cup {call[p].attempt}, Goto(p, "submit")
      PROVE  Inv'
  <2> DEFINE k == [call[p] EXCEPT !.stage = "submit"]
  <2>1. /\ k \in Call /\ k.attempt = call[p].attempt /\ k.stage = "submit"
        /\ k.under = call[p].under
    BY <1>1, StageRecord DEF Stage
  <2>2. call' = [call EXCEPT ![p] = k] /\ UNCHANGED hostLock
    BY <1>4 DEF Goto
  <2> HIDE DEF k
  <2>3. /\ submitted \subseteq submitted' /\ submitted' \subseteq Deployments
        /\ call[p].attempt \in submitted'
    BY <1>1, <1>4 DEF TypeOK
  <2>4. /\ call' \in [Procs -> Call \cup {NoRow}]
        /\ hostLock' \in Procs \cup {Nobody}
    BY <1>1, <2>1, <2>2, HostType DEF TypeOK
  <2>5. StateOK'
    BY <1>2, <2>3, <2>4
  <2> QED BY <1>1, <2>1, <2>2, <2>3, <2>5, GoesOn
<1> QED BY <1>3, <1>4 DEF RecordSubmission

\* The epoch becomes the acquisition the call has loaded.
LEMMA EffectEpoch ==
  ASSUME Inv, NEW p \in Procs, call[p] # NoRow, call[p].stage # "entered",
         Effect(p)
  PROVE  /\ epoch' \in Nat /\ epoch' <= acquisitions
         /\ epoch' = epoch \/ epoch' = call[p].under
  BY CallType DEF Inv, TypeOK, LatestRow, CallOK, Effect

\* The first and only mutation of the attempt starts.
LEMMA SubmitPreserves ==
  ASSUME Inv, NEW p \in Procs, Submit(p)
  PROVE  Inv'
<1>1. /\ TypeOK /\ call[p] # NoRow /\ call[p].stage = "submit"
      /\ call[p].attempt \in Deployments
      /\ UNCHANGED <<lockVars, now, attempts, record, containers, bounds>>
      /\ UNCHANGED <<submitted, verdict, acquisitions>>
      /\ mutations[call[p].attempt] = 0 /\ call[p].attempt \in submitted
      /\ Effect(p)
      /\ clients' = clients \cup {call[p].attempt}
      /\ mutations' = [mutations EXCEPT ![call[p].attempt] = @ + 1]
  BY CallType DEF Inv, Submit, At, CallOK, record, lockVars
<1>2. /\ mutations' \in [Deployments -> Nat]
      /\ mutations'[call[p].attempt] = 1
      /\ \A d \in Deployments : d # call[p].attempt =>
                                   mutations'[d] = mutations[d]
  BY <1>1 DEF TypeOK
<1> DEFINE k == [call[p] EXCEPT !.stage = "submitting"]
<1>3. /\ k \in Call /\ k.attempt = call[p].attempt /\ k.stage = "submitting"
      /\ k.under = call[p].under
  BY <1>1, StageRecord DEF Stage
<1>4. call' = [call EXCEPT ![p] = k] /\ UNCHANGED hostLock
  BY DEF Submit, Goto
<1> HIDE DEF k
<1>5. /\ epoch' \in Nat /\ epoch' <= acquisitions
      /\ epoch' = epoch \/ epoch' = call[p].under
  BY <1>1, EffectEpoch
<1>6. clients' \subseteq Deployments
  BY <1>1 DEF TypeOK
<1>7. TypeOK'
  <2>1. /\ call' \in [Procs -> Call \cup {NoRow}]
        /\ hostLock' \in Procs \cup {Nobody}
    BY <1>1, <1>3, <1>4, HostType DEF TypeOK
  <2> QED BY <1>1, <1>2, <1>5, <1>6, <2>1, ExecuteType DEF TypeOK
<1>8. LatestRow'
  BY <1>1, <1>5 DEF Inv, LatestRow, lockVars
<1>9. MutationsRecorded'
  <2>1. ASSUME NEW d \in Deployments
        PROVE  /\ mutations'[d] \in {0, 1}
               /\ mutations'[d] = 1 => d \in submitted'
               /\ d \in clients' => mutations'[d] = 1
    BY <1>1, <1>2 DEF Inv, MutationsRecorded
  <2>2. ASSUME NEW s \in Services, containers[s] # NoRow
        PROVE  mutations'[containers[s]] = 1
    BY <1>1, <1>2, <2>2 DEF Inv, MutationsRecorded, TypeOK
  <2> QED BY <1>1, <2>1, <2>2 DEF MutationsRecorded
<1> QED BY <1>1, <1>2, <1>3, <1>4, <1>5, <1>7, <1>8, <1>9, GoesOn DEF StateOK

\* A step of a call that leaves the record, the containers and the lease
\* alone; a client may end.
LEMMA QuietState ==
  ASSUME Inv, clients' \subseteq clients, calls' \in Nat, deaths' \in Nat,
         UNCHANGED <<lockVars, now, attempts, record, containers, mutations,
                     epoch>>,
         call' \in [Procs -> Call \cup {NoRow}],
         hostLock' \in Procs \cup {Nobody}
  PROVE  StateOK'
<1>1. TypeOK'
  BY DEF Inv, TypeOK, LockTypeOK, lockVars, record
<1>2. LatestRow'
  BY DEF Inv, LatestRow, lockVars
<1>3. MutationsRecorded'
  BY DEF Inv, MutationsRecorded, record
<1> QED BY <1>1, <1>2, <1>3 DEF StateOK

\* Such a step takes a call that has loaded its attempt to a later stage.
LEMMA QuietGoesOn ==
  ASSUME Inv, NEW p \in Procs, call[p] # NoRow,
         call[p].stage \notin {"entered", "prepare"},
         clients' \subseteq clients,
         UNCHANGED <<lockVars, now, attempts, record, containers, mutations,
                     epoch, bounds, hostLock>>,
         NEW k \in Call, call' = [call EXCEPT ![p] = k],
         k.attempt = call[p].attempt, k.under = call[p].under,
         k.stage \in {"health", "conclude"} => mutations[call[p].attempt] = 1,
         k.stage \in {"health", "conclude", "observe"},
         k.stage = "conclude" => k.verdict # "none"
  PROVE  Inv'
<1>1. TypeOK /\ calls' \in Nat /\ deaths' \in Nat
  BY DEF Inv, TypeOK, bounds
<1>2. /\ call' \in [Procs -> Call \cup {NoRow}]
      /\ hostLock' \in Procs \cup {Nobody}
  BY <1>1, HostType DEF TypeOK
<1>3. StateOK'
  BY <1>1, <1>2, QuietState
<1>4. call[p].attempt \in submitted /\ submitted' = submitted
  BY DEF Inv, CallOK, record
<1>5. k.attempt \in submitted'
  BY <1>4
<1>6. UNCHANGED <<verdict, acquisitions>>
  BY DEF record, lockVars
<1> QED BY <1>3, <1>5, <1>6, GoesOn

\* Such a step ends a call.
LEMMA QuietLeave ==
  ASSUME Inv, NEW p \in Procs, call[p] # NoRow, Leave(p),
         clients' \subseteq clients, calls' \in Nat, deaths' \in Nat,
         UNCHANGED <<lockVars, now, attempts, record, containers, mutations,
                     epoch>>
  PROVE  Inv'
  BY QuietState, CallEnds, HostType

\* The client returns, fails, or is given up after 120 seconds.
LEMMA SubmittingPreserves ==
  ASSUME Inv, NEW p \in Procs,
         SubmitAcknowledged(p) \/ SubmitFailed(p) \/ SubmitTimeout(p)
  PROVE  Inv'
<1>1. /\ call[p] # NoRow /\ call[p].stage = "submitting"
      /\ clients' \subseteq clients
      /\ UNCHANGED <<lockVars, now, attempts, record, containers, mutations,
                     epoch, bounds, hostLock>>
  BY DEF SubmitAcknowledged, SubmitFailed, SubmitTimeout, At, Goto
<1>2. mutations[call[p].attempt] = 1
  BY <1>1 DEF Inv, CallOK
<1>3. CASE SubmitAcknowledged(p) \/ SubmitTimeout(p)
  <2>1. PICK stage \in {"health", "observe"} :
           call' = [call EXCEPT ![p].stage = stage]
    BY <1>3 DEF SubmitAcknowledged, SubmitTimeout, Goto
  <2> DEFINE k == [call[p] EXCEPT !.stage = stage]
  <2> stage \in Stage
    BY <2>1 DEF Stage
  <2>2. /\ k \in Call /\ k.attempt = call[p].attempt /\ k.stage = stage
        /\ k.under = call[p].under
    BY <1>1, StageRecord
  <2>3. call' = [call EXCEPT ![p] = k]
    BY <2>1
  <2> HIDE DEF k
  <2> QED BY <1>1, <1>2, <2>2, <2>3, QuietGoesOn
<1>4. CASE SubmitFailed(p)
  <2> DEFINE k == [call[p] EXCEPT !.stage = "conclude", !.verdict = "failed"]
  <2>1. /\ k \in Call /\ k.attempt = call[p].attempt /\ k.stage = "conclude"
        /\ k.under = call[p].under /\ k.verdict = "failed"
    BY <1>1, VerdictRecord
  <2>2. call' = [call EXCEPT ![p] = k]
    BY <1>4 DEF SubmitFailed
  <2> HIDE DEF k
  <2> QED BY <1>1, <1>2, <2>1, <2>2, QuietGoesOn
<1> QED BY <1>3, <1>4

\* Only containers with the labels of the attempt are judged, and they are
\* there because of its mutation.
LEMMA BoundMeansMutated ==
  ASSUME Inv, NEW d \in Deployments, BindingValid(d) \/ AllBound(d)
  PROVE  mutations[d] = 1
<1>1. PICK s \in Services : containers[s] = d
  BY ProductionConstants DEF BindingValid, AllBound
<1>2. d # NoRow
  BY LockConstants
<1> QED BY <1>1, <1>2 DEF Inv, MutationsRecorded

\* _reconcile_locked and _health_locked
LEMMA JudgingPreserves ==
  ASSUME Inv, NEW p \in Procs, Observe(p) \/ VerifyHealth(p)
  PROVE  Inv'
<1>1. /\ call[p] # NoRow /\ call[p].stage \in {"observe", "health"}
      /\ call[p].attempt \in Deployments
      /\ clients' \subseteq clients
      /\ UNCHANGED <<lockVars, now, attempts, record, containers, mutations,
                     epoch, bounds>>
      /\ calls' \in Nat /\ deaths' \in Nat
  BY CallType DEF Inv, TypeOK, Observe, VerifyHealth, At, docker, bounds
<1>2. call[p].stage = "health" => mutations[call[p].attempt] = 1
  BY <1>1 DEF Inv, CallOK
<1>3. CASE Leave(p)
  BY <1>1, <1>3, QuietLeave
<1>4. CASE AllBound(call[p].attempt) /\ Goto(p, "health")
  <2> DEFINE k == [call[p] EXCEPT !.stage = "health"]
  <2>1. /\ k \in Call /\ k.attempt = call[p].attempt /\ k.stage = "health"
        /\ k.under = call[p].under
    BY <1>1, StageRecord DEF Stage
  <2>2. call' = [call EXCEPT ![p] = k] /\ UNCHANGED hostLock
    BY <1>4 DEF Goto
  <2> HIDE DEF k
  <2>3. mutations[call[p].attempt] = 1
    BY <1>1, <1>4, BoundMeansMutated
  <2> QED BY <1>1, <2>1, <2>2, <2>3, QuietGoesOn
<1>5. ASSUME NEW v \in {"healthy", "failed"}, UNCHANGED hostLock,
             BindingValid(call[p].attempt) \/ call[p].stage = "health",
             call' = [call EXCEPT ![p].stage = "conclude", ![p].verdict = v]
      PROVE  Inv'
  <2> DEFINE k == [call[p] EXCEPT !.stage = "conclude", !.verdict = v]
  <2>1. /\ k \in Call /\ k.attempt = call[p].attempt /\ k.stage = "conclude"
        /\ k.under = call[p].under /\ k.verdict = v
    BY <1>1, VerdictRecord
  <2>2. call' = [call EXCEPT ![p] = k]
    BY <1>5
  <2> HIDE DEF k
  <2>3. mutations[call[p].attempt] = 1
    BY <1>1, <1>2, <1>5, BoundMeansMutated
  <2> QED BY <1>1, <1>5, <2>1, <2>2, <2>3, QuietGoesOn
<1>6. CASE Observe(p)
  BY <1>3, <1>4, <1>5, <1>6 DEF Observe
<1>7. CASE VerifyHealth(p)
  BY <1>5, <1>7 DEF VerifyHealth, At
<1> QED BY <1>6, <1>7

\* The verdict is written under the acquisition the call has loaded.
LEMMA ConcludePreserves ==
  ASSUME Inv, NEW p \in Procs, Conclude(p)
  PROVE  Inv'
<1>1. /\ TypeOK /\ call[p] # NoRow /\ call[p].stage = "conclude"
      /\ call[p].attempt \in Deployments
      /\ call[p].verdict \in {"none", "healthy", "failed"}
      /\ UNCHANGED <<lockVars, now, attempts, submitted, docker, mutations,
                     bounds>>
      /\ UNCHANGED <<clients, containers>>
      /\ Leave(p) /\ Effect(p)
      /\ verdict' = [verdict EXCEPT ![call[p].attempt] = call[p].verdict]
  BY CallType DEF Inv, Conclude, At, docker
<1>2. epoch' \in Nat /\ epoch' <= acquisitions
  BY <1>1, EffectEpoch
<1>3. verdict' \in [Deployments -> {"none", "healthy", "failed"}]
  BY <1>1 DEF TypeOK
<1>4. TypeOK'
  BY <1>1, <1>2, <1>3, HostType, ExecuteType DEF TypeOK
<1>5. LatestRow'
  BY <1>1, <1>2 DEF Inv, LatestRow, lockVars
<1>6. MutationsRecorded'
  BY <1>1 DEF Inv, MutationsRecorded
<1> QED BY <1>1, <1>4, <1>5, <1>6, CallEnds DEF StateOK

\* A dead process leaves everything but its call and the flock behind.
LEMMA DiePreserves ==
  ASSUME Inv, NEW p \in Procs, Die(p)
  PROVE  Inv'
<1>1. deaths \in Nat /\ calls \in Nat
  BY DEF Inv, TypeOK
<1>2. /\ call[p] # NoRow /\ Leave(p) /\ clients' \subseteq clients
      /\ UNCHANGED <<lockVars, now, attempts, record, containers, mutations,
                     epoch>>
      /\ calls' \in Nat /\ deaths' \in Nat
  BY <1>1 DEF Die, docker
<1> QED BY <1>2, QuietLeave

\* A compose client recreates containers with the labels of its attempt, or
\* ends.
LEMMA DockerPreserves ==
  ASSUME Inv, NEW d \in Deployments,
         (\E s \in Services : ComposeRecreates(d, s)) \/ ClientExits(d)
  PROVE  Inv'
<1>1. /\ TypeOK /\ d \in clients /\ mutations[d] = 1
      /\ UNCHANGED <<lockVars, now, attempts, host, record, mutations, epoch,
                     bounds>>
      /\ UNCHANGED <<call, hostLock, submitted, verdict>>
      /\ clients' \subseteq clients
  BY DEF Inv, MutationsRecorded, ComposeRecreates, ClientExits, host, record
<1>2. /\ containers' \in [Services -> Deployments \cup {NoRow}]
      /\ \A s \in Services : containers'[s] \in {containers[s], d}
  <2>1. CASE UNCHANGED containers
    BY <1>1, <2>1 DEF TypeOK
  <2>2. ASSUME NEW s \in Services, ComposeRecreates(d, s)
        PROVE  /\ containers' \in [Services -> Deployments \cup {NoRow}]
               /\ \A t \in Services : containers'[t] \in {containers[t], d}
    BY <1>1, <2>2 DEF ComposeRecreates, TypeOK
  <2> QED BY <2>1, <2>2 DEF ClientExits
<1>3. TypeOK'
  BY <1>1, <1>2 DEF TypeOK, LockTypeOK, lockVars, bounds
<1>4. MutationsRecorded'
  BY <1>1, <1>2 DEF Inv, MutationsRecorded
<1>5. HostLocked' /\ LatestRow'
  BY <1>1 DEF Inv, HostLocked, LatestRow, lockVars
<1>6. \A p \in Procs : CallOK(p)'
  BY <1>1 DEF Inv, CallOK, lockVars
<1> QED BY <1>3, <1>4, <1>5, <1>6 DEF Inv

\* start_production_deployment inserts the attempt of the lease's deployment.
LEMMA StartPreserves ==
  ASSUME Inv, NEW c \in Callers, StartAttempt(c)
  PROVE  Inv'
<1>1. /\ TypeOK /\ lock # NoRow
      /\ attempts' = [attempts EXCEPT ![lock.deployment] = lock.token]
      /\ UNCHANGED <<lockVars, now, host, record, docker, mutations, epoch,
                     bounds>>
  BY DEF Inv, StartAttempt, OwnsRow
<1>2. lock.token \in Nat
  BY <1>1 DEF TypeOK, LockTypeOK, LockRow
<1>3. attempts' \in [Deployments -> Nat \cup {NoRow}]
  BY <1>1, <1>2 DEF TypeOK
<1>4. TypeOK'
  BY <1>1, <1>3 DEF TypeOK, LockTypeOK, lockVars, host, record, docker, bounds
<1>5. HostLocked' /\ LatestRow' /\ MutationsRecorded'
  BY <1>1 DEF Inv, HostLocked, LatestRow, MutationsRecorded, lockVars, host,
     record, docker
<1>6. \A p \in Procs : CallOK(p)'
  BY <1>1 DEF Inv, CallOK, lockVars, host, record
<1> QED BY <1>4, <1>5, <1>6 DEF Inv

-----------------------------------------------------------------------------
(* The theorems                                                            *)

\* Every step of the host, the control plane and Docker keeps the invariant.
LEMMA NextInv ==
  ASSUME Inv, [Next]_vars
  PROVE  Inv'
<1>1. ASSUME NEW c \in Callers, LockStep(c), UNCHANGED <<now, others>>
      PROVE  Inv'
  <2>1. LockTypeOK /\ (lock # NoRow => lock.nth = acquisitions)
    BY DEF Inv, TypeOK, LatestRow
  <2>2. /\ LockTypeOK' /\ acquisitions <= acquisitions'
        /\ lock' # NoRow => lock'.nth = acquisitions'
    BY <1>1, <2>1, LockStepType
  <2> QED BY <1>1, <2>2, LeasePreserves
<1>2. CASE ClockTick /\ UNCHANGED <<lockVars, others>>
  <2>1. LockTypeOK /\ now \in Nat /\ acquisitions \in Nat
    BY DEF Inv, TypeOK, LockTypeOK
  <2>2. LockTypeOK' /\ acquisitions <= acquisitions'
    BY <1>2, <2>1 DEF ClockTick, LockTypeOK, lockVars
  <2>3. lock' # NoRow => lock'.nth = acquisitions'
    BY <1>2 DEF Inv, LatestRow, lockVars
  <2> QED BY <1>2, <2>2, <2>3, LeasePreserves
<1>3. ASSUME NEW p \in Procs, Execute(p)
      PROVE  Inv'
  BY <1>3, EnterPreserves, LoadPreserves, RecordSubmissionPreserves,
     SubmitPreserves, SubmittingPreserves, JudgingPreserves,
     ConcludePreserves, DiePreserves DEF Execute
<1>4. CASE UNCHANGED vars
  <2>1. UNCHANGED others /\ UNCHANGED <<lockVars, now>>
    BY <1>4 DEF vars, others
  <2>2. LockTypeOK' /\ acquisitions <= acquisitions'
    BY <2>1 DEF Inv, TypeOK, LockTypeOK, lockVars
  <2>3. lock' # NoRow => lock'.nth = acquisitions'
    BY <2>1 DEF Inv, LatestRow, lockVars
  <2> QED BY <2>1, <2>2, <2>3, LeasePreserves
<1> QED BY <1>1, <1>2, <1>3, <1>4, StartPreserves, DockerPreserves DEF Next

\* Every reachable state satisfies the invariant.
LEMMA Invariant == Spec => []Inv
<1>1. Inv /\ [Next]_vars => Inv'
  BY NextInv
<1> QED BY <1>1, InitInv, PTL DEF Spec

\* The variables keep their types: the row of the lease, the calls of
\* execute(), the record of the attempts and what Docker shows.
THEOREM TypeCorrect == Spec => []TypeOK
<1>1. Inv => TypeOK
  BY DEF Inv
<1> QED BY <1>1, Invariant, PTL

\* Two supervisor processes are never inside the section that the flock of
\* the host protects.
HostExclusion ==
    \A p, q \in Procs : call[p] # NoRow /\ call[q] # NoRow => p = q

\* HostExecutionLock excludes: however many processes call execute(), die
\* and are started again, at most one of them is between load() and the
\* verdict.
THEOREM OneProcessInside == Spec => []HostExclusion
<1>1. Inv => HostExclusion
  BY DEF Inv, HostLocked, HostExclusion
<1> QED BY <1>1, Invariant, PTL

\* The record of a submission comes before its effects: whatever runs on the
\* host with the labels of an attempt, or still works on it, belongs to an
\* attempt whose MUTATION_SUBMITTED is on record, so that a later call
\* observes it and does not submit it again.
EffectsAreRecorded ==
    /\ clients \subseteq submitted
    /\ \A s \in Services : containers[s] # NoRow => containers[s] \in submitted

\* execute() writes the marker and the journal before it calls
\* runtime.submit.
THEOREM RecordedBeforeEffect == Spec => []EffectsAreRecorded
<1>1. Inv => EffectsAreRecorded
  <2> SUFFICES ASSUME Inv PROVE EffectsAreRecorded
    OBVIOUS
  <2>1. /\ clients \subseteq Deployments
        /\ \A s \in Services : containers[s] \in Deployments \cup {NoRow}
    BY DEF Inv, TypeOK
  <2> QED BY <2>1 DEF Inv, MutationsRecorded, EffectsAreRecorded
<1> QED BY <1>1, Invariant, PTL

\* Supervisors act in the order of the lease: once something was done under
\* an acquisition, nothing is done under an earlier one.  load() reads the
\* lease inside the flock, and the flock is given back only when the call
\* ends, so that the acquisition a call has loaded is at least that of
\* everything before it.
THEOREM ActsInLeaseOrder == Spec => FencedOrder
<1>1. ASSUME Inv, [Next]_vars
      PROVE  [\A p \in Procs : Submit(p) \/ Conclude(p) =>
                                  call[p].under >= epoch]_vars
  <2> SUFFICES ASSUME NEW p \in Procs, Submit(p) \/ Conclude(p)
               PROVE  call[p].under >= epoch
    OBVIOUS
  <2>1. call[p] # NoRow /\ call[p].stage # "entered"
    BY DEF Submit, Conclude, At
  <2>2. epoch <= call[p].under /\ epoch \in Nat /\ call[p].under \in Nat
    BY <1>1, <2>1, CallType DEF Inv, CallOK, TypeOK
  <2> QED BY <2>2
<1> QED BY <1>1, Invariant, PTL DEF Spec, FencedOrder

\* The host executes attempts the way AttemptExecution says: mutated at most
\* once, and one verdict, after the mutation; whichever lease changes hands,
\* process dies or client lives on.
THEOREM Refinement == Spec => ImplementsExecutions
<1>1. Init => Executions!Init
  BY DEF Init, Executions!Init
<1>2. ASSUME Inv, [Next]_vars
      PROVE  [Executions!Next]_<<mutations, verdict>>
  <2>1. ASSUME NEW p \in Procs, Submit(p)
        PROVE  Executions!Next
    <3>1. /\ call[p].attempt \in Deployments
          /\ mutations[call[p].attempt] = 0 /\ verdict[call[p].attempt] = "none"
      BY <1>2, <2>1, CallType DEF Submit, At, Inv, CallOK
    <3>2. /\ mutations' = [mutations EXCEPT ![call[p].attempt] = 1]
          /\ verdict' = verdict
      BY <1>2, <2>1, <3>1 DEF Submit, record, Inv, TypeOK
    <3> QED BY <3>1, <3>2 DEF Executions!Next, Executions!Mutate
  <2>2. ASSUME NEW p \in Procs, Conclude(p)
        PROVE  Executions!Next
    <3>1. /\ call[p].attempt \in Deployments
          /\ mutations[call[p].attempt] = 1 /\ verdict[call[p].attempt] = "none"
          /\ call[p].verdict \in {"healthy", "failed"}
      BY <1>2, <2>2, CallType DEF Conclude, At, Inv, CallOK
    <3>2. /\ verdict' = [verdict EXCEPT ![call[p].attempt] = call[p].verdict]
          /\ mutations' = mutations
      BY <2>2 DEF Conclude
    <3> QED BY <3>1, <3>2 DEF Executions!Next, Executions!Conclude
  <2>3. ASSUME NEW p \in Procs, Execute(p), ~Submit(p), ~Conclude(p)
        PROVE  UNCHANGED <<mutations, verdict>>
    BY <2>3 DEF Execute, Enter, Load, RecordSubmission, SubmitAcknowledged,
       SubmitFailed, SubmitTimeout, Observe, VerifyHealth, Die, record
  <2>4. CASE UNCHANGED vars
    BY <2>4 DEF vars, record
  <2>5. ASSUME NEW c \in Callers,
               (LockStep(c) /\ UNCHANGED <<now, others>>) \/ StartAttempt(c)
        PROVE  UNCHANGED <<mutations, verdict>>
    BY <2>5 DEF others, StartAttempt, record
  <2>6. CASE ClockTick /\ UNCHANGED <<lockVars, others>>
    BY <2>6 DEF others, record
  <2>7. ASSUME NEW d \in Deployments,
               (\E s \in Services : ComposeRecreates(d, s)) \/ ClientExits(d)
        PROVE  UNCHANGED <<mutations, verdict>>
    BY <2>7 DEF ComposeRecreates, ClientExits, record
  <2> QED BY <1>2, <2>1, <2>2, <2>3, <2>4, <2>5, <2>6, <2>7 DEF Next
<1> QED BY <1>1, <1>2, Invariant, PTL
        DEF Spec, ImplementsExecutions, Executions!Spec
=============================================================================
