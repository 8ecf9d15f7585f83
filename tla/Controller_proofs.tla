-------------------------- MODULE Controller_proofs --------------------------
(***************************************************************************)
(* For every workflow, every bound on faults, crashes and cancels.         *)
(* Whatever fails: the controller is type correct, believes in no success  *)
(* that did not happen, starts no step before the successes it needs, and  *)
(* keeps the promise of StepRuns.  Under the faults each theorem names:    *)
(* saved outcomes stay, no fresh start follows a failure, a canceled step  *)
(* was asked to stop, a skipped one never ran, nothing runs on after       *)
(* main(), the verdict is what happened and is what is reported.           *)
(***************************************************************************)
EXTENDS StatusReport, TLAPS

-----------------------------------------------------------------------------
(* The rules of DagRules.                                                  *)

(***************************************************************************)
(* Settling the phases (skip_dead_ends, apply_failure_teardown) marks      *)
(* PENDING steps SKIPPED and does nothing else.                            *)
(***************************************************************************)
LEMMA SettleOnlySkips ==
  ASSUME NEW ph \in PhaseMap, NEW ex
  PROVE  /\ Settle(ph, ex) \in PhaseMap
         /\ \A s \in Steps : \/ Settle(ph, ex)[s] = ph[s]
                             \/ ph[s] = "PENDING" /\ Settle(ph, ex)[s] = "SKIPPED"
<1>1. ASSUME NEW p \in PhaseMap, NEW D \in SUBSET Pending(p)
      PROVE  /\ MarkSkipped(p, D) \in PhaseMap
             /\ \A s \in Steps : \/ MarkSkipped(p, D)[s] = p[s]
                                 \/ p[s] = "PENDING" /\ MarkSkipped(p, D)[s] = "SKIPPED"
  BY <1>1 DEF MarkSkipped, PhaseMap, Phases, TERMINAL_PHASES, Pending
<1> DEFINE q == skip_dead_ends(ph, ex)
<1>2. /\ q \in PhaseMap
      /\ \A s \in Steps : q[s] = ph[s] \/ (ph[s] = "PENDING" /\ q[s] = "SKIPPED")
  BY <1>1 DEF skip_dead_ends, DeadEnds
<1> HIDE DEF q
<1>3. Settle(ph, ex) = apply_failure_teardown(q, ex)
  BY DEF Settle, q
<1>4. CASE WorkflowFailed(q)
  <2>1. Settle(ph, ex) = MarkSkipped(q, Pending(q) \ reactive_preserve_set(q, ex))
    BY <1>3, <1>4 DEF apply_failure_teardown
  <2> QED BY <2>1, <1>1, <1>2
<1>5. CASE ~WorkflowFailed(q)
  BY <1>2, <1>3, <1>5 DEF apply_failure_teardown
<1> QED BY <1>4, <1>5

\* s has a dependency that failed and whose failure it reacts to.
ReactsTo(s, ph) ==
  \E c \in Deps[s] : c.when \in {"ON_FAILURE", "ALWAYS"} /\ ph[c.step] = "FAILED"

(***************************************************************************)
(* Once a required step has failed, settling leaves only those PENDING     *)
(* that react to a failure, and only then asks for cancels.                *)
(***************************************************************************)
LEMMA SettleTearsDown ==
  ASSUME NEW ph \in PhaseMap, NEW ex
  PROVE  /\ WorkflowFailed(Settle(ph, ex)) <=> WorkflowFailed(ph)
         /\ WorkflowFailed(ph) =>
              \A s \in Steps : Settle(ph, ex)[s] = "PENDING" => ReactsTo(s, Settle(ph, ex))
         /\ TeardownCancels(skip_dead_ends(ph, ex), ex) # {} => WorkflowFailed(ph)
<1> DEFINE q == skip_dead_ends(ph, ex)
<1>1. q \in PhaseMap /\ \A s \in Steps : q[s] = "FAILED" <=> ph[s] = "FAILED"
  BY DEF skip_dead_ends, DeadEnds, MarkSkipped, PhaseMap, Phases, TERMINAL_PHASES, Pending
<1>2. WorkflowFailed(q) <=> WorkflowFailed(ph)
  BY <1>1, DagAssumption DEF WorkflowFailed
<1>3. \A s \in Steps : Settle(ph, ex)[s] = "FAILED" <=> ph[s] = "FAILED"
  BY SettleOnlySkips
<1>4. WorkflowFailed(Settle(ph, ex)) <=> WorkflowFailed(ph)
  BY <1>3, DagAssumption DEF WorkflowFailed
<1> HIDE DEF q
<1>5. ASSUME WorkflowFailed(ph), NEW s \in Steps, Settle(ph, ex)[s] = "PENDING"
      PROVE  ReactsTo(s, Settle(ph, ex))
  <2>1. Settle(ph, ex) = MarkSkipped(q, Pending(q) \ reactive_preserve_set(q, ex))
    BY <1>2, <1>5 DEF Settle, apply_failure_teardown, q
  <2>2. s \in reactive_preserve_set(q, ex)
    BY <2>1, <1>5, <1>1 DEF MarkSkipped, Pending
  <2>3. PICK c \in Deps[s] : c.when \in {"ON_FAILURE", "ALWAYS"} /\ q[c.step] = "FAILED"
    BY <2>2 DEF reactive_preserve_set
  <2>4. c.step \in Steps
    BY DagAssumption DEF DagAssumption, Condition
  <2> QED BY <2>3, <2>4, <1>1, <1>3 DEF ReactsTo
<1>6. TeardownCancels(q, ex) # {} => WorkflowFailed(ph)
  BY <1>2 DEF TeardownCancels
<1> QED BY <1>4, <1>5, <1>6 DEF q

-----------------------------------------------------------------------------
(* Type correctness.                                                       *)

(***************************************************************************)
(* A change of one JobSet keeps the JobSets and the API server's history   *)
(* well typed.                                                             *)
(***************************************************************************)
LEMMA SetJobSetTyped ==
  ASSUME js \in [Steps -> JobSetStates], log \in Seq(Events),
         NEW s \in Steps, NEW st \in JobSetStates, SetJobSet(s, st)
  PROVE  js' \in [Steps -> JobSetStates] /\ log' \in Seq(Events)
BY DEF SetJobSet, Events

LEMMA CreateTyped ==
  ASSUME TypeOK, NEW s \in Steps, CreateJobSet(s)
  PROVE  js' \in [Steps -> JobSetStates] /\ log' \in Seq(Events)
<1>1. \E st \in JobSetStates : SetJobSet(s, st)
  BY DEF CreateJobSet, JobSetStates
<1> QED BY <1>1, SetJobSetTyped DEF TypeOK

LEMMA SuspendTyped ==
  ASSUME TypeOK, NEW s \in Steps, Suspend(s)
  PROVE  /\ js' \in [Steps -> JobSetStates] /\ log' \in Seq(Events)
         /\ asked' \in SUBSET Steps
<1>1. CASE js[s] = "active"
  <2>1. SetJobSet(s, "suspended")
    BY <1>1 DEF Suspend
  <2> QED BY <2>1, SetJobSetTyped DEF Suspend, TypeOK, JobSetStates
<1>2. CASE js[s] # "active"
  BY <1>2 DEF Suspend, TypeOK
<1> QED BY <1>1, <1>2

LEMMA LoopTopTyped ==
  ASSUME NEW ph, LoopTop(ph)
  PROVE  /\ pc' \in {"exit", "loopSubmit"} /\ cursor' \in 1..(NumSteps + 1)
         /\ snapLeft' = {} /\ next' = 0
BY DagAssumption DEF LoopTop, DagAssumption

LEMMA SettleAndCancelTyped ==
  ASSUME NEW ph \in PhaseMap, NEW ex, known \in SUBSET Steps,
         SettleAndCancel(ph, ex, "loopCancel", "loopSave")
           \/ SettleAndCancel(ph, ex, "evCancel", "evSave")
  PROVE  /\ phases' \in PhaseMap /\ toCancel' \in SUBSET Steps
         /\ pc' \in {"loopCancel", "loopSave", "evCancel", "evSave"}
BY SettleOnlySkips DEF SettleAndCancel

LEMMA FaultTyped ==
  ASSUME faults \in Nat, NEW kind, Fault(kind)
  PROVE  faults' \in Nat
BY DEF Fault

LEMMA TypeStep == TypeOK /\ [Next]_vars => TypeOK'
<1> SUFFICES ASSUME TypeOK, [Next]_vars PROVE TypeOK'
  OBVIOUS
<1> USE DEF TypeOK
<1>1. CASE UNCHANGED vars
  BY <1>1 DEF vars, memVars, streamVars, clusterVars, userVars
<1>2. CASE Boot
  <2>1. \A ok : load_phases(ok) \in PhaseMap /\ load_exit_codes(ok) \in ExitMap
    BY DEF load_phases, load_exit_codes, AllPending, NoExits, PhaseMap, Phases, ExitMap
  <2>2. PICK p, e \in {0, 1} :
          /\ faults' = faults + p + e
          /\ phases' = load_phases(p = 0)
          /\ exits' = load_exit_codes(e = 0)
    BY <1>2 DEF Boot
  <2>3. phases' \in PhaseMap /\ exits' \in ExitMap /\ faults' \in Nat
    BY <2>1, <2>2
  <2> QED BY <2>3, <1>2, DagAssumption
          DEF Boot, DagAssumption, PCs, streamVars, clusterVars, userVars
<1>3. ASSUME NEW i \in 1..NumSteps, Submitting(i),
             CreateAccepted(i) \/ CreateConflict(i) \/ CreateRejected(i)
               \/ CreateReplyLost(i) \/ CreateDenied(i) \/ CreateAborted(i)
      PROVE  TypeOK'
  <2>1. Dag[i] \in Steps /\ i + 1 \in 1..(NumSteps + 1)
    BY DagAssumption DEF DagAssumption
  <2>2. \A p \in Phases : [phases EXCEPT ![Dag[i]] = p] \in PhaseMap
    BY <2>1 DEF PhaseMap
  <2>3. {"RUNNING", "FAILED"} \subseteq Phases
    BY DEF Phases, TERMINAL_PHASES
  <2> USE DEF submitUnchanged, userVars
  <2>4. CASE CreateAccepted(i)
    <3>1. js' \in [Steps -> JobSetStates] /\ log' \in Seq(Events)
      BY <2>1, <2>4, CreateTyped DEF CreateAccepted
    <3> QED BY <3>1, <2>1, <2>2, <2>3, <2>4 DEF CreateAccepted, Submitted
  <2>5. CASE CreateConflict(i)
    BY <2>1, <2>2, <2>3, <2>5 DEF CreateConflict, Submitted
  <2>6. CASE CreateRejected(i)
    BY <2>1, <2>6, FaultTyped DEF CreateRejected
  <2>7. CASE CreateReplyLost(i)
    <3>1. js' \in [Steps -> JobSetStates] /\ log' \in Seq(Events)
      BY <2>1, <2>7, CreateTyped DEF CreateReplyLost
    <3> QED BY <3>1, <2>1, <2>7, FaultTyped DEF CreateReplyLost
  <2>8. CASE CreateDenied(i)
    BY <2>1, <2>2, <2>3, <2>8, FaultTyped DEF CreateDenied
  <2>9. CASE CreateAborted(i)
    <3>1. js' \in [Steps -> JobSetStates] /\ log' \in Seq(Events)
      BY <2>1, <2>9, CreateTyped DEF CreateAborted
    <3> QED BY <3>1, <2>9, FaultTyped, LoopTopTyped DEF CreateAborted, PCs
  <2> QED BY <1>3, <2>4, <2>5, <2>6, <2>7, <2>8, <2>9
<1>4. CASE SubmitDone
  <2>1. 1 \in 1..(NumSteps + 1)
    BY DagAssumption DEF DagAssumption
  <2>2. /\ phases' \in PhaseMap /\ toCancel' \in SUBSET Steps /\ pc' \in PCs
    BY <1>4, SettleAndCancelTyped DEF SubmitDone, PCs
  <2> QED BY <2>1, <2>2, <1>4 DEF SubmitDone, streamVars, clusterVars, userVars
<1>5. ASSUME NEW s \in Steps, CancelPatched(s) \/ CancelPatchFailed(s)
      PROVE  TypeOK'
  <2>1. pc' \in PCs /\ toCancel' \in SUBSET Steps
    BY <1>5 DEF CancelPatched, CancelPatchFailed, AfterPatch, PCs, CancelPCs
  <2>2. CASE CancelPatched(s)
    BY <2>1, <2>2, SuspendTyped DEF CancelPatched, cancelUnchanged, memVars, userVars
  <2>3. CASE CancelPatchFailed(s)
    BY <2>1, <2>3, FaultTyped DEF CancelPatchFailed, cancelUnchanged, memVars, userVars
  <2> QED BY <1>5, <2>2, <2>3
<1>6. CASE CancelAborted
  BY <1>6, FaultTyped, LoopTopTyped
     DEF CancelAborted, cancelUnchanged, PCs, memVars, userVars
<1>7. CASE save_phases
  <2>1. cm' \in [exists : BOOLEAN, phases : PhaseMap, exits : ExitMap] /\ faults' \in Nat
    <3>1. CASE cm' = [exists |-> TRUE, phases |-> phases, exits |-> exits] /\ UNCHANGED faults
      BY <3>1
    <3>2. CASE Fault("saveFail") /\ UNCHANGED cm
      BY <3>2, FaultTyped
    <3> QED BY <3>1, <3>2, <1>7 DEF save_phases
  <2>2. /\ pc' \in PCs /\ cursor' \in 1..(NumSteps + 1)
        /\ snapLeft' \in SUBSET (Steps \union {Self}) /\ next' \in Nat
    BY <1>7, LoopTopTyped DEF save_phases, AfterSave, SavePCs, PCs
  <2> QED BY <2>1, <2>2, <1>7 DEF save_phases, memVars, clusterVars, userVars
<1>8. CASE OpenWatch
  BY <1>8 DEF OpenWatch, PCs, memVars, clusterVars, userVars
<1>9. ASSUME NEW k \in 1..Len(log), IgnoreEvent(k) \/ HandleEvent(k)
      PROVE  TypeOK'
  <2>1. Receive(k)
    BY <1>9 DEF IgnoreEvent, HandleEvent
  <2>2. rv' \in Nat /\ next' \in Nat /\ snapLeft' \in SUBSET (Steps \union {Self})
    BY <2>1 DEF Receive
  <2>3. CASE IgnoreEvent(k)
    BY <2>2, <2>3 DEF IgnoreEvent, memVars, clusterVars, userVars
  <2>4. CASE HandleEvent(k)
    <3>1. /\ Effective(log[k]) /\ log[k].obj \in Steps
      BY <2>4 DEF HandleEvent, Effective
    <3>2. EventPhase(log[k].st) \in Phases
      BY <3>1 DEF Effective, EventPhase, Phases, TERMINAL_PHASES
    <3>3. [phases EXCEPT ![log[k].obj] = EventPhase(log[k].st)] \in PhaseMap
      BY <3>1, <3>2 DEF PhaseMap
    <3>4. \A ok \in BOOLEAN : capture_exit_codes(log[k], ok) \in ExitMap
      BY <3>1 DEF capture_exit_codes, ExitMap
    <3>5. exits' \in ExitMap /\ faults' \in Nat
      BY <2>4, <3>4, FaultTyped DEF HandleEvent
    <3>6. phases' \in PhaseMap /\ toCancel' \in SUBSET Steps /\ pc' \in PCs
      BY <2>4, <3>3, SettleAndCancelTyped DEF HandleEvent, PCs
    <3> QED BY <2>2, <3>5, <3>6, <2>4 DEF HandleEvent, clusterVars, userVars
  <2> QED BY <1>9, <2>3, <2>4
<1>10. CASE WatchTimeout \/ WatchFailed \/ WatchExpired
  <2>1. LoopTop(phases) /\ rv' \in Nat /\ faults' \in Nat /\ reconnectUnchanged
    BY <1>10, FaultTyped DEF WatchTimeout, WatchFailed, WatchExpired
  <2> QED BY <2>1, LoopTopTyped DEF reconnectUnchanged, PCs, memVars, clusterVars, userVars
<1>11. CASE Finish
  BY <1>11 DEF Finish, PCs, memVars, streamVars, clusterVars, userVars
<1>12. CASE Crash
  <2>1. AllPending \in PhaseMap /\ NoExits \in ExitMap /\ 1 \in 1..(NumSteps + 1)
    BY DagAssumption DEF AllPending, NoExits, PhaseMap, Phases, ExitMap, DagAssumption
  <2> QED BY <2>1, <1>12 DEF Crash, PCs, clusterVars, userVars
<1>13. ASSUME NEW s \in Steps, JobSetEnds(s) \/ KueueAdmits(s)
       PROVE  TypeOK'
  <2>1. /\ js' \in [Steps -> JobSetStates] /\ log' \in Seq(Events)
        /\ code' \in [Steps -> ExitCodes \union {0}]
    BY <1>13, SetJobSetTyped DEF JobSetEnds, KueueAdmits, JobSetStates
  <2> QED BY <2>1, <1>13
          DEF JobSetEnds, KueueAdmits, controllerVars, memVars, streamVars, userVars
<1>14. CASE CancelLists
  BY <1>14 DEF CancelLists, controllerVars, memVars, streamVars, clusterVars
<1>15. ASSUME NEW s \in Steps, CancelSuspends(s)
       PROVE  TypeOK'
  <2>1. /\ js' \in [Steps -> JobSetStates] /\ log' \in Seq(Events)
        /\ asked' \in SUBSET Steps /\ faults' \in Nat
    BY <1>15, SuspendTyped, FaultTyped DEF CancelSuspends
  <2> QED BY <2>1, <1>15 DEF CancelSuspends, controllerVars, memVars, streamVars
<1> QED
  <2>1. \A i : (CreateAccepted(i) \/ CreateConflict(i) \/ CreateRejected(i)
                  \/ CreateReplyLost(i) \/ CreateDenied(i) \/ CreateAborted(i))
               => Submitting(i)
    BY DEF CreateAccepted, CreateConflict, CreateRejected, CreateReplyLost,
           CreateDenied, CreateAborted
  <2> QED BY <2>1, <1>1, <1>2, <1>3, <1>4, <1>5, <1>6, <1>7, <1>8, <1>9, <1>10,
             <1>11, <1>12, <1>13, <1>14, <1>15
          DEF Next, ControllerStep, ControllerFault, ClusterStep, UserStep

LEMMA TypeInit == Init => TypeOK
<1> SUFFICES ASSUME Init PROVE TypeOK
  OBVIOUS
<1>1. AllPending \in PhaseMap /\ NoExits \in ExitMap /\ 1 \in 1..(NumSteps + 1)
  BY DagAssumption DEF AllPending, NoExits, PhaseMap, Phases, ExitMap, DagAssumption
<1>2. cm \in [exists : BOOLEAN, phases : PhaseMap, exits : ExitMap]
  BY <1>1 DEF Init
<1>3. js \in [Steps -> JobSetStates] /\ log \in Seq(Events)
  BY DEF Init, JobSetStates, Events
<1>4. kueue \in BOOLEAN
  BY ControllerAssumption DEF Init, ControllerAssumption
<1> QED BY <1>1, <1>2, <1>3, <1>4 DEF Init, TypeOK, PCs

(***************************************************************************)
(* Every variable keeps its type, whatever fails.                          *)
(***************************************************************************)
THEOREM TypeCorrect == Spec => []TypeOK
BY TypeInit, TypeStep, PTL DEF Spec

-----------------------------------------------------------------------------
(* The shapes of a step, as far as the phases, the ConfigMap and the       *)
(* verdict are concerned.                                                  *)

\* One create, whatever came of it.
Attempt(i) ==
  \/ CreateAccepted(i) \/ CreateConflict(i) \/ CreateRejected(i)
  \/ CreateReplyLost(i) \/ CreateDenied(i) \/ CreateAborted(i)

\* The loop starts again, with nothing saved in between if it was left by an
\* error in the middle of an event.
Loops == pc' \in {"loopSubmit", "exit"} /\ (pc' = "exit" => AllTerminal(phases))

\* Nothing is learned, forgotten or saved, and no JobSet created.
Still ==
  /\ UNCHANGED <<memVars, cm>>
  /\ \A s \in Steps : js[s] = "none" => js'[s] = "none"
  /\ \/ pc' = pc /\ cursor' = cursor
     \/ pc \in CancelPCs /\ pc' \in {"loopSave", "evSave"}
     \/ pc = "open" /\ pc' = "watch"
     \/ pc = "exit" /\ Finish
     \/ pc \in {"open", "watch"} /\ Loops
     \/ pc = "evCancel" /\ Loops /\ "transport" \in FaultKinds
  /\ Finish \/ UNCHANGED verdict
  /\ toCancel' \subseteq toCancel
  /\ pc \in CancelPCs => pc' = pc \/ toCancel' = {}

LEMMA StepShapes ==
  TypeOK /\ [Next]_vars =>
    \/ Still \/ Boot \/ SubmitDone \/ save_phases \/ Crash
    \/ \E i \in 1..NumSteps : Attempt(i)
    \/ \E k \in 1..Len(log) : HandleEvent(k)
<1> SUFFICES ASSUME TypeOK, [Next]_vars
             PROVE  \/ Still \/ Boot \/ SubmitDone \/ save_phases \/ Crash
                    \/ \E i \in 1..NumSteps : Attempt(i)
                    \/ \E k \in 1..Len(log) : HandleEvent(k)
  OBVIOUS
<1>1. ASSUME UNCHANGED controllerVars, \A s \in Steps : js[s] = "none" => js'[s] = "none"
      PROVE  Still
  BY <1>1 DEF controllerVars, memVars, Still, CancelPCs
<1>2. CASE UNCHANGED vars
  BY <1>2, <1>1 DEF vars, streamVars, controllerVars, clusterVars
<1>3. ASSUME NEW s \in Steps, JobSetEnds(s) \/ KueueAdmits(s) \/ CancelSuspends(s)
      PROVE  Still
  BY <1>3, <1>1 DEF JobSetEnds, KueueAdmits, CancelSuspends, Suspend, SetJobSet, TypeOK
<1>4. CASE CancelLists
  BY <1>4, <1>1 DEF CancelLists, clusterVars
<1>5. ASSUME NEW s \in Steps, CancelPatched(s) \/ CancelPatchFailed(s) PROVE Still
  BY <1>5 DEF CancelPatched, CancelPatchFailed, AfterPatch, cancelUnchanged, memVars, Still,
     CancelPCs, Suspend, SetJobSet, TypeOK
<1>6. CASE CancelAborted
  BY <1>6 DEF CancelAborted, LoopTop, Loops, Fault, cancelUnchanged, memVars, Still, CancelPCs
<1>7. CASE OpenWatch
  BY <1>7 DEF OpenWatch, memVars, clusterVars, Still, CancelPCs
<1>8. ASSUME NEW k \in 1..Len(log), IgnoreEvent(k) PROVE Still
  BY <1>8 DEF IgnoreEvent, memVars, clusterVars, Still, CancelPCs
<1>9. CASE WatchTimeout \/ WatchFailed \/ WatchExpired
  BY <1>9 DEF WatchTimeout, WatchFailed, WatchExpired, LoopTop, Loops, reconnectUnchanged,
     memVars, clusterVars, Still, CancelPCs
<1>10. CASE Finish
  BY <1>10 DEF Finish, memVars, clusterVars, Still, CancelPCs
<1> QED BY <1>2, <1>3, <1>4, <1>5, <1>6, <1>7, <1>8, <1>9, <1>10
        DEF Next, ControllerStep, ControllerFault, ClusterStep, UserStep, Attempt

(***************************************************************************)
(* What a create may do: it is tried for a ready step only, and leaves it  *)
(* RUNNING with a JobSet, or as it was, or FAILED if the API denies it.    *)
(***************************************************************************)
LEMMA AttemptEffect ==
  ASSUME TypeOK, NEW i \in 1..NumSteps, Attempt(i)
  PROVE  /\ Dag[i] \in Steps /\ Submitting(i)
         /\ Ready(Dag[i], phases, exits) /\ phases[Dag[i]] = "PENDING"
         /\ UNCHANGED <<exits, cm, toCancel, verdict>>
         /\ \A s \in Steps \ {Dag[i]} : js'[s] = js[s]
         /\ \/ phases' = phases
            \/ phases' = [phases EXCEPT ![Dag[i]] = "RUNNING"] /\ js'[Dag[i]] # "none"
            \/ phases' = [phases EXCEPT ![Dag[i]] = "FAILED"] /\ "deny" \in FaultKinds
         /\ \/ pc' = pc /\ cursor' = i + 1
            \/ pc = "evSubmit" /\ Loops /\ phases' = phases /\ "transport" \in FaultKinds
<1>1. Submitting(i) /\ Dag[i] \in Steps
  BY DagAssumption DEF DagAssumption, Attempt, CreateAccepted, CreateConflict, CreateRejected,
     CreateReplyLost, CreateDenied, CreateAborted
<1>2. Ready(Dag[i], phases, exits) /\ phases[Dag[i]] = "PENDING"
  BY <1>1 DEF Submitting, ReadyFrom, Ready
<1>3. CreateJobSet(Dag[i]) => /\ js'[Dag[i]] # "none"
                              /\ \A s \in Steps \ {Dag[i]} : js'[s] = js[s]
  BY <1>1 DEF CreateJobSet, SetJobSet, TypeOK
<1> USE <1>1, <1>2, <1>3 DEF submitUnchanged, Submitted, Fault
<1>4. CASE CreateAccepted(i)
  BY <1>4 DEF CreateAccepted
<1>5. CASE CreateConflict(i)
  BY <1>5 DEF CreateConflict
<1>6. CASE CreateRejected(i)
  BY <1>6 DEF CreateRejected
<1>7. CASE CreateReplyLost(i)
  BY <1>7 DEF CreateReplyLost
<1>8. CASE CreateDenied(i)
  BY <1>8 DEF CreateDenied
<1>9. CASE CreateAborted(i)
  BY <1>9 DEF CreateAborted, LoopTop, Loops
<1> QED BY <1>4, <1>5, <1>6, <1>7, <1>8, <1>9 DEF Attempt

\* Some event the API server has recorded shows s in state st.
Seen(s, st) == \E k \in 1..Len(log) : log[k].obj = s /\ log[k].st = st

\* The phase an effective event gives its step.
Evidence(p) == CASE p = "SUCCEEDED" -> "Completed" [] p = "FAILED" -> "Failed"
                 [] p = "CANCELED"  -> "suspended"

Outcomes == {"SUCCEEDED", "FAILED", "CANCELED"}

\* Some PENDING steps become SKIPPED, and no other phase changes.
OnlySkipsFrom(ph) ==
  \A s \in Steps : phases'[s] = ph[s] \/ (ph[s] = "PENDING" /\ phases'[s] = "SKIPPED")

(***************************************************************************)
(* What SettleAndCancel leaves: some PENDING steps skipped; after a        *)
(* required failure, PENDING steps only that react to a failure; and       *)
(* cancels to send only after such a failure.                              *)
(***************************************************************************)
LEMMA SettleEffect ==
  ASSUME NEW ph \in PhaseMap, NEW ex, NEW P, NEW Q, SettleAndCancel(ph, ex, P, Q)
  PROVE  /\ OnlySkipsFrom(ph)
         /\ WorkflowFailed(phases') =>
              \A s \in Steps : phases'[s] = "PENDING" => ReactsTo(s, phases')
         /\ toCancel' # {} => WorkflowFailed(phases')
         /\ pc' = IF toCancel' = {} THEN Q ELSE P
<1>1. phases' = Settle(ph, ex)
  BY DEF SettleAndCancel
<1>2. OnlySkipsFrom(ph)
  BY <1>1, SettleOnlySkips DEF OnlySkipsFrom
<1>3. /\ WorkflowFailed(phases') <=> WorkflowFailed(ph)
      /\ WorkflowFailed(ph) =>
           \A s \in Steps : phases'[s] = "PENDING" => ReactsTo(s, phases')
  BY <1>1, SettleTearsDown
<1>4. /\ toCancel' # {} => WorkflowFailed(ph)
      /\ pc' = IF toCancel' = {} THEN Q ELSE P
  BY SettleTearsDown DEF SettleAndCancel
<1> QED BY <1>2, <1>3, <1>4

(***************************************************************************)
(* When nothing is left to submit, the phases are settled at the top of    *)
(* the loop and left alone elsewhere.                                      *)
(***************************************************************************)
LEMMA SubmitDoneEffect ==
  ASSUME TypeOK, SubmitDone
  PROVE  /\ pc \in SubmitPCs /\ ReadyFrom(cursor) = {}
         /\ UNCHANGED <<exits, cm, js, log, asked, verdict>>
         /\ OnlySkipsFrom(phases)
         /\ \/ /\ pc = "loopSubmit"
               /\ pc' = IF toCancel' = {} THEN "loopSave" ELSE "loopCancel"
               /\ WorkflowFailed(phases') =>
                    \A s \in Steps : phases'[s] = "PENDING" => ReactsTo(s, phases')
               /\ toCancel' # {} => WorkflowFailed(phases')
            \/ /\ pc # "loopSubmit" /\ UNCHANGED <<phases, toCancel>>
               /\ pc' = IF pc = "bootSubmit" THEN "bootSave" ELSE "evSave2"
<1>1. /\ pc \in SubmitPCs /\ ReadyFrom(cursor) = {}
      /\ UNCHANGED <<exits, cm, js, log, asked, verdict>>
  BY DEF SubmitDone, clusterVars
<1>2. CASE pc = "loopSubmit"
  <2>1. SettleAndCancel(phases, exits, "loopCancel", "loopSave")
    BY <1>2 DEF SubmitDone
  <2> QED BY <1>1, <1>2, <2>1, SettleEffect DEF TypeOK
<1>3. CASE pc # "loopSubmit"
  BY <1>1, <1>3 DEF SubmitDone, OnlySkipsFrom
<1> QED BY <1>2, <1>3

(***************************************************************************)
(* An event gives an outcome to a step that had none, records its exit     *)
(* code, and has the phases settled.                                       *)
(***************************************************************************)
LEMMA HandleEffect ==
  ASSUME TypeOK, NEW k \in 1..Len(log), HandleEvent(k)
  PROVE  /\ \E s \in Steps, p \in Outcomes :
              /\ phases[s] \notin TERMINAL_PHASES /\ Seen(s, Evidence(p))
              /\ OnlySkipsFrom([phases EXCEPT ![s] = p])
              /\ \A t \in Steps \ {s} : exits'[t] = exits[t]
         /\ UNCHANGED <<cursor, cm, js, log, asked, verdict>>
         /\ WorkflowFailed(phases') =>
              \A s \in Steps : phases'[s] = "PENDING" => ReactsTo(s, phases')
         /\ toCancel' # {} => WorkflowFailed(phases')
         /\ pc = "watch" /\ pc' = IF toCancel' = {} THEN "evSave" ELSE "evCancel"
<1> DEFINE s == log[k].obj
           p == EventPhase(log[k].st)
           ph == [phases EXCEPT ![s] = p]
<1>1. Effective(log[k]) /\ SettleAndCancel(ph, exits', "evCancel", "evSave")
  BY DEF HandleEvent
<1>2. s \in Steps /\ phases[s] \notin TERMINAL_PHASES /\ p \in Outcomes /\ Seen(s, Evidence(p))
  BY <1>1 DEF Effective, EventPhase, Evidence, Seen, TypeOK, Outcomes
<1>3. ph \in PhaseMap
  BY <1>2 DEF PhaseMap, Phases, TERMINAL_PHASES, TypeOK, Outcomes
<1>4. \A t \in Steps \ {s} : exits'[t] = exits[t]
  <2>1. \A ok : \A t \in Steps \ {s} : capture_exit_codes(log[k], ok)[t] = exits[t]
    BY DEF capture_exit_codes, TypeOK, ExitMap
  <2> QED BY <2>1 DEF HandleEvent
<1>5. UNCHANGED <<cursor, cm, js, log, asked, verdict>> /\ pc = "watch"
  BY DEF HandleEvent, NextEvent, clusterVars
<1> HIDE DEF ph
<1>6. /\ OnlySkipsFrom(ph) /\ pc' = IF toCancel' = {} THEN "evSave" ELSE "evCancel"
      /\ toCancel' # {} => WorkflowFailed(phases')
      /\ WorkflowFailed(phases') =>
           \A t \in Steps : phases'[t] = "PENDING" => ReactsTo(t, phases')
  BY <1>1, <1>3, SettleEffect
<1> HIDE DEF s, p
<1> QED BY <1>2, <1>3, <1>4, <1>5, <1>6 DEF ph

-----------------------------------------------------------------------------
(* What one step may do to the JobSets, and to what is believed of them.   *)

\* The changes of a JobSet the cluster allows, the test a create passed, and
\* what stopped or admitted a JobSet.
Transition(s, st) ==
  \/ /\ js[s] = "none" /\ Ready(s, phases, exits) /\ pc \in SubmitPCs
     /\ st = IF kueue THEN "suspended" ELSE "active"
  \/ js[s] = "active" /\ st = "suspended" /\ s \in asked'
  \/ js[s] = "suspended" /\ st = "active" /\ kueue
  \/ js[s] \in {"active", "suspended"} /\ st \in {"Completed", "Failed"}

JobSetMoves ==
  \E s \in Steps, st \in JobSetStates :
    /\ Transition(s, st) /\ SetJobSet(s, st)
    /\ learned' = learned /\ cm' = cm

JobSetsRest == js' = js /\ log' = log

(***************************************************************************)
(* A step changes at most one JobSet, along Transition, and then leaves    *)
(* what is believed as it is.                                              *)
(***************************************************************************)
LEMMA JobSetStep == TypeOK /\ [Next]_vars => JobSetsRest \/ JobSetMoves
<1> SUFFICES ASSUME TypeOK, [Next]_vars PROVE JobSetsRest \/ JobSetMoves
  OBVIOUS
<1>1. ASSUME NEW i \in 1..NumSteps, js[Dag[i]] = "none", Submitting(i),
             CreateJobSet(Dag[i]), cm' = cm,
             phases' = phases \/ Submitted(Dag[i])
      PROVE  JobSetMoves
  <2>1. Dag[i] \in Steps /\ Ready(Dag[i], phases, exits) /\ phases[Dag[i]] = "PENDING"
    BY <1>1, DagAssumption DEF DagAssumption, Submitting, ReadyFrom, Ready
  <2>2. learned' = learned
    BY <1>1, <2>1 DEF TypeOK, PhaseMap, Submitted, learned
  <2> DEFINE st == IF kueue THEN "suspended" ELSE "active"
  <2>3. SetJobSet(Dag[i], st)
    BY <1>1 DEF CreateJobSet
  <2>4. Transition(Dag[i], st) /\ st \in JobSetStates
    BY <1>1, <2>1 DEF Transition, JobSetStates, Submitting
  <2> QED BY <2>1, <2>2, <2>3, <2>4, <1>1 DEF JobSetMoves
<1>2. ASSUME NEW s \in Steps, Suspend(s), phases' = phases, cm' = cm
      PROVE  JobSetsRest \/ JobSetMoves
  BY <1>2 DEF Suspend, JobSetsRest, JobSetMoves, Transition, JobSetStates, learned
<1>3. CASE UNCHANGED vars
  BY <1>3 DEF vars, clusterVars, JobSetsRest
<1>4. CASE Boot \/ SubmitDone \/ CancelAborted \/ save_phases \/ OpenWatch \/ WatchTimeout
           \/ WatchFailed \/ WatchExpired \/ Finish \/ Crash \/ CancelLists
  BY <1>4 DEF Boot, SubmitDone, CancelAborted, save_phases, OpenWatch, WatchTimeout,
     WatchFailed, WatchExpired, Finish, Crash, CancelLists, reconnectUnchanged,
     clusterVars, JobSetsRest
<1>5. ASSUME NEW i \in 1..NumSteps,
             CreateConflict(i) \/ CreateRejected(i) \/ CreateDenied(i)
      PROVE  JobSetsRest
  BY <1>5 DEF CreateConflict, CreateRejected, CreateDenied, JobSetsRest
<1>6. ASSUME NEW i \in 1..NumSteps, CreateAccepted(i) \/ CreateReplyLost(i)
      PROVE  JobSetMoves
  BY <1>6, <1>1 DEF CreateAccepted, CreateReplyLost, submitUnchanged
<1>7. ASSUME NEW i \in 1..NumSteps, CreateAborted(i)
      PROVE  JobSetsRest \/ JobSetMoves
  BY <1>7, <1>1 DEF CreateAborted, submitUnchanged, JobSetsRest
<1>8. ASSUME NEW s \in Steps, CancelPatched(s) \/ CancelPatchFailed(s) \/ CancelSuspends(s)
      PROVE  JobSetsRest \/ JobSetMoves
  BY <1>8, <1>2 DEF CancelPatched, CancelPatchFailed, CancelSuspends, cancelUnchanged,
     controllerVars, memVars, JobSetsRest
<1>9. ASSUME NEW k \in 1..Len(log), IgnoreEvent(k) \/ HandleEvent(k)
      PROVE  JobSetsRest
  BY <1>9 DEF IgnoreEvent, HandleEvent, clusterVars, JobSetsRest
<1>10. ASSUME NEW s \in Steps, JobSetEnds(s) \/ KueueAdmits(s)
       PROVE  JobSetMoves
  <2>1. learned' = learned /\ cm' = cm
    BY <1>10 DEF JobSetEnds, KueueAdmits, controllerVars, memVars, learned
  <2> QED BY <2>1, <1>10 DEF JobSetEnds, KueueAdmits, JobSetMoves, Transition, JobSetStates
<1> QED BY <1>3, <1>4, <1>5, <1>6, <1>7, <1>8, <1>9, <1>10
        DEF Next, ControllerStep, ControllerFault, ClusterStep, UserStep

(***************************************************************************)
(* An outcome is learned from an event or from the ConfigMap only (or is   *)
(* a denied create), and saved only if it was believed.                    *)
(***************************************************************************)
LEMMA BeliefStep ==
  TypeOK /\ [Next]_vars =>
    \A s \in Steps, p \in Outcomes :
      /\ phases'[s] = p => \/ p \in {phases[s], cm.phases[s]}
                           \/ Seen(s, Evidence(p))
                           \/ p = "FAILED" /\ "deny" \in FaultKinds
      /\ cm'.phases[s] = p => p \in {phases[s], cm.phases[s]}
<1> SUFFICES ASSUME TypeOK, [Next]_vars, NEW s \in Steps, NEW p \in Outcomes
             PROVE  /\ phases'[s] = p => \/ p \in {phases[s], cm.phases[s]}
                                         \/ Seen(s, Evidence(p))
                                         \/ p = "FAILED" /\ "deny" \in FaultKinds
                    /\ cm'.phases[s] = p => p \in {phases[s], cm.phases[s]}
  OBVIOUS
<1> USE DEF TypeOK
<1>1. CASE Still
  BY <1>1 DEF Still, memVars
<1>2. CASE Boot
  BY <1>2 DEF Boot, load_phases, AllPending, Outcomes
<1>3. ASSUME NEW i \in 1..NumSteps, Attempt(i)
      PROVE  cm' = cm /\ (phases'[s] = p => phases[s] = p \/ (p = "FAILED" /\ "deny" \in FaultKinds))
  BY <1>3, AttemptEffect DEF PhaseMap, Outcomes
<1>4. CASE SubmitDone
  BY <1>4, SubmitDoneEffect DEF OnlySkipsFrom, Outcomes
<1>5. CASE save_phases
  BY <1>5 DEF save_phases, memVars
<1>6. ASSUME NEW k \in 1..Len(log), HandleEvent(k)
      PROVE  cm' = cm /\ (phases'[s] = p => phases[s] = p \/ Seen(s, Evidence(p)))
  <2>1. PICK t \in Steps, o \in Outcomes :
          Seen(t, Evidence(o)) /\ OnlySkipsFrom([phases EXCEPT ![t] = o])
    BY <1>6, HandleEffect
  <2> QED BY <1>6, <2>1, HandleEffect DEF OnlySkipsFrom, PhaseMap, Outcomes
<1>7. CASE Crash
  BY <1>7 DEF Crash, AllPending, Outcomes
<1> QED BY <1>1, <1>2, <1>3, <1>4, <1>5, <1>6, <1>7, StepShapes

-----------------------------------------------------------------------------
(* The inductive invariant.                                                *)

\* An event of the API server's history that says how a JobSet ended is so.
LogIsTrue ==
  \A s \in Steps, st \in {"Completed", "Failed"} : Seen(s, st) => js[s] = st

IInv == TypeOK /\ SucceededIsReal /\ LogIsTrue /\ DependencyOrder

(***************************************************************************)
(* A JobSet that has ended stays so, and one that exists never is one that *)
(* does not.                                                               *)
(***************************************************************************)
LEMMA EndIsFinal ==
  ASSUME TypeOK, [Next]_vars, NEW s \in Steps
  PROVE  /\ js[s] \in {"Completed", "Failed"} => js'[s] = js[s]
         /\ js[s] # "none" => js'[s] # "none"
<1>1. CASE JobSetsRest
  BY <1>1 DEF JobSetsRest
<1>2. CASE JobSetMoves
  BY <1>2 DEF JobSetMoves, Transition, SetJobSet, TypeOK
<1> QED BY <1>1, <1>2, JobSetStep

(***************************************************************************)
(* The history forgets nothing, and gains what was done.                   *)
(***************************************************************************)
LEMMA SeenAfter ==
  ASSUME log \in Seq(Events), NEW t \in Steps, NEW q \in JobSetStates, SetJobSet(t, q),
         NEW s \in Steps, NEW st
  PROVE  Seen(s, st)' <=> Seen(s, st) \/ (s = t /\ st = q)
<1>1. /\ Len(log') = Len(log) + 1 /\ Len(log) \in Nat
      /\ \A k \in 1..Len(log) : log'[k] = log[k]
      /\ log'[Len(log) + 1] = [obj |-> t, st |-> q]
  BY DEF SetJobSet
<1>2. ASSUME Seen(s, st)' PROVE Seen(s, st) \/ (s = t /\ st = q)
  <2>1. PICK k \in 1..Len(log') : log'[k].obj = s /\ log'[k].st = st
    BY <1>2 DEF Seen
  <2>2. CASE k = Len(log) + 1
    BY <1>1, <2>1, <2>2
  <2>3. CASE k \in 1..Len(log)
    BY <1>1, <2>1, <2>3 DEF Seen
  <2> QED BY <1>1, <2>2, <2>3
<1>3. ASSUME Seen(s, st) PROVE Seen(s, st)'
  BY <1>1, <1>3 DEF Seen
<1>4. ASSUME s = t, st = q PROVE Seen(s, st)'
  BY <1>1, <1>4 DEF Seen
<1> QED BY <1>2, <1>3, <1>4

LEMMA ReadyNeeds ==
  ASSUME IInv, NEW s \in Steps, Ready(s, phases, exits),
         NEW c \in Deps[s], c.when = "ON_SUCCESS"
  PROVE  c.step \in Steps /\ phases[c.step] = "SUCCEEDED" /\ js[c.step] = "Completed"
<1>1. c.step \in Steps
  BY DagAssumption DEF DagAssumption, Condition
<1>2. phases[c.step] = "SUCCEEDED"
  BY DEF Ready, dep_satisfied
<1> QED BY <1>1, <1>2 DEF IInv, SucceededIsReal

LEMMA InvStep == IInv /\ [Next]_vars => IInv'
<1> SUFFICES ASSUME IInv, [Next]_vars PROVE IInv'
  OBVIOUS
<1>1. TypeOK /\ TypeOK'
  BY TypeStep DEF IInv
<1>2. LogIsTrue'
  <2> SUFFICES ASSUME NEW s \in Steps, NEW st \in {"Completed", "Failed"}, Seen(s, st)'
               PROVE  js'[s] = st
    BY DEF LogIsTrue
  <2>1. CASE Seen(s, st)
    <3>1. js[s] = st
      BY <2>1 DEF IInv, LogIsTrue
    <3> QED BY <1>1, <3>1, EndIsFinal
  <2>2. CASE ~Seen(s, st)
    <3>1. ~JobSetsRest
      BY <2>2 DEF JobSetsRest, Seen
    <3>2. PICK t \in Steps, q \in JobSetStates : SetJobSet(t, q)
      BY <1>1, <3>1, JobSetStep DEF JobSetMoves
    <3>3. s = t /\ st = q
      BY <1>1, <2>2, <3>2, SeenAfter DEF TypeOK
    <3> QED BY <1>1, <3>2, <3>3 DEF SetJobSet, TypeOK
  <2> QED BY <2>1, <2>2
<1>3. SucceededIsReal'
  <2> SUFFICES ASSUME NEW s \in Steps, "SUCCEEDED" \in {phases'[s], cm'.phases[s]}
               PROVE  js'[s] = "Completed"
    BY DEF SucceededIsReal
  <2>1. "SUCCEEDED" \in {phases[s], cm.phases[s]} \/ Seen(s, "Completed")
    BY <1>1, BeliefStep DEF Outcomes, Evidence
  <2>2. js[s] = "Completed"
    BY <2>1 DEF IInv, SucceededIsReal, LogIsTrue
  <2> QED BY <1>1, <2>2, EndIsFinal
<1>4. DependencyOrder'
  <2> SUFFICES ASSUME NEW s \in Steps, js'[s] # "none",
                      NEW c \in Deps[s], c.when = "ON_SUCCESS"
               PROVE  js'[c.step] = "Completed"
    BY DEF DependencyOrder
  <2>1. c.step \in Steps
    BY DagAssumption DEF DagAssumption, Condition
  <2>2. CASE js[s] # "none"
    <3>1. js[c.step] = "Completed"
      BY <2>2 DEF IInv, DependencyOrder
    <3> QED BY <1>1, <2>1, <3>1, EndIsFinal
  <2>3. CASE js[s] = "none"
    <3>1. Ready(s, phases, exits)
      BY <1>1, <2>3, JobSetStep DEF JobSetsRest, JobSetMoves, SetJobSet, Transition, TypeOK
    <3> QED BY <1>1, <2>1, <3>1, ReadyNeeds, EndIsFinal
  <2> QED BY <2>2, <2>3
<1> QED BY <1>1, <1>2, <1>3, <1>4 DEF IInv

LEMMA InvInit == Init => IInv
<1> SUFFICES ASSUME Init PROVE IInv
  OBVIOUS
<1>1. TypeOK
  BY TypeInit
<1>2. SucceededIsReal /\ DependencyOrder
  BY DEF Init, SucceededIsReal, DependencyOrder, AllPending
<1>3. LogIsTrue
  BY DEF Init, LogIsTrue, Seen
<1> QED BY <1>1, <1>2, <1>3 DEF IInv

LEMMA Invariance == Spec => []IInv
BY InvInit, InvStep, PTL DEF Spec

(***************************************************************************)
(* For every workflow and any number of faults: what the controller        *)
(* believes or has saved as SUCCEEDED did complete.                        *)
(***************************************************************************)
THEOREM SuccessesAreReal == Spec => []SucceededIsReal
<1>1. IInv => SucceededIsReal
  BY DEF IInv
<1> QED BY <1>1, Invariance, PTL

(***************************************************************************)
(* For every workflow and any number of faults: no step has a JobSet       *)
(* before all steps it needs the success of have completed.                *)
(***************************************************************************)
THEOREM OrderIsKept == Spec => []DependencyOrder
<1>1. IInv => DependencyOrder
  BY DEF IInv
<1> QED BY <1>1, Invariance, PTL

-----------------------------------------------------------------------------
(* The refinement.                                                         *)

LEMMA PromiseInit == Init => Promise!Init
BY DEF Init, Promise!Init, runs, RunOf, learned, AllPending

(***************************************************************************)
(* A create is a Start, a cancel patch a Hold, an admission a Release and  *)
(* the end of the pods an End; every other step learns, forgets or does    *)
(* nothing that shows.                                                     *)
(***************************************************************************)
LEMMA PromiseStep == IInv /\ IInv' /\ [Next]_vars => [Promise!Next]_<<runs, learned>>
<1> SUFFICES ASSUME IInv, IInv', [Next]_vars PROVE [Promise!Next]_<<runs, learned>>
  OBVIOUS
<1>1. TypeOK
  BY DEF IInv
<1>2. CASE JobSetsRest
  <2>1. runs' = runs
    BY <1>2 DEF JobSetsRest, runs
  <2>2. learned' \in SUBSET Promise!Succeeded
    BY <1>2 DEF JobSetsRest, IInv, SucceededIsReal, learned, Promise!Succeeded, runs, RunOf
  <2> QED BY <2>1, <2>2 DEF Promise!Next, Promise!Learn
<1>3. CASE JobSetMoves
  <2>1. PICK s \in Steps, st \in JobSetStates :
          Transition(s, st) /\ SetJobSet(s, st) /\ learned' = learned
    BY <1>3 DEF JobSetMoves
  <2>2. runs' = [runs EXCEPT ![s] = RunOf(st)] /\ runs[s] = RunOf(js[s])
    BY <1>1, <2>1 DEF SetJobSet, TypeOK, runs
  <2>3. CASE js[s] = "none" /\ st \in {"active", "suspended"} /\ Ready(s, phases, exits)
    <3>1. Needed[s] \subseteq learned
      BY <2>3, ReadyNeeds DEF Needed, learned
    <3> QED BY <2>1, <2>2, <2>3, <3>1
            DEF RunOf, Promise!Next, Promise!Start, Promise!Change
  <2>4. CASE js[s] = "active" /\ st = "suspended"
    BY <2>1, <2>2, <2>4 DEF RunOf, Promise!Next, Promise!Hold, Promise!Change
  <2>5. CASE js[s] = "suspended" /\ st = "active"
    BY <2>1, <2>2, <2>5 DEF RunOf, Promise!Next, Promise!Release, Promise!Change
  <2>6. CASE js[s] \in {"active", "suspended"} /\ st \in {"Completed", "Failed"}
    BY <2>1, <2>2, <2>6 DEF RunOf, Promise!Next, Promise!End, Promise!Change
  <2> QED BY <2>1, <2>3, <2>4, <2>5, <2>6 DEF Transition
<1> QED BY <1>1, <1>2, <1>3, JobSetStep

(***************************************************************************)
(* For every workflow and any number of faults, the controller implements  *)
(* StepRuns.                                                               *)
(***************************************************************************)
THEOREM ControllerKeepsPromise == Spec => KeepsPromise
BY PromiseInit, PromiseStep, Invariance, PTL DEF Spec, KeepsPromise, Promise!Spec
-----------------------------------------------------------------------------
(* What the ConfigMap knows is kept.                                       *)

\* While the controller runs it holds in memory every outcome, with its exit
\* code, that the ConfigMap holds.
OutcomesKept ==
  pc \notin {"down", "dead"} =>
    \A s \in Steps : cm.phases[s] \in TERMINAL_PHASES =>
      phases[s] = cm.phases[s] /\ exits[s] = cm.exits[s]

\* Between an event and the save that follows it memory is ahead of the ConfigMap.
SavedPCs == {"bootSubmit", "bootSave", "loopSubmit", "open", "watch",
             "evSubmit", "evSave2", "exit", "done"}

(***************************************************************************)
(* A start whose reads of the ConfigMap succeed takes over its outcomes.   *)
(***************************************************************************)
LEMMA ReadBoot ==
  ASSUME "readFail" \notin FaultKinds, Boot
  PROVE  /\ pc = "down" /\ pc' = "bootSubmit" /\ cursor' = 1
         /\ UNCHANGED <<cm, js, log, asked, toCancel, verdict>>
         /\ \A s \in Steps : phases'[s] = IF cm.phases[s] \in TERMINAL_PHASES
                                            THEN cm.phases[s] ELSE "PENDING"
         /\ exits' = cm.exits
<1>1. PICK p, e \in {0, 1} :
        /\ p + e > 0 => "readFail" \in FaultKinds
        /\ phases' = load_phases(p = 0) /\ exits' = load_exit_codes(e = 0)
  BY DEF Boot
<1>2. p = 0 /\ e = 0
  BY <1>1
<1>3. phases' = load_phases(TRUE) /\ exits' = load_exit_codes(TRUE)
  BY <1>1, <1>2
<1> QED BY <1>3 DEF Boot, load_phases, load_exit_codes, clusterVars

LEMMA KeptStep ==
  ASSUME "readFail" \notin FaultKinds
  PROVE  TypeOK /\ OutcomesKept /\ [Next]_vars => OutcomesKept'
<1> SUFFICES ASSUME TypeOK, OutcomesKept, [Next]_vars PROVE OutcomesKept'
  OBVIOUS
<1> USE DEF OutcomesKept
<1>1. CASE Still
  BY <1>1 DEF Still, memVars, CancelPCs, Finish
<1>2. CASE Boot
  BY <1>2, ReadBoot
<1>3. ASSUME NEW i \in 1..NumSteps, Attempt(i)
      PROVE  OutcomesKept'
  <2>1. /\ Dag[i] \in Steps /\ phases[Dag[i]] = "PENDING" /\ pc \in SubmitPCs
        /\ cm' = cm /\ exits' = exits
        /\ \A s \in Steps \ {Dag[i]} : phases'[s] = phases[s]
    BY <1>3, AttemptEffect DEF TypeOK, PhaseMap, Submitting
  <2>2. cm.phases[Dag[i]] \notin TERMINAL_PHASES
    BY <2>1 DEF SubmitPCs, TERMINAL_PHASES
  <2> QED BY <2>1, <2>2 DEF SubmitPCs
<1>4. CASE SubmitDone
  BY <1>4, SubmitDoneEffect DEF OnlySkipsFrom, TERMINAL_PHASES, SubmitPCs
<1>5. CASE save_phases
  BY <1>5 DEF save_phases, memVars, SavePCs
<1>6. ASSUME NEW k \in 1..Len(log), HandleEvent(k)
      PROVE  OutcomesKept'
  <2>1. PICK s \in Steps, p \in Outcomes :
          /\ phases[s] \notin TERMINAL_PHASES
          /\ OnlySkipsFrom([phases EXCEPT ![s] = p])
          /\ \A t \in Steps \ {s} : exits'[t] = exits[t]
    BY <1>6, HandleEffect
  <2>2. \A t \in Steps : phases[t] \in TERMINAL_PHASES =>
          phases'[t] = phases[t] /\ exits'[t] = exits[t]
    BY <2>1 DEF OnlySkipsFrom, TypeOK, PhaseMap, TERMINAL_PHASES
  <2> QED BY <1>6, <2>2, HandleEffect
<1>7. CASE Crash
  BY <1>7 DEF Crash
<1> QED BY <1>1, <1>2, <1>3, <1>4, <1>5, <1>6, <1>7, StepShapes

(***************************************************************************)
(* What the ConfigMap holds of an outcome it keeps, with its exit code.    *)
(***************************************************************************)
LEMMA ConfigMapKeeps ==
  ASSUME TypeOK, OutcomesKept, [Next]_vars, NEW s \in Steps, cm.phases[s] \in TERMINAL_PHASES
  PROVE  cm'.phases[s] = cm.phases[s] /\ cm'.exits[s] = cm.exits[s]
<1>1. CASE save_phases
  BY <1>1 DEF save_phases, memVars, OutcomesKept, SavePCs
<1>2. ASSUME NEW i \in 1..NumSteps, Attempt(i) PROVE cm' = cm
  BY <1>2, AttemptEffect
<1>3. ASSUME NEW k \in 1..Len(log), HandleEvent(k) PROVE cm' = cm
  BY <1>3, HandleEffect
<1>4. CASE Still \/ Boot \/ SubmitDone \/ Crash
  BY <1>4 DEF Still, Boot, SubmitDone, Crash
<1> QED BY <1>1, <1>2, <1>3, <1>4, StepShapes

(***************************************************************************)
(* For every workflow, if reads of the ConfigMap do not fail (a failed one *)
(* makes a restarted controller save over what it could not read), and     *)
(* whatever else fails: an outcome that was saved is never taken back.     *)
(***************************************************************************)
THEOREM SavedOutcomesStay ==
  ASSUME "readFail" \notin FaultKinds
  PROVE  Spec => OutcomesAreDurable
<1> DEFINE A == \A s \in Steps :
                  cm.phases[s] \in TERMINAL_PHASES => cm'.phases[s] = cm.phases[s]
<1>1. Init => OutcomesKept
  BY DEF Init, OutcomesKept
<1>2. TypeOK /\ OutcomesKept /\ [Next]_vars => OutcomesKept'
  BY KeptStep
<1>3. ASSUME TypeOK, OutcomesKept, [Next]_vars PROVE [A]_vars
  BY <1>3, ConfigMapKeeps
<1> HIDE DEF A
<1>4. Spec => [][A]_vars
  BY <1>1, <1>2, <1>3, TypeCorrect, PTL DEF Spec
<1> QED BY <1>4 DEF OutcomesAreDurable, A
-----------------------------------------------------------------------------
(* After a required failure.                                               *)

RunningHasJobSet ==
  \A s \in Steps : "RUNNING" \in {phases[s], cm.phases[s]} => js[s] # "none"

\* After a required failure the steps still to start have a JobSet already or
\* react to a failure.
Torn(ph) ==
  WorkflowFailed(ph) =>
    \A s \in Steps : ph[s] = "PENDING" => js[s] # "none" \/ ReactsTo(s, ph)

TornDown == Torn(phases) /\ Torn(cm.phases)

LEMMA RunningStep == TypeOK /\ RunningHasJobSet /\ [Next]_vars => RunningHasJobSet'
<1> SUFFICES ASSUME TypeOK, RunningHasJobSet, [Next]_vars,
                    NEW s \in Steps, "RUNNING" \in {phases'[s], cm'.phases[s]}
             PROVE  js'[s] # "none"
  BY DEF RunningHasJobSet
<1> USE DEF RunningHasJobSet
<1>1. ASSUME "RUNNING" \in {phases[s], cm.phases[s]} PROVE js'[s] # "none"
  BY <1>1, EndIsFinal
<1>2. CASE Still
  BY <1>1, <1>2 DEF Still, memVars
<1>3. CASE Boot
  BY <1>1, <1>3 DEF Boot, load_phases, AllPending, TERMINAL_PHASES
<1>4. ASSUME NEW i \in 1..NumSteps, Attempt(i) PROVE js'[s] # "none"
  BY <1>1, <1>4, AttemptEffect DEF TypeOK, PhaseMap
<1>5. CASE SubmitDone
  BY <1>1, <1>5, SubmitDoneEffect DEF OnlySkipsFrom
<1>6. CASE save_phases
  BY <1>1, <1>6 DEF save_phases, memVars
<1>7. ASSUME NEW k \in 1..Len(log), HandleEvent(k) PROVE js'[s] # "none"
  BY <1>1, <1>7, HandleEffect DEF OnlySkipsFrom, TypeOK, PhaseMap, Outcomes
<1>8. CASE Crash
  BY <1>1, <1>8 DEF Crash, AllPending
<1> QED BY <1>2, <1>3, <1>4, <1>5, <1>6, <1>7, <1>8, StepShapes

LEMMA TornStep ==
  ASSUME "deny" \notin FaultKinds
  PROVE  TypeOK /\ RunningHasJobSet /\ TornDown /\ [Next]_vars => TornDown'
<1> SUFFICES ASSUME TypeOK, RunningHasJobSet, TornDown, [Next]_vars PROVE TornDown'
  OBVIOUS
<1>1. \A s \in Steps : js[s] # "none" => js'[s] # "none"
  BY EndIsFinal
<1>2. \A s \in Steps : \A c \in Deps[s] : c.step \in Steps
  BY DagAssumption DEF DagAssumption, Condition
<1> DEFINE TornNext(ph) ==
      WorkflowFailed(ph) =>
        \A s \in Steps : ph[s] = "PENDING" => js'[s] # "none" \/ ReactsTo(s, ph)
<1>3. TornNext(phases) /\ TornNext(cm.phases)
  BY <1>1 DEF TornDown, Torn
<1>4. TornNext(phases') /\ TornNext(cm'.phases)
  <2>1. CASE Still
    BY <1>3, <2>1 DEF Still, memVars
  <2>2. CASE Boot
    <3>1. PICK ok \in BOOLEAN : phases' = load_phases(ok) /\ cm' = cm
      BY <2>2 DEF Boot
    <3>2. CASE ~ok
      BY <1>3, <3>1, <3>2, DagAssumption DEF load_phases, AllPending, WorkflowFailed
    <3>3. CASE ok
      <4>1. \A s \in Steps : phases'[s] = IF cm.phases[s] \in TERMINAL_PHASES
                                            THEN cm.phases[s] ELSE "PENDING"
        BY <3>1, <3>3 DEF load_phases
      <4>2. \A s \in Steps : phases'[s] = "FAILED" <=> cm.phases[s] = "FAILED"
        BY <4>1 DEF TERMINAL_PHASES
      <4>3. WorkflowFailed(phases') => WorkflowFailed(cm.phases)
        BY <4>2, DagAssumption DEF WorkflowFailed
      <4>4. \A s \in Steps : ReactsTo(s, cm.phases) => ReactsTo(s, phases')
        BY <1>2, <4>2 DEF ReactsTo
      <4>5. \A s \in Steps : phases'[s] = "PENDING" =>
              cm.phases[s] = "PENDING" \/ js'[s] # "none"
        BY <1>1, <4>1 DEF RunningHasJobSet, TypeOK, PhaseMap, Phases
      <4> QED BY <1>3, <3>1, <4>3, <4>4, <4>5
    <3> QED BY <3>2, <3>3
  <2>3. ASSUME NEW i \in 1..NumSteps, Attempt(i)
        PROVE  TornNext(phases') /\ TornNext(cm'.phases)
    <3>1. /\ cm' = cm
          /\ \/ phases' = phases
             \/ /\ Dag[i] \in Steps /\ phases[Dag[i]] = "PENDING"
                /\ phases' = [phases EXCEPT ![Dag[i]] = "RUNNING"]
      BY <2>3, AttemptEffect
    <3>2. \A s \in Steps : /\ phases'[s] = "FAILED" <=> phases[s] = "FAILED"
                           /\ phases'[s] = "PENDING" => phases[s] = "PENDING"
      BY <3>1 DEF TypeOK, PhaseMap
    <3>3. WorkflowFailed(phases') => WorkflowFailed(phases)
      BY <3>2, DagAssumption DEF WorkflowFailed
    <3>4. \A s \in Steps : ReactsTo(s, phases) => ReactsTo(s, phases')
      BY <1>2, <3>2 DEF ReactsTo
    <3> QED BY <1>3, <3>1, <3>2, <3>3, <3>4
  <2>4. CASE SubmitDone
    BY <1>3, <2>4, SubmitDoneEffect
  <2>5. CASE save_phases
    BY <1>3, <2>5 DEF save_phases, memVars
  <2>6. ASSUME NEW k \in 1..Len(log), HandleEvent(k)
        PROVE  TornNext(phases') /\ TornNext(cm'.phases)
    BY <1>3, <2>6, HandleEffect
  <2>7. CASE Crash
    <3>1. ~WorkflowFailed(phases') /\ cm' = cm
      BY <2>7, DagAssumption DEF Crash, AllPending, WorkflowFailed
    <3> QED BY <1>3, <3>1
  <2> QED BY <2>1, <2>2, <2>3, <2>4, <2>5, <2>6, <2>7, StepShapes
<1> QED BY <1>4 DEF TornDown, Torn

(***************************************************************************)
(* For every workflow, unless the API denies a create (a step that fails   *)
(* so fails while others are being submitted): after a required failure    *)
(* the controller starts only steps that react to it, through crashes,     *)
(* lost replies and failed reads and writes of the ConfigMap.              *)
(***************************************************************************)
THEOREM NoStartAfterFailure ==
  ASSUME "deny" \notin FaultKinds
  PROVE  Spec => NoFreshStartAfterFailure
<1> DEFINE A == \A s \in Steps :
                  /\ js[s] = "none" /\ js'[s] # "none"
                  /\ WorkflowFailed(phases)
                  => s \in reactive_preserve_set(phases, exits)
<1>1. Init => RunningHasJobSet /\ TornDown
  BY DagAssumption DEF Init, RunningHasJobSet, TornDown, Torn, AllPending, WorkflowFailed
<1>2. TypeOK /\ RunningHasJobSet /\ [Next]_vars => RunningHasJobSet'
  BY RunningStep
<1>3. TypeOK /\ RunningHasJobSet /\ TornDown /\ [Next]_vars => TornDown'
  BY TornStep
<1>4. ASSUME TypeOK, TornDown, [Next]_vars PROVE [A]_vars
  <2> SUFFICES ASSUME NEW s \in Steps, js[s] = "none", js'[s] # "none", WorkflowFailed(phases)
               PROVE  s \in reactive_preserve_set(phases, exits)
    OBVIOUS
  <2>1. Ready(s, phases, exits)
    BY <1>4, JobSetStep DEF JobSetsRest, JobSetMoves, SetJobSet, Transition, TypeOK
  <2>2. ReactsTo(s, phases)
    BY <1>4, <2>1 DEF Ready, TornDown, Torn
  <2> QED BY <2>1, <2>2 DEF Ready, ReactsTo, reactive_preserve_set
<1> HIDE DEF A
<1>5. Spec => [][A]_vars
  BY <1>1, <1>2, <1>3, <1>4, TypeCorrect, PTL DEF Spec
<1> QED BY <1>5 DEF NoFreshStartAfterFailure, A

-----------------------------------------------------------------------------
(* Without a queue.                                                        *)

\* An outcome believed or saved is one an event has told.
OutcomesAreSeen ==
  \A s \in Steps :
    /\ "CANCELED" \in {phases[s], cm.phases[s]} => Seen(s, "suspended")
    /\ "deny" \notin FaultKinds =>
         ("FAILED" \in {phases[s], cm.phases[s]} => Seen(s, "Failed"))

LEMMA SeenIsKept ==
  ASSUME TypeOK, [Next]_vars, NEW s \in Steps, NEW st, Seen(s, st)
  PROVE  Seen(s, st)'
<1>1. CASE JobSetsRest
  BY <1>1 DEF JobSetsRest, Seen
<1>2. CASE JobSetMoves
  BY <1>2, SeenAfter DEF JobSetMoves, TypeOK
<1> QED BY <1>1, <1>2, JobSetStep

LEMMA OutcomesSeenStep == TypeOK /\ OutcomesAreSeen /\ [Next]_vars => OutcomesAreSeen'
<1> SUFFICES ASSUME TypeOK, OutcomesAreSeen, [Next]_vars, NEW s \in Steps
             PROVE  /\ "CANCELED" \in {phases'[s], cm'.phases[s]} => Seen(s, "suspended")'
                    /\ "deny" \notin FaultKinds =>
                         ("FAILED" \in {phases'[s], cm'.phases[s]} => Seen(s, "Failed")')
  BY DEF OutcomesAreSeen
<1>1. "CANCELED" \in {phases'[s], cm'.phases[s]} => Seen(s, "suspended")
  BY BeliefStep DEF Outcomes, Evidence, OutcomesAreSeen
<1>2. "deny" \notin FaultKinds =>
        ("FAILED" \in {phases'[s], cm'.phases[s]} => Seen(s, "Failed"))
  BY BeliefStep DEF Outcomes, Evidence, OutcomesAreSeen
<1> QED BY <1>1, <1>2, SeenIsKept

\* Without a queue a JobSet is suspended only because someone asked for it, and
\* does not run again.
SuspendedIsAsked ==
  \A s \in Steps :
    Seen(s, "suspended") => s \in asked /\ js[s] \in {"suspended", "Completed", "Failed"}

LEMMA AskedGrows == [Next]_vars => asked \subseteq asked' /\ kueue' = kueue
<1> SUFFICES ASSUME [Next]_vars PROVE asked \subseteq asked' /\ kueue' = kueue
  OBVIOUS
<1>1. CASE \/ UNCHANGED vars \/ Boot \/ SubmitDone \/ CancelAborted \/ save_phases
           \/ OpenWatch \/ WatchTimeout \/ WatchFailed \/ WatchExpired \/ Finish \/ Crash
           \/ CancelLists
  BY <1>1 DEF vars, Boot, SubmitDone, CancelAborted, save_phases, OpenWatch, WatchTimeout,
     WatchFailed, WatchExpired, Finish, Crash, CancelLists, clusterVars, cancelUnchanged,
     reconnectUnchanged
<1>2. ASSUME NEW i \in 1..NumSteps, Attempt(i) PROVE asked' = asked /\ kueue' = kueue
  BY <1>2 DEF Attempt, CreateAccepted, CreateConflict, CreateRejected, CreateReplyLost,
     CreateDenied, CreateAborted, submitUnchanged
<1>3. ASSUME NEW k \in 1..Len(log), IgnoreEvent(k) \/ HandleEvent(k)
      PROVE  asked' = asked /\ kueue' = kueue
  BY <1>3 DEF IgnoreEvent, HandleEvent, clusterVars
<1>4. ASSUME NEW s \in Steps, CancelPatched(s) \/ CancelPatchFailed(s) \/ CancelSuspends(s)
                                \/ JobSetEnds(s) \/ KueueAdmits(s)
      PROVE  asked \subseteq asked' /\ kueue' = kueue
  BY <1>4 DEF CancelPatched, CancelPatchFailed, CancelSuspends, JobSetEnds, KueueAdmits,
     Suspend, cancelUnchanged
<1> QED BY <1>1, <1>2, <1>3, <1>4
        DEF Next, ControllerStep, ControllerFault, ClusterStep, UserStep, Attempt

LEMMA SuspendedStep ==
  TypeOK /\ ~kueue /\ SuspendedIsAsked /\ [Next]_vars => ~kueue' /\ SuspendedIsAsked'
<1> SUFFICES ASSUME TypeOK, ~kueue, SuspendedIsAsked, [Next]_vars
             PROVE  ~kueue' /\ SuspendedIsAsked'
  OBVIOUS
<1>1. ~kueue' /\ asked \subseteq asked'
  BY AskedGrows
<1>2. CASE JobSetsRest
  BY <1>1, <1>2 DEF JobSetsRest, SuspendedIsAsked, Seen
<1>3. CASE JobSetMoves
  <2>1. PICK t \in Steps, st \in JobSetStates : Transition(t, st) /\ SetJobSet(t, st)
    BY <1>3 DEF JobSetMoves
  <2> SUFFICES ASSUME NEW s \in Steps, Seen(s, "suspended")'
               PROVE  s \in asked' /\ js'[s] \in {"suspended", "Completed", "Failed"}
    BY <1>1 DEF SuspendedIsAsked
  <2>2. CASE Seen(s, "suspended")
    BY <1>1, <2>1, <2>2 DEF SuspendedIsAsked, Transition, SetJobSet, TypeOK
  <2>3. CASE s = t /\ st = "suspended"
    BY <2>1, <2>3 DEF Transition, SetJobSet, TypeOK
  <2> QED BY <2>1, <2>2, <2>3, SeenAfter DEF TypeOK
<1> QED BY <1>2, <1>3, JobSetStep

LEMMA WithoutQueue ==
  ASSUME TRUE \notin QueueModes
  PROVE  Spec => [](~kueue /\ SuspendedIsAsked /\ OutcomesAreSeen)
<1>1. Init => ~kueue /\ SuspendedIsAsked /\ OutcomesAreSeen
  <2> SUFFICES ASSUME Init PROVE ~kueue /\ SuspendedIsAsked /\ OutcomesAreSeen
    OBVIOUS
  <2>1. kueue \in BOOLEAN /\ kueue \in QueueModes
    BY TypeInit DEF Init, TypeOK
  <2>2. ~kueue
    BY <2>1, Zenon
  <2>3. SuspendedIsAsked /\ OutcomesAreSeen
    BY DEF Init, SuspendedIsAsked, OutcomesAreSeen, Seen, AllPending
  <2> QED BY <2>2, <2>3
<1>2. TypeOK /\ ~kueue /\ SuspendedIsAsked /\ [Next]_vars => ~kueue' /\ SuspendedIsAsked'
  BY SuspendedStep
<1>3. TypeOK /\ OutcomesAreSeen /\ [Next]_vars => OutcomesAreSeen'
  BY OutcomesSeenStep
<1> QED BY <1>1, <1>2, <1>3, TypeCorrect, PTL DEF Spec

(***************************************************************************)
(* For every workflow that names no Kueue queue (a queue suspends JobSets  *)
(* of its own accord), whatever fails: a step the controller believes or   *)
(* has saved as CANCELED is one whose JobSet someone asked to suspend.     *)
(***************************************************************************)
THEOREM CanceledWasAsked ==
  ASSUME TRUE \notin QueueModes
  PROVE  Spec => []CanceledOnlyIfAsked
<1>1. SuspendedIsAsked /\ OutcomesAreSeen => CanceledOnlyIfAsked
  BY DEF SuspendedIsAsked, OutcomesAreSeen, CanceledOnlyIfAsked
<1> QED BY <1>1, WithoutQueue, PTL
-----------------------------------------------------------------------------
(* A step that has a JobSet is never skipped.                              *)

(***************************************************************************)
(* The faults that lose nothing: of a create, only a rejection that stored *)
(* nothing; of the ConfigMap, none; of the watch and the patches, all.     *)
(***************************************************************************)
MildFaults ==
  /\ FaultKinds \subseteq {"reject", "patchFail", "captureFail", "watchFail", "expire"}
  /\ "reject" \in FaultKinds => ~FaultOnExisting

\* Where memory and ConfigMap agree on the outcomes, they agree in full.
OutcomesSaved ==
  pc \in SavedPCs =>
    \A s \in Steps : phases[s] \in TERMINAL_PHASES =>
      cm.phases[s] = phases[s] /\ cm.exits[s] = exits[s]

\* Every JobSet was created for reasons the ConfigMap still knows.
CreatesAreSaved ==
  \A s \in Steps : js[s] # "none" =>
    \A c \in Deps[s] : dep_satisfied(cm.phases, c, cm.exits)

\* A controller with steps that are PENDING although they have a JobSet is one
\* that has just started and has still to meet them.
JobSetsAreMet ==
  pc \notin {"down", "dead"} =>
    \A s \in Steps : js[s] # "none" /\ phases[s] = "PENDING" =>
      pc = "bootSubmit" /\ \E i \in cursor..NumSteps : Dag[i] = s

SkipInv == OutcomesKept /\ OutcomesSaved /\ CreatesAreSaved /\ JobSetsAreMet /\ SkippedNeverRan

\* A condition stays satisfied while the outcome it is about stays.
LEMMA DepKept ==
  ASSUME NEW c, NEW ph, NEW ex, NEW ph2, NEW ex2, dep_satisfied(ph, c, ex),
         ph[c.step] \in TERMINAL_PHASES => ph2[c.step] = ph[c.step] /\ ex2[c.step] = ex[c.step]
  PROVE  dep_satisfied(ph2, c, ex2)
BY DEF dep_satisfied, TERMINAL_PHASES, NOT_SUCCEEDED_PHASES

(***************************************************************************)
(* A create that loses nothing leaves the step RUNNING, or as it was       *)
(* without a JobSet.                                                       *)
(***************************************************************************)
LEMMA MildAttempt ==
  ASSUME MildFaults, TypeOK, NEW i \in 1..NumSteps, Attempt(i)
  PROVE  /\ pc' = pc /\ cursor' = i + 1
         /\ \/ phases' = [phases EXCEPT ![Dag[i]] = "RUNNING"]
            \/ phases' = phases /\ js' = js /\ js[Dag[i]] = "none"
<1> USE DEF MildFaults, Fault, submitUnchanged
<1>1. CASE CreateAccepted(i) \/ CreateConflict(i)
  BY <1>1 DEF CreateAccepted, CreateConflict, Submitted
<1>2. CASE CreateRejected(i)
  BY <1>2 DEF CreateRejected, CreateMayFail
<1>3. CASE CreateReplyLost(i) \/ CreateDenied(i) \/ CreateAborted(i)
  BY <1>3 DEF CreateReplyLost, CreateDenied, CreateAborted
<1> QED BY <1>1, <1>2, <1>3 DEF Attempt

LEMMA SavedStep ==
  ASSUME MildFaults
  PROVE  TypeOK /\ OutcomesSaved /\ [Next]_vars => OutcomesSaved'
<1> SUFFICES ASSUME TypeOK, OutcomesSaved, [Next]_vars PROVE OutcomesSaved'
  OBVIOUS
<1> USE DEF OutcomesSaved, SavedPCs
<1>1. CASE Still
  BY <1>1 DEF Still, memVars, CancelPCs, Finish, MildFaults, Loops
<1>2. CASE Boot
  BY <1>2, ReadBoot DEF MildFaults, TERMINAL_PHASES
<1>3. ASSUME NEW i \in 1..NumSteps, Attempt(i)
      PROVE  OutcomesSaved'
  <2>1. pc' = pc /\ cm' = cm /\ exits' = exits /\ pc \in SubmitPCs
    BY <1>3, AttemptEffect, MildAttempt DEF Submitting
  <2>2. \A s \in Steps : phases'[s] \in TERMINAL_PHASES => phases'[s] = phases[s]
    BY <1>3, MildAttempt, AttemptEffect DEF TypeOK, PhaseMap, TERMINAL_PHASES
  <2> QED BY <2>1, <2>2 DEF SubmitPCs
<1>4. CASE SubmitDone
  BY <1>4, SubmitDoneEffect DEF SubmitPCs
<1>5. CASE save_phases
  BY <1>5 DEF save_phases, memVars, Fault, MildFaults
<1>6. ASSUME NEW k \in 1..Len(log), HandleEvent(k)
      PROVE  OutcomesSaved'
  BY <1>6, HandleEffect
<1>7. CASE Crash
  BY <1>7 DEF Crash
<1> QED BY <1>1, <1>2, <1>3, <1>4, <1>5, <1>6, <1>7, StepShapes

LEMMA CreatesStep ==
  TypeOK /\ OutcomesKept /\ OutcomesSaved /\ CreatesAreSaved /\ [Next]_vars => CreatesAreSaved'
<1> SUFFICES ASSUME TypeOK, OutcomesKept, OutcomesSaved, CreatesAreSaved, [Next]_vars,
                    NEW s \in Steps, js'[s] # "none", NEW c \in Deps[s]
             PROVE  dep_satisfied(cm'.phases, c, cm'.exits)
  BY DEF CreatesAreSaved
<1>1. c.step \in Steps
  BY DagAssumption DEF DagAssumption, Condition
<1>2. dep_satisfied(cm.phases, c, cm.exits)
  <2>1. CASE js[s] # "none"
    BY <2>1 DEF CreatesAreSaved
  <2>2. CASE js[s] = "none"
    <3>1. Ready(s, phases, exits) /\ pc \in SubmitPCs
      BY <2>2, JobSetStep DEF JobSetsRest, JobSetMoves, SetJobSet, Transition, TypeOK
    <3>2. dep_satisfied(phases, c, exits)
      BY <3>1 DEF Ready
    <3>3. phases[c.step] \in TERMINAL_PHASES =>
            cm.phases[c.step] = phases[c.step] /\ cm.exits[c.step] = exits[c.step]
      BY <1>1, <3>1 DEF OutcomesSaved, SavedPCs, SubmitPCs
    <3> QED BY <3>2, <3>3, DepKept
  <2> QED BY <2>1, <2>2
<1>3. cm.phases[c.step] \in TERMINAL_PHASES =>
        cm'.phases[c.step] = cm.phases[c.step] /\ cm'.exits[c.step] = cm.exits[c.step]
  BY <1>1, ConfigMapKeeps
<1> QED BY <1>2, <1>3, DepKept

\* A step that waits although it has a JobSet is ready to be submitted again.
LEMMA MetIsReady ==
  ASSUME OutcomesKept, CreatesAreSaved, pc \notin {"down", "dead"},
         NEW s \in Steps, js[s] # "none", phases[s] = "PENDING"
  PROVE  Ready(s, phases, exits)
<1> SUFFICES ASSUME NEW c \in Deps[s] PROVE dep_satisfied(phases, c, exits)
  BY DEF Ready
<1>1. c.step \in Steps
  BY DagAssumption DEF DagAssumption, Condition
<1>2. dep_satisfied(cm.phases, c, cm.exits)
  BY DEF CreatesAreSaved
<1>3. cm.phases[c.step] \in TERMINAL_PHASES =>
        phases[c.step] = cm.phases[c.step] /\ exits[c.step] = cm.exits[c.step]
  BY <1>1 DEF OutcomesKept
<1> QED BY <1>2, <1>3, DepKept

LEMMA MetStep ==
  ASSUME MildFaults
  PROVE  TypeOK /\ OutcomesKept /\ CreatesAreSaved /\ JobSetsAreMet /\ [Next]_vars
           => JobSetsAreMet'
<1> SUFFICES ASSUME TypeOK, OutcomesKept, CreatesAreSaved, JobSetsAreMet, [Next]_vars
             PROVE  JobSetsAreMet'
  OBVIOUS
<1>1. CASE Still
  BY <1>1 DEF Still, memVars, CancelPCs, Finish, Loops, MildFaults, JobSetsAreMet
<1>2. CASE Boot
  BY <1>2, ReadBoot, DagAssumption DEF DagAssumption, MildFaults, JobSetsAreMet
<1>3. ASSUME NEW i \in 1..NumSteps, Attempt(i)
      PROVE  JobSetsAreMet'
  <2> SUFFICES ASSUME NEW s \in Steps, js'[s] # "none", phases'[s] = "PENDING"
               PROVE  pc' = "bootSubmit" /\ \E j \in cursor'..NumSteps : Dag[j] = s
    BY DEF JobSetsAreMet
  <2>1. pc' = pc /\ cursor' = i + 1 /\ pc \in SubmitPCs /\ Submitting(i) /\ Dag[i] \in Steps
    BY <1>3, MildAttempt, AttemptEffect DEF Submitting
  <2>2. s # Dag[i] /\ js[s] # "none" /\ phases[s] = "PENDING"
    BY <1>3, MildAttempt, AttemptEffect DEF TypeOK, PhaseMap
  <2>3. PICK j \in cursor..NumSteps : Dag[j] = s /\ pc = "bootSubmit"
    BY <2>1, <2>2 DEF JobSetsAreMet, SubmitPCs
  <2>4. j \in ReadyFrom(cursor)
    BY <2>1, <2>2, <2>3, MetIsReady DEF ReadyFrom, SubmitPCs
  <2>5. i <= j /\ i # j
    BY <2>1, <2>2, <2>3, <2>4 DEF Submitting
  <2>6. NumSteps \in Nat /\ cursor \in Nat
    BY DagAssumption DEF DagAssumption, TypeOK
  <2>7. j \in (i + 1)..NumSteps
    BY <2>5, <2>6
  <2> QED BY <2>1, <2>3, <2>7
<1>4. CASE SubmitDone
  <2> SUFFICES ASSUME NEW s \in Steps, js'[s] # "none", phases'[s] = "PENDING"
               PROVE  FALSE
    BY DEF JobSetsAreMet
  <2>1. /\ pc \in SubmitPCs /\ ReadyFrom(cursor) = {}
        /\ js[s] # "none" /\ phases[s] = "PENDING"
    BY <1>4, SubmitDoneEffect DEF OnlySkipsFrom
  <2>2. PICK j \in cursor..NumSteps : Dag[j] = s
    BY <2>1 DEF JobSetsAreMet, SubmitPCs
  <2>3. j \in ReadyFrom(cursor)
    BY <2>1, <2>2, MetIsReady DEF ReadyFrom, SubmitPCs
  <2> QED BY <2>1, <2>3
<1>5. CASE save_phases
  BY <1>5 DEF save_phases, memVars, clusterVars, SavePCs, JobSetsAreMet
<1>6. ASSUME NEW k \in 1..Len(log), HandleEvent(k)
      PROVE  JobSetsAreMet'
  <2>1. PICK s \in Steps, p \in Outcomes : OnlySkipsFrom([phases EXCEPT ![s] = p])
    BY <1>6, HandleEffect
  <2>2. \A t \in Steps : phases'[t] = "PENDING" => phases[t] = "PENDING"
    BY <2>1 DEF OnlySkipsFrom, TypeOK, PhaseMap, Outcomes
  <2> QED BY <1>6, <2>2, HandleEffect DEF JobSetsAreMet
<1>7. CASE Crash
  BY <1>7 DEF Crash, JobSetsAreMet
<1> QED BY <1>1, <1>2, <1>3, <1>4, <1>5, <1>6, <1>7, StepShapes

LEMMA SkippedStep ==
  ASSUME MildFaults
  PROVE  TypeOK /\ OutcomesKept /\ JobSetsAreMet /\ SkippedNeverRan /\ [Next]_vars
           => SkippedNeverRan'
<1> SUFFICES ASSUME TypeOK, OutcomesKept, JobSetsAreMet, SkippedNeverRan, [Next]_vars,
                    NEW s \in Steps, "SKIPPED" \in {phases'[s], cm'.phases[s]}
             PROVE  js'[s] = "none"
  BY DEF SkippedNeverRan
<1> USE DEF SkippedNeverRan
<1>1. CASE Still
  BY <1>1 DEF Still, memVars
<1>2. CASE Boot
  BY <1>2, ReadBoot DEF MildFaults
<1>3. ASSUME NEW i \in 1..NumSteps, Attempt(i)
      PROVE  js'[s] = "none"
  <2>1. /\ Dag[i] \in Steps /\ phases[Dag[i]] = "PENDING" /\ cm' = cm /\ pc \in SubmitPCs
        /\ \A t \in Steps \ {Dag[i]} : js'[t] = js[t] /\ phases'[t] = phases[t]
        /\ phases'[Dag[i]] # "SKIPPED"
    BY <1>3, AttemptEffect DEF TypeOK, PhaseMap, Submitting
  <2>2. cm.phases[Dag[i]] # "SKIPPED"
    BY <2>1 DEF OutcomesKept, SubmitPCs, TERMINAL_PHASES
  <2> QED BY <2>1, <2>2
<1>4. CASE SubmitDone
  <2>1. /\ js' = js /\ cm' = cm
        /\ \/ phases'[s] = phases[s]
           \/ phases[s] = "PENDING" /\ pc = "loopSubmit"
    BY <1>4, SubmitDoneEffect DEF OnlySkipsFrom
  <2> QED BY <2>1 DEF JobSetsAreMet
<1>5. CASE save_phases
  BY <1>5 DEF save_phases, memVars, clusterVars
<1>6. ASSUME NEW k \in 1..Len(log), HandleEvent(k)
      PROVE  js'[s] = "none"
  <2>1. PICK t \in Steps, p \in Outcomes : OnlySkipsFrom([phases EXCEPT ![t] = p])
    BY <1>6, HandleEffect
  <2>2. phases'[s] = "SKIPPED" => phases[s] \in {"SKIPPED", "PENDING"}
    BY <2>1 DEF OnlySkipsFrom, TypeOK, PhaseMap, Outcomes
  <2> QED BY <1>6, <2>2, HandleEffect DEF JobSetsAreMet
<1>7. CASE Crash
  BY <1>7 DEF Crash, AllPending, clusterVars
<1> QED BY <1>1, <1>2, <1>3, <1>4, <1>5, <1>6, <1>7, StepShapes

LEMMA SkipInvariance ==
  ASSUME MildFaults
  PROVE  Spec => []SkipInv
<1>1. Init => SkipInv
  BY DEF Init, SkipInv, OutcomesKept, OutcomesSaved, CreatesAreSaved, JobSetsAreMet,
     SkippedNeverRan, AllPending, SavedPCs
<1>2. "readFail" \notin FaultKinds
  BY DEF MildFaults
<1>3. TypeOK /\ SkipInv /\ [Next]_vars => SkipInv'
  BY <1>2, KeptStep, SavedStep, CreatesStep, MetStep, SkippedStep DEF SkipInv
<1> QED BY <1>1, <1>3, TypeCorrect, PTL DEF Spec

(***************************************************************************)
(* For every workflow, with any number of crashes, cancels and faults that *)
(* lose nothing: no step that is SKIPPED, in memory or in the ConfigMap,   *)
(* ever had a JobSet.                                                      *)
(***************************************************************************)
THEOREM SkippedStepsNeverRan ==
  ASSUME MildFaults
  PROVE  Spec => []SkippedNeverRan
<1>1. SkipInv => SkippedNeverRan
  BY DEF SkipInv
<1> QED BY <1>1, SkipInvariance, PTL
-----------------------------------------------------------------------------
(* The end of main().                                                      *)

\* What main() announces of the phases it ends with.
VerdictOf(ph) ==
  IF WorkflowFailed(ph) THEN "FAILED"
  ELSE IF \E s \in Steps : ph[s] = "CANCELED" THEN "CANCELED" ELSE "SUCCEEDED"

EndsSettled ==
  /\ pc \in {"exit", "done"} => AllTerminal(phases)
  /\ verdict = IF pc = "done" THEN VerdictOf(phases) ELSE "none"

LEMMA EndsStep == TypeOK /\ EndsSettled /\ [Next]_vars => EndsSettled'
<1> SUFFICES ASSUME TypeOK, EndsSettled, [Next]_vars PROVE EndsSettled'
  OBVIOUS
<1> USE DEF EndsSettled
<1>1. CASE Still
  BY <1>1 DEF Still, memVars, CancelPCs, Finish, Loops, VerdictOf
<1>2. CASE Boot
  BY <1>2 DEF Boot
<1>3. ASSUME NEW i \in 1..NumSteps, Attempt(i) PROVE EndsSettled'
  BY <1>3, AttemptEffect DEF Submitting, SubmitPCs, Loops
<1>4. CASE SubmitDone
  BY <1>4, SubmitDoneEffect DEF SubmitPCs
<1>5. CASE save_phases
  BY <1>5 DEF save_phases, AfterSave, LoopTop, SavePCs, memVars
<1>6. ASSUME NEW k \in 1..Len(log), HandleEvent(k) PROVE EndsSettled'
  BY <1>6, HandleEffect
<1>7. CASE Crash
  BY <1>7 DEF Crash
<1> QED BY <1>1, <1>2, <1>3, <1>4, <1>5, <1>6, <1>7, StepShapes

LEMMA EndsInvariance == Spec => []EndsSettled
<1>1. Init => EndsSettled
  BY DEF Init, EndsSettled
<1> QED BY <1>1, EndsStep, TypeCorrect, PTL DEF Spec

(***************************************************************************)
(* What the phases say at the end is what the JobSets did.                 *)
(***************************************************************************)
LEMMA OutcomesAreReal ==
  ASSUME MildFaults, IInv, OutcomesAreSeen, SuspendedIsAsked, SkippedNeverRan, NEW s \in Steps
  PROVE  /\ phases[s] = "SUCCEEDED" => js[s] = "Completed"
         /\ phases[s] = "FAILED" => js[s] = "Failed"
         /\ phases[s] = "CANCELED" => Seen(s, "suspended")
         /\ phases[s] = "CANCELED" => js[s] \in {"suspended", "Completed", "Failed"}
         /\ phases[s] = "SKIPPED" => js[s] = "none"
BY DEF MildFaults, IInv, SucceededIsReal, LogIsTrue, OutcomesAreSeen, SuspendedIsAsked,
       SkippedNeverRan

(***************************************************************************)
(* For every workflow that names no queue, with any number of crashes,     *)
(* cancels and faults that lose nothing: when main() returns no worker     *)
(* JobSet runs.                                                            *)
(***************************************************************************)
THEOREM NothingRunsOn ==
  ASSUME MildFaults, TRUE \notin QueueModes
  PROVE  Spec => []NothingLeftRunning
<1>1. ASSUME IInv, OutcomesAreSeen, SuspendedIsAsked, SkippedNeverRan, EndsSettled
      PROVE  NothingLeftRunning
  <2> SUFFICES ASSUME pc \in {"exit", "done"}, NEW s \in Steps PROVE js[s] # "active"
    BY DEF NothingLeftRunning
  <2>1. phases[s] \in TERMINAL_PHASES
    BY <1>1 DEF EndsSettled, AllTerminal
  <2> QED BY <1>1, <2>1, OutcomesAreReal DEF TERMINAL_PHASES
<1> QED BY <1>1, Invariance, WithoutQueue, SkippedStepsNeverRan, EndsInvariance, PTL

-----------------------------------------------------------------------------
(* The verdict.                                                            *)

TearsDownFailures == toCancel # {} => pc \in CancelPCs /\ WorkflowFailed(phases)

LEMMA TearsDownStep == TypeOK /\ TearsDownFailures /\ [Next]_vars => TearsDownFailures'
<1> SUFFICES ASSUME TypeOK, TearsDownFailures, [Next]_vars PROVE TearsDownFailures'
  OBVIOUS
<1> USE DEF TearsDownFailures, CancelPCs
<1>1. CASE Still
  BY <1>1 DEF Still, memVars
<1>2. CASE Boot
  BY <1>2 DEF Boot
<1>3. ASSUME NEW i \in 1..NumSteps, Attempt(i) PROVE TearsDownFailures'
  BY <1>3, AttemptEffect DEF Submitting, SubmitPCs
<1>4. CASE SubmitDone
  BY <1>4, SubmitDoneEffect DEF SubmitPCs
<1>5. CASE save_phases
  BY <1>5 DEF save_phases, SavePCs
<1>6. ASSUME NEW k \in 1..Len(log), HandleEvent(k) PROVE TearsDownFailures'
  BY <1>6, HandleEffect
<1>7. CASE Crash
  BY <1>7 DEF Crash
<1> QED BY <1>1, <1>2, <1>3, <1>4, <1>5, <1>6, <1>7, StepShapes

(***************************************************************************)
(* Only a teardown and a running `chain cancel` ask for suspensions.       *)
(***************************************************************************)
LEMMA AskStep ==
  TypeOK /\ [Next]_vars =>
    /\ asked' = asked \/ toCancel # {} \/ userTargets # {}
    /\ userTargets' # {} => userTargets # {} \/ cancels' > 0
    /\ cancels > 0 => cancels' > 0
<1> SUFFICES ASSUME TypeOK, [Next]_vars
             PROVE  /\ asked' = asked \/ toCancel # {} \/ userTargets # {}
                    /\ userTargets' # {} => userTargets # {} \/ cancels' > 0
                    /\ cancels > 0 => cancels' > 0
  OBVIOUS
<1>1. CASE CancelLists
  <2>1. cancels \in Nat /\ cancels' = cancels + 1 /\ asked' = asked
    BY <1>1 DEF CancelLists, clusterVars, TypeOK
  <2>2. cancels' > 0
    BY <2>1
  <2> QED BY <2>1, <2>2
<1>2. ASSUME NEW s \in Steps, CancelSuspends(s)
      PROVE  userTargets # {} /\ cancels' = cancels
  BY <1>2 DEF CancelSuspends
<1>3. ASSUME NEW s \in Steps, CancelPatched(s) \/ CancelPatchFailed(s)
      PROVE  toCancel # {} /\ userTargets' = userTargets /\ cancels' = cancels
  BY <1>3 DEF CancelPatched, CancelPatchFailed, FirstToCancel, cancelUnchanged, userVars
<1>4. CASE \/ UNCHANGED vars \/ Boot \/ SubmitDone \/ CancelAborted \/ save_phases
           \/ OpenWatch \/ WatchTimeout \/ WatchFailed \/ WatchExpired \/ Finish \/ Crash
  BY <1>4 DEF vars, Boot, SubmitDone, CancelAborted, save_phases, OpenWatch, WatchTimeout,
     WatchFailed, WatchExpired, Finish, Crash, clusterVars, userVars, cancelUnchanged,
     reconnectUnchanged
<1>5. ASSUME NEW i \in 1..NumSteps, Attempt(i)
      PROVE  asked' = asked /\ userTargets' = userTargets /\ cancels' = cancels
  BY <1>5 DEF Attempt, CreateAccepted, CreateConflict, CreateRejected, CreateReplyLost,
     CreateDenied, CreateAborted, submitUnchanged, userVars
<1>6. ASSUME NEW k \in 1..Len(log), IgnoreEvent(k) \/ HandleEvent(k)
      PROVE  asked' = asked /\ userTargets' = userTargets /\ cancels' = cancels
  BY <1>6 DEF IgnoreEvent, HandleEvent, clusterVars, userVars
<1>7. ASSUME NEW s \in Steps, JobSetEnds(s) \/ KueueAdmits(s)
      PROVE  asked' = asked /\ userTargets' = userTargets /\ cancels' = cancels
  BY <1>7 DEF JobSetEnds, KueueAdmits, userVars
<1> QED BY <1>1, <1>2, <1>3, <1>4, <1>5, <1>6, <1>7
        DEF Next, ControllerStep, ControllerFault, ClusterStep, UserStep, Attempt

\* A required step that failed, and was not suspended before it did.
FailedUnasked ==
  \E a \in Steps \ Optional : js[a] = "Failed" /\ ~Seen(a, "suspended")

\* Who asks for a suspension: the user, or a teardown after such a failure.
AskedForReasons ==
  /\ userTargets # {} => cancels > 0
  /\ asked # {} => cancels > 0 \/ FailedUnasked

LEMMA FailedUnaskedStays ==
  ASSUME TypeOK, [Next]_vars, FailedUnasked PROVE FailedUnasked'
<1>1. PICK a \in Steps \ Optional : js[a] = "Failed" /\ ~Seen(a, "suspended")
  BY DEF FailedUnasked
<1>2. a \in Steps
  BY <1>1
<1>3. js'[a] = "Failed"
  BY <1>1, <1>2, EndIsFinal
<1>4. ~Seen(a, "suspended")'
  <2>1. CASE JobSetsRest
    BY <1>1, <2>1 DEF JobSetsRest, Seen
  <2>2. CASE JobSetMoves
    <3>1. PICK t \in Steps, st \in JobSetStates : Transition(t, st) /\ SetJobSet(t, st)
      BY <2>2 DEF JobSetMoves
    <3>2. a # t
      BY <1>1, <3>1 DEF Transition
    <3> QED BY <1>1, <1>2, <3>1, <3>2, SeenAfter DEF TypeOK
  <2> QED BY <2>1, <2>2, JobSetStep
<1> QED BY <1>1, <1>3, <1>4 DEF FailedUnasked

LEMMA ReasonsStep ==
  ASSUME MildFaults
  PROVE  /\ IInv /\ OutcomesAreSeen /\ SuspendedIsAsked /\ TearsDownFailures
         /\ AskedForReasons /\ [Next]_vars
         => AskedForReasons'
<1> SUFFICES ASSUME IInv, OutcomesAreSeen, SuspendedIsAsked, TearsDownFailures,
                    AskedForReasons, [Next]_vars
             PROVE  AskedForReasons'
  OBVIOUS
<1>1. TypeOK
  BY DEF IInv
<1>2. userTargets' # {} => cancels' > 0
  BY <1>1, AskStep DEF AskedForReasons
<1>3. ASSUME asked' # {}, ~(cancels' > 0)
      PROVE  FailedUnasked'
  <2>1. userTargets = {} /\ ~(cancels > 0)
    BY <1>1, <1>3, AskStep DEF AskedForReasons
  <2>2. CASE asked # {}
    BY <1>1, <2>1, <2>2, FailedUnaskedStays DEF AskedForReasons
  <2>3. CASE asked = {}
    <3>1. WorkflowFailed(phases)
      BY <1>1, <1>3, <2>1, <2>3, AskStep DEF TearsDownFailures
    <3>2. PICK a \in Steps \ Optional : phases[a] = "FAILED"
      BY <3>1 DEF WorkflowFailed
    <3>3. js[a] = "Failed"
      BY <3>2 DEF OutcomesAreSeen, MildFaults, IInv, LogIsTrue
    <3>4. ~Seen(a, "suspended")
      BY <2>3, <3>2 DEF SuspendedIsAsked
    <3>5. FailedUnasked
      BY <3>2, <3>3, <3>4 DEF FailedUnasked
    <3> QED BY <1>1, <3>5, FailedUnaskedStays
  <2> QED BY <2>2, <2>3
<1> QED BY <1>2, <1>3 DEF AskedForReasons

(***************************************************************************)
(* For every workflow that names no queue, with any number of crashes,     *)
(* cancels and faults that lose nothing: the announced verdict is what the *)
(* JobSets did, and "canceled" what the user asked for.                    *)
(***************************************************************************)
THEOREM VerdictsAreReal ==
  ASSUME MildFaults, TRUE \notin QueueModes
  PROVE  Spec => []VerdictIsReal
<1>1. Init => TearsDownFailures /\ AskedForReasons
  BY DEF Init, TearsDownFailures, AskedForReasons
<1>2. TypeOK /\ TearsDownFailures /\ [Next]_vars => TearsDownFailures'
  BY TearsDownStep
<1>3. /\ IInv /\ OutcomesAreSeen /\ SuspendedIsAsked /\ TearsDownFailures
      /\ AskedForReasons /\ [Next]_vars
      => AskedForReasons'
  BY ReasonsStep
<1>4. Spec => [](TearsDownFailures /\ AskedForReasons)
  BY <1>1, <1>2, <1>3, TypeCorrect, Invariance, WithoutQueue, PTL DEF Spec
<1>5. ASSUME IInv, OutcomesAreSeen, SuspendedIsAsked, SkippedNeverRan, EndsSettled,
             AskedForReasons
      PROVE  VerdictIsReal
  <2> SUFFICES ASSUME verdict # "none" PROVE VerdictIsReal
    BY DEF VerdictIsReal
  <2>1. pc = "done" /\ verdict = VerdictOf(phases) /\ AllTerminal(phases)
    BY <1>5 DEF EndsSettled
  <2>2. ASSUME verdict = "SUCCEEDED", NEW s \in Steps \ Optional
        PROVE  js[s] \in {"Completed", "none"}
    <3>1. phases[s] \in {"SUCCEEDED", "SKIPPED"}
      BY <2>1, <2>2 DEF VerdictOf, WorkflowFailed, AllTerminal, TERMINAL_PHASES
    <3> QED BY <1>5, <3>1, OutcomesAreReal
  <2>3. ASSUME verdict = "FAILED" PROVE \E s \in Steps \ Optional : js[s] = "Failed"
    <3>1. PICK s \in Steps \ Optional : phases[s] = "FAILED"
      BY <2>1, <2>3 DEF VerdictOf, WorkflowFailed
    <3> QED BY <1>5, <3>1, OutcomesAreReal
  <2>4. ASSUME verdict = "CANCELED" PROVE cancels > 0
    <3>1. ~WorkflowFailed(phases) /\ \E s \in Steps : phases[s] = "CANCELED"
      BY <2>1, <2>4 DEF VerdictOf
    <3>2. PICK s \in Steps : phases[s] = "CANCELED"
      BY <3>1
    <3>3. asked # {}
      BY <1>5, <3>2 DEF OutcomesAreSeen, SuspendedIsAsked
    <3>4. ASSUME NEW a \in Steps \ Optional, js[a] = "Failed", ~Seen(a, "suspended")
          PROVE  FALSE
      <4>1. phases[a] \in TERMINAL_PHASES \ {"FAILED"}
        BY <2>1, <3>1, <3>4 DEF AllTerminal, WorkflowFailed
      <4> QED BY <1>5, <3>4, <4>1, OutcomesAreReal DEF TERMINAL_PHASES
    <3> QED BY <1>5, <3>3, <3>4 DEF AskedForReasons, FailedUnasked
  <2> QED BY <2>2, <2>3, <2>4 DEF VerdictIsReal
<1> QED BY <1>4, <1>5, Invariance, WithoutQueue, SkippedStepsNeverRan, EndsInvariance, PTL

-----------------------------------------------------------------------------
(* The status report.                                                      *)

\* At rest the ConfigMap holds the phases.
SavedAtRest ==
  pc \in {"open", "watch", "exit", "done"} => cm.exists /\ cm.phases = phases

LEMMA AtRestStep ==
  ASSUME FaultKinds \cap {"saveFail", "transport"} = {}
  PROVE  TypeOK /\ SavedAtRest /\ [Next]_vars => SavedAtRest'
<1> SUFFICES ASSUME TypeOK, SavedAtRest, [Next]_vars PROVE SavedAtRest'
  OBVIOUS
<1> USE DEF SavedAtRest
<1>1. CASE Still
  BY <1>1 DEF Still, memVars, CancelPCs, Finish, Loops
<1>2. CASE Boot
  BY <1>2 DEF Boot
<1>3. ASSUME NEW i \in 1..NumSteps, Attempt(i) PROVE SavedAtRest'
  BY <1>3, AttemptEffect DEF Submitting, SubmitPCs
<1>4. CASE SubmitDone
  BY <1>4, SubmitDoneEffect DEF SubmitPCs
<1>5. CASE save_phases
  <2>1. cm' = [exists |-> TRUE, phases |-> phases, exits |-> exits] /\ phases' = phases
    BY <1>5 DEF save_phases, Fault, memVars
  <2>2. cm'.exists = TRUE /\ cm'.phases = phases'
    BY <2>1
  <2> QED BY <2>2
<1>6. ASSUME NEW k \in 1..Len(log), HandleEvent(k) PROVE SavedAtRest'
  BY <1>6, HandleEffect
<1>7. CASE Crash
  BY <1>7 DEF Crash
<1> QED BY <1>1, <1>2, <1>3, <1>4, <1>5, <1>6, <1>7, StepShapes

(***************************************************************************)
(* What a set of phases is aggregated to: FAILED before CANCELED before    *)
(* what is left, for of what is ranked above them a phase is never an      *)
(* ERROR; and nothing else than an end, if all of them are ends.           *)
(***************************************************************************)
LEMMA AggregateOfPhases ==
  ASSUME NEW S \in SUBSET Phases
  PROVE  /\ aggregate(S) = "FAILED" <=> "FAILED" \in S
         /\ aggregate(S) = "CANCELED" <=> "CANCELED" \in S /\ "FAILED" \notin S
         /\ S \subseteq TERMINAL_PHASES =>
              aggregate(S) \in {"FAILED", "CANCELED", "SUCCEEDED", "SKIPPED", "UNKNOWN"}
<1> DEFINE Present == {i \in DOMAIN _ANY_PRIORITY : _ANY_PRIORITY[i] \in S}
<1>1. /\ DOMAIN _ANY_PRIORITY = 1..6 /\ _ANY_PRIORITY[1] = "ERROR"
      /\ _ANY_PRIORITY[2] = "FAILED" /\ _ANY_PRIORITY[3] = "CANCELED"
      /\ _ANY_PRIORITY[4] = "RUNNING" /\ _ANY_PRIORITY[5] = "STARTING"
      /\ _ANY_PRIORITY[6] = "PENDING"
  BY DEF _ANY_PRIORITY
<1>2. /\ Present \subseteq 2..6
      /\ (2 \in Present <=> "FAILED" \in S) /\ (3 \in Present <=> "CANCELED" \in S)
  <2>1. "ERROR" \notin S
    BY DEF Phases, TERMINAL_PHASES
  <2> QED BY <1>1, <2>1
<1>3. ASSUME NEW k \in Present, \A j \in Present : k <= j
      PROVE  aggregate(S) = _ANY_PRIORITY[k]
  <2> DEFINE first == CHOOSE i \in Present : \A j \in Present : i <= j
  <2>1. aggregate(S) = _ANY_PRIORITY[first]
    <3>1. Present # {}
      BY <1>3
    <3> QED BY <3>1 DEF aggregate
  <2> HIDE DEF Present
  <2>2. first \in Present /\ \A j \in Present : first <= j
    BY <1>3
  <2> HIDE DEF first
  <2>3. first \in 2..6 /\ k \in 2..6 /\ first <= k /\ k <= first
    BY <1>2, <1>3, <2>2
  <2>4. first = k
    BY <2>3
  <2> QED BY <2>1, <2>4
<1>4. CASE "FAILED" \in S
  <2>1. 2 \in Present /\ \A j \in Present : 2 <= j
    <3> HIDE DEF Present
    <3> QED BY <1>2, <1>4
  <2>2. aggregate(S) = "FAILED"
    BY <1>1, <1>3, <2>1
  <2> QED BY <1>4, <2>2
<1>5. CASE "FAILED" \notin S /\ "CANCELED" \in S
  <2>1. 3 \in Present /\ \A j \in Present : 3 <= j
    <3> HIDE DEF Present
    <3> QED BY <1>2, <1>5
  <2>2. aggregate(S) = "CANCELED"
    BY <1>1, <1>3, <2>1
  <2> QED BY <1>5, <2>2
<1>6. CASE "FAILED" \notin S /\ "CANCELED" \notin S
  <2>1. Present \subseteq 4..6
    <3> HIDE DEF Present
    <3> QED BY <1>2, <1>6
  <2>2. CASE Present = {}
    <3>1. aggregate(S) \in {"SUCCEEDED", "SKIPPED", "UNKNOWN"}
      BY <2>2 DEF aggregate
    <3> QED BY <1>6, <3>1
  <2>3. CASE Present # {}
    <3>1. \E k \in Present : \A j \in Present : k <= j
      <4> HIDE DEF Present
      <4>1. CASE 4 \in Present
        BY <2>1, <4>1
      <4>2. CASE 4 \notin Present /\ 5 \in Present
        BY <2>1, <4>2
      <4>3. CASE Present \subseteq {6}
        <5>1. 6 \in Present
          BY <2>3, <4>3
        <5> QED BY <4>3, <5>1
      <4> QED BY <2>1, <4>1, <4>2, <4>3
    <3>2. PICK k \in Present : aggregate(S) = _ANY_PRIORITY[k]
      BY <1>3, <3>1
    <3>3. k \in 4..6 /\ _ANY_PRIORITY[k] \in S
      BY <2>1, <3>2
    <3>4. aggregate(S) \in {"RUNNING", "STARTING", "PENDING"}
      BY <1>1, <3>2, <3>3
    <3>5. ~(S \subseteq TERMINAL_PHASES)
      BY <3>2, <3>3, <3>4 DEF TERMINAL_PHASES
    <3> QED BY <1>6, <3>4, <3>5
  <2> QED BY <2>2, <2>3
<1> QED BY <1>4, <1>5, <1>6

(***************************************************************************)
(* For every workflow, if the saves reach the ConfigMap and no error but   *)
(* an API one breaks off an event half way (then the next loop may end     *)
(* main() unsaved), and whatever else fails: what is told of a finished    *)
(* workflow, with its ConfigMap and in the archive, relates to the verdict *)
(* as EndIsReported says, in all their combinations.                       *)
(***************************************************************************)
THEOREM EndsAreReported ==
  ASSUME FaultKinds \cap {"saveFail", "transport"} = {}
  PROVE  Spec => []EndIsReported
<1>1. Init => SavedAtRest
  BY DEF Init, SavedAtRest
<1>2. TypeOK /\ SavedAtRest /\ [Next]_vars => SavedAtRest'
  BY AtRestStep
<1>3. ASSUME TypeOK, SavedAtRest, EndsSettled PROVE EndIsReported
  <2> SUFFICES ASSUME pc = "done" PROVE EndIsReported
    BY DEF EndIsReported
  <2>1. /\ cm.exists /\ cm.phases = phases /\ verdict = VerdictOf(phases)
        /\ AllTerminal(phases) /\ phases \in PhaseMap
    BY <1>3 DEF SavedAtRest, EndsSettled, TypeOK
  <2>2. LiveStatus = IF CanceledSteps # {} THEN "CANCELED" ELSE verdict
    <3>1. workflow_canceled(cm) <=> CanceledSteps # {}
      BY <2>1 DEF workflow_canceled, CanceledSteps
    <3>2. workflow_failed(cm) <=> WorkflowFailed(phases)
      BY <2>1 DEF workflow_failed
    <3>3. verdict = IF WorkflowFailed(phases) THEN "FAILED"
                    ELSE IF CanceledSteps # {} THEN "CANCELED" ELSE "SUCCEEDED"
      BY <2>1 DEF VerdictOf, CanceledSteps
    <3> QED BY <3>1, <3>2, <3>3 DEF LiveStatus
  <2>3. /\ verdict = "FAILED" <=> WorkflowFailed(phases)
        /\ verdict = "CANCELED" <=> ~WorkflowFailed(phases) /\ CanceledSteps # {}
    BY <2>1 DEF VerdictOf, CanceledSteps
  <2> DEFINE S == {phases[s] : s \in Steps \ Optional}
  <2>4. S \in SUBSET Phases /\ S \subseteq TERMINAL_PHASES
    BY <2>1 DEF PhaseMap, AllTerminal
  <2>5. /\ "FAILED" \in S <=> WorkflowFailed(phases)
        /\ "CANCELED" \in S <=> ~(CanceledSteps \subseteq Optional)
    BY DEF WorkflowFailed, CanceledSteps
  <2>6. ArchivedStatus(phases) = aggregate(S)
    BY DEF ArchivedStatus
  <2>7. /\ aggregate(S) = "FAILED" <=> "FAILED" \in S
        /\ aggregate(S) = "CANCELED" <=> "CANCELED" \in S /\ "FAILED" \notin S
        /\ aggregate(S) \in {"FAILED", "CANCELED", "SUCCEEDED", "SKIPPED", "UNKNOWN"}
    BY <2>4, AggregateOfPhases
  <2>8. ~(CanceledSteps \subseteq Optional) => CanceledSteps # {}
    OBVIOUS
  <2> HIDE DEF S
  <2> QED BY <2>2, <2>3, <2>5, <2>6, <2>7, <2>8 DEF EndIsReported
<1> QED BY <1>1, <1>2, <1>3, TypeCorrect, EndsInvariance, PTL DEF Spec
=============================================================================
