----------------------------- MODULE Controller -----------------------------
(***************************************************************************)
(* One workflow as it runs in the cluster: the controller process          *)
(* (watch.py, scheduling.py, phases.py), its phases ConfigMap, the worker  *)
(* JobSets, the API server's event stream, and the `chain cancel` client.  *)
(* The pod that runs the controller may crash between any two of its API   *)
(* calls; its JobSet restarts it MaxRestarts times (backoffLimit).         *)
(* The names of faults are those of FaultKinds, explained beside each      *)
(* action that uses one.                                                   *)
(***************************************************************************)
EXTENDS DagRules, Sequences

CONSTANTS
  Self,            \* the controller's own JobSet, which its watch lists too; its
                   \* later changes are left out: the watch skips them
  MaxRestarts,     \* restarts of the controller pod before its JobSet fails
  FaultKinds,      \* the API faults that may happen
  FaultOnExisting, \* whether a create of an existing JobSet may fail before the 409
  MaxFaults,       \* bound on faults
  MaxCancels,      \* bound on uses of `chain cancel`
  QueueModes,      \* whether the workflow names a Kueue queue: no, yes, or either
  Endless          \* the steps whose pods may run for ever

AllFaults == {"reject", "lostReply", "deny", "transport", "saveFail",
              "readFail", "patchFail", "captureFail", "watchFail", "expire"}

ASSUME ControllerAssumption ==
  /\ Self \notin Steps
  /\ FaultKinds \subseteq AllFaults
  /\ FaultOnExisting \in BOOLEAN
  /\ QueueModes \subseteq BOOLEAN
  /\ Endless \subseteq Steps
  /\ {MaxRestarts, MaxFaults, MaxCancels} \subseteq Nat

VARIABLES
  pc,          \* where the controller is (see PCs)
  cursor,      \* the position of submit_ready_steps in the dag
  phases,      \* phases, in memory
  exits,       \* exit_codes, in memory
  known,       \* the steps in js_names (and, inverted, in js_to_step)
  toCancel,    \* the steps cancel_step_jobsets has still to patch
  rv,          \* resource_version: the last event seen, 0 for ""
  snapLeft,    \* objects of the stream's initial list not delivered yet
  next,        \* the last log entry the open stream has covered
  verdict,     \* what main() announced when it returned
  cm,          \* the phases ConfigMap
  js,          \* the state of each step's JobSet
  code,        \* the exit code of the pods of a JobSet that ended, kept for the
               \* steps whose exit code some condition gates on
  log,         \* the API server's history of JobSet changes
  kueue,       \* whether JobSets wait in a queue before they run
  asked,       \* steps whose JobSet someone patched spec.suspend=true
  userTargets, \* the JobSets a running `chain cancel` has still to patch
  cancels, crashes, faults \* how often each has happened

memVars == <<phases, exits, known>>
streamVars == <<rv, snapLeft, next>>
clusterVars == <<js, code, log, asked, kueue>>
userVars == <<userTargets, cancels>>
vars == <<pc, cursor, memVars, toCancel, streamVars, verdict, cm, clusterVars,
          userVars, crashes, faults>>

PCs == {"down", "bootSubmit", "bootSave", "loopSubmit", "loopCancel",
        "loopSave", "open", "watch", "evCancel", "evSave", "evSubmit",
        "evSave2", "exit", "done", "dead"}
SubmitPCs == {"bootSubmit", "loopSubmit", "evSubmit"}
CancelPCs == {"loopCancel", "evCancel"}
SavePCs == {"bootSave", "loopSave", "evSave", "evSave2"}

JobSetStates == {"none", "active", "suspended", "Completed", "Failed"}
Events == [obj : Steps \union {Self}, st : JobSetStates]
AllPending == [s \in Steps |-> "PENDING"]
NoExits == [s \in Steps |-> {}]

Init ==
  /\ pc = "down" /\ cursor = 1
  /\ phases = AllPending /\ exits = NoExits /\ known = {} /\ toCancel = {}
  /\ rv = 0 /\ snapLeft = {} /\ next = 0
  /\ verdict = "none"
  /\ cm = [exists |-> FALSE, phases |-> AllPending, exits |-> NoExits]
  /\ js = [s \in Steps |-> "none"]
  /\ code = [s \in Steps |-> 0]
  /\ log = <<[obj |-> Self, st |-> "active"]>>
  /\ kueue \in QueueModes /\ asked = {} /\ userTargets = {}
  /\ cancels = 0 /\ crashes = 0 /\ faults = 0

Fault(kind) ==
  /\ kind \in FaultKinds
  /\ faults < MaxFaults
  /\ faults' = faults + 1

\* A change of a JobSet, and the event the API server records for it.
SetJobSet(s, st) ==
  /\ js' = [js EXCEPT ![s] = st]
  /\ log' = Append(log, [obj |-> s, st |-> st])

\* `while not all(p in TERMINAL_PHASES ...)`, with the watch closed.
LoopTop(ph) ==
  /\ pc' = IF AllTerminal(ph) THEN "exit" ELSE "loopSubmit"
  /\ cursor' = 1
  /\ snapLeft' = {} /\ next' = 0

-----------------------------------------------------------------------------
(* Start: load_phases keeps only terminal phases; a read that fails        *)
(* ("readFail") leaves every step PENDING, or no exit codes.               *)

\* Mutant: a restart remembers the successes only.
load_phases_successes(ok) ==
  [s \in Steps |-> IF ok /\ cm.phases[s] = "SUCCEEDED" THEN "SUCCEEDED" ELSE "PENDING"]

load_phases(ok) ==
  IF ok
    THEN [s \in Steps |-> IF cm.phases[s] \in TERMINAL_PHASES
                            THEN cm.phases[s] ELSE "PENDING"]
    ELSE AllPending

load_exit_codes(ok) == IF ok THEN cm.exits ELSE NoExits

Boot ==
  /\ pc = "down"
  /\ \E p, e \in {0, 1} :
       /\ p + e > 0 => "readFail" \in FaultKinds /\ faults + p + e <= MaxFaults
       /\ faults' = faults + p + e
       /\ phases' = load_phases(p = 0)
       /\ exits' = load_exit_codes(e = 0)
  /\ pc' = "bootSubmit" /\ cursor' = 1 /\ known' = {}
  /\ UNCHANGED <<toCancel, streamVars, verdict, cm, clusterVars, userVars, crashes>>

-----------------------------------------------------------------------------
(* submit_ready_steps: one create for each ready step, in dag order.       *)

ReadyFrom(i) == {j \in i..NumSteps : Ready(Dag[j], phases, exits)}

Submitting(i) ==
  /\ pc \in SubmitPCs
  /\ i \in ReadyFrom(cursor)
  /\ \A j \in ReadyFrom(cursor) : i <= j

\* With a Kueue queue the JobSet is admitted later and starts suspended.
CreateJobSet(s) == SetJobSet(s, IF kueue THEN "suspended" ELSE "active")

Submitted(s) ==
  /\ phases' = [phases EXCEPT ![s] = "RUNNING"]
  /\ known' = known \union {s}

submitUnchanged ==
  UNCHANGED <<exits, toCancel, rv, verdict, cm, code, asked, kueue, userVars, crashes>>

CreateAccepted(i) ==
  /\ Submitting(i)
  /\ js[Dag[i]] = "none"
  /\ CreateJobSet(Dag[i])
  /\ Submitted(Dag[i])
  /\ cursor' = i + 1
  /\ UNCHANGED <<pc, snapLeft, next, faults>>
  /\ submitUnchanged

\* 409: the JobSet exists, from before a crash or a reply that was lost.
CreateConflict(i) ==
  /\ Submitting(i)
  /\ js[Dag[i]] # "none"
  /\ Submitted(Dag[i])
  /\ cursor' = i + 1
  /\ UNCHANGED <<pc, js, log, snapLeft, next, faults>>
  /\ submitUnchanged

CreateMayFail(i) == js[Dag[i]] = "none" \/ FaultOnExisting

\* 429 or 5xx, nothing stored: left PENDING for the next iteration.
CreateRejected(i) ==
  /\ Submitting(i)
  /\ CreateMayFail(i) /\ Fault("reject")
  /\ cursor' = i + 1
  /\ UNCHANGED <<pc, phases, known, js, log, snapLeft, next>>
  /\ submitUnchanged

\* 5xx although the JobSet was stored (a gateway timeout).
CreateReplyLost(i) ==
  /\ Submitting(i)
  /\ js[Dag[i]] = "none" /\ Fault("lostReply")
  /\ CreateJobSet(Dag[i])
  /\ cursor' = i + 1
  /\ UNCHANGED <<pc, phases, known, snapLeft, next>>
  /\ submitUnchanged

\* Any other 4xx fails the step.
CreateDenied(i) ==
  /\ Submitting(i)
  /\ CreateMayFail(i) /\ Fault("deny")
  /\ phases' = [phases EXCEPT ![Dag[i]] = "FAILED"]
  /\ cursor' = i + 1
  /\ UNCHANGED <<pc, known, js, log, snapLeft, next>>
  /\ submitUnchanged

\* An error that is no ApiException, the JobSet stored or not: the watch
\* loop's handler reconnects.  Outside the watch it is a Crash.
CreateAborted(i) ==
  /\ Submitting(i) /\ pc = "evSubmit"
  /\ Fault("transport")
  /\ \/ js[Dag[i]] = "none" /\ CreateJobSet(Dag[i])
     \/ UNCHANGED <<js, log>>
  /\ LoopTop(phases)
  /\ UNCHANGED <<phases, known>>
  /\ submitUnchanged

-----------------------------------------------------------------------------
(* After submitting: save, or (at the top of the loop) settle the phases.  *)

\* skip_dead_ends, apply_failure_teardown, then cancel or save.
SettleAndCancel(ph, ex, cancelPC, savePC) ==
  LET cancel == TeardownCancels(skip_dead_ends(ph, ex), ex) \intersect known
  IN  /\ phases' = Settle(ph, ex)
      /\ toCancel' = cancel
      /\ pc' = IF cancel = {} THEN savePC ELSE cancelPC

SubmitDone ==
  /\ pc \in SubmitPCs
  /\ ReadyFrom(cursor) = {}
  /\ cursor' = 1
  /\ \/ /\ pc = "loopSubmit"
        /\ SettleAndCancel(phases, exits, "loopCancel", "loopSave")
     \/ /\ pc # "loopSubmit"
        /\ pc' = IF pc = "bootSubmit" THEN "bootSave" ELSE "evSave2"
        /\ UNCHANGED <<phases, toCancel>>
  /\ UNCHANGED <<exits, known, streamVars, verdict, cm, clusterVars, userVars,
                 crashes, faults>>

(* The spec.suspend=true patch: of `chain cancel` and of a teardown alike. *)
(* On a JobSet that has ended it leaves the terminalState, and so nothing  *)
(* that an event would tell anew.                                          *)
Suspend(s) ==
  /\ IF js[s] = "active" THEN SetJobSet(s, "suspended") ELSE UNCHANGED <<js, log>>
  /\ asked' = asked \union {s}

FirstToCancel(s) ==
  \E i \in 1..NumSteps :
     /\ Dag[i] = s /\ s \in toCancel
     /\ \A j \in 1..(i - 1) : Dag[j] \notin toCancel

AfterPatch(s) ==
  /\ toCancel' = toCancel \ {s}
  /\ pc' = IF toCancel \ {s} # {} THEN pc
           ELSE IF pc = "loopCancel" THEN "loopSave" ELSE "evSave"

cancelUnchanged ==
  UNCHANGED <<memVars, rv, verdict, cm, code, kueue, userVars, crashes>>

CancelPatched(s) ==
  /\ pc \in CancelPCs /\ FirstToCancel(s)
  /\ Suspend(s)
  /\ AfterPatch(s)
  /\ UNCHANGED <<cursor, snapLeft, next, faults>>
  /\ cancelUnchanged

\* An ApiException is logged and the loop goes on to the next step.
CancelPatchFailed(s) ==
  /\ pc \in CancelPCs /\ FirstToCancel(s)
  /\ Fault("patchFail")
  /\ AfterPatch(s)
  /\ UNCHANGED <<cursor, js, log, asked, snapLeft, next>>
  /\ cancelUnchanged

CancelAborted ==
  /\ pc = "evCancel"
  /\ Fault("transport")
  /\ toCancel' = {}
  /\ LoopTop(phases)
  /\ UNCHANGED <<js, log, asked>>
  /\ cancelUnchanged

(* save_phases: best effort, it never raises.                              *)
AfterSave ==
  \/ /\ pc = "bootSave"
     /\ LoopTop(phases)
  \/ /\ pc # "bootSave"
     /\ pc' = CASE pc = "evSave"   -> "evSubmit"
                [] pc = "loopSave" -> IF AllTerminal(phases) THEN "exit" ELSE "open"
                [] pc = "evSave2"  -> IF AllTerminal(phases) THEN "exit" ELSE "watch"
     /\ IF pc' = "exit" THEN snapLeft' = {} /\ next' = 0 ELSE UNCHANGED <<snapLeft, next>>
     /\ UNCHANGED cursor

save_phases ==
  /\ pc \in SavePCs
  /\ \/ cm' = [exists |-> TRUE, phases |-> phases, exits |-> exits] /\ UNCHANGED faults
     \/ Fault("saveFail") /\ UNCHANGED cm
  /\ AfterSave
  /\ UNCHANGED <<memVars, toCancel, rv, verdict, clusterVars, userVars, crashes>>

-----------------------------------------------------------------------------
(* The watch.  Opened at resourceVersion "" it first lists every object    *)
(* with its last change (in no order that follows the changes), then       *)
(* streams what comes after; at a version it streams from there.           *)

OpenWatch ==
  /\ pc = "open"
  /\ pc' = "watch"
  /\ IF rv = 0
       THEN /\ snapLeft' = {Self} \union {s \in Steps : js[s] # "none"}
            /\ next' = Len(log)
       ELSE snapLeft' = {} /\ next' = rv
  /\ UNCHANGED <<cursor, memVars, toCancel, rv, verdict, cm, clusterVars,
                 userVars, crashes, faults>>

\* Entry k of the log is what the stream delivers next.
NextEvent(k) ==
  /\ pc = "watch"
  /\ IF snapLeft # {}
       THEN /\ k \in 1..next
            /\ log[k].obj \in snapLeft
            /\ \A j \in (k + 1)..next : log[j].obj # log[k].obj
       ELSE k = next + 1 /\ k <= Len(log)

\* resource_version is recorded before anything is done with the event.
Receive(k) ==
  /\ rv' = k
  /\ snapLeft' = snapLeft \ {log[k].obj}
  /\ next' = IF snapLeft # {} THEN next ELSE k

\* Mutants: the terminalState stored as it is, a suspended JobSet taken for
\* one that has completed, and a failed one taken for a canceled one.
EventPhase_raw(st) == IF st = "suspended" THEN "CANCELED" ELSE st
EventPhase_stopped(st) == IF st = "Failed" THEN "FAILED" ELSE "SUCCEEDED"
EventPhase_swapped(st) == IF st = "Completed" THEN "SUCCEEDED" ELSE "CANCELED"

EventPhase(st) ==
  CASE st = "Completed" -> "SUCCEEDED"
    [] st = "Failed"    -> "FAILED"
    [] st = "suspended" -> "CANCELED"

\* The event is of a step this process submitted, is news, and is terminal.
Effective(e) ==
  /\ e.obj \in known
  /\ phases[e.obj] \notin TERMINAL_PHASES
  /\ e.st \in {"Completed", "Failed", "suspended"}

IgnoreEvent(k) ==
  /\ NextEvent(k)
  /\ ~Effective(log[k])
  /\ Receive(k)
  /\ UNCHANGED <<pc, cursor, memVars, toCancel, verdict, cm, clusterVars,
                 userVars, crashes, faults>>

\* capture_exit_codes reads the pods' codes, or nothing if it cannot.
capture_exit_codes(e, ok) ==
  IF e.st \in {"Completed", "Failed"} /\ e.obj \in steps_needing_exit_codes
    THEN [exits EXCEPT ![e.obj] = IF ok THEN {code[e.obj]} ELSE {}]
    ELSE exits

HandleEvent(k) ==
  /\ NextEvent(k)
  /\ Effective(log[k])
  /\ Receive(k)
  /\ \/ exits' = capture_exit_codes(log[k], TRUE) /\ UNCHANGED faults
     \/ /\ log[k].obj \in steps_needing_exit_codes
        /\ log[k].st # "suspended"
        /\ Fault("captureFail")
        /\ exits' = capture_exit_codes(log[k], FALSE)
  /\ SettleAndCancel([phases EXCEPT ![log[k].obj] = EventPhase(log[k].st)],
                     exits', "evCancel", "evSave")
  /\ UNCHANGED <<cursor, known, verdict, cm, clusterVars, userVars, crashes>>

reconnectUnchanged ==
  UNCHANGED <<memVars, toCancel, verdict, cm, clusterVars, userVars, crashes>>

\* The server closes the stream after _WATCH_TIMEOUT_SECONDS; what it had to
\* deliver has been delivered.
WatchTimeout ==
  /\ pc = "watch" /\ snapLeft = {} /\ next = Len(log)
  /\ LoopTop(phases)
  /\ UNCHANGED <<rv, faults>>
  /\ reconnectUnchanged

\* The connection breaks, at any point of the stream.
WatchFailed ==
  /\ pc = "watch"
  /\ Fault("watchFail")
  /\ LoopTop(phases)
  /\ UNCHANGED rv
  /\ reconnectUnchanged

\* 410 Gone: start again from a list.
WatchExpired ==
  /\ pc = "open" /\ rv # 0
  /\ Fault("expire")
  /\ rv' = 0
  /\ LoopTop(phases)
  /\ reconnectUnchanged

\* The end of main().
Finish ==
  /\ pc = "exit"
  /\ pc' = "done"
  /\ verdict' = IF WorkflowFailed(phases) THEN "FAILED"
                ELSE IF \E s \in Steps : phases[s] = "CANCELED" THEN "CANCELED"
                ELSE "SUCCEEDED"
  /\ UNCHANGED <<cursor, memVars, toCancel, streamVars, cm, clusterVars,
                 userVars, crashes, faults>>

Crash ==
  /\ pc \notin {"down", "done", "dead"}
  /\ crashes <= MaxRestarts
  /\ crashes' = crashes + 1
  /\ pc' = IF crashes = MaxRestarts THEN "dead" ELSE "down"
  /\ cursor' = 1
  /\ phases' = AllPending /\ exits' = NoExits /\ known' = {} /\ toCancel' = {}
  /\ rv' = 0 /\ snapLeft' = {} /\ next' = 0
  /\ UNCHANGED <<verdict, cm, clusterVars, userVars, faults>>

-----------------------------------------------------------------------------
(* The cluster and the user.                                               *)

controllerVars == <<pc, cursor, memVars, toCancel, streamVars, verdict, cm>>

\* The pods of a JobSet end.  One suspended while its pods were ending may
\* still be marked with their outcome.
JobSetEnds(s) ==
  /\ js[s] = "active" \/ (js[s] = "suspended" /\ ~kueue)
  /\ \/ SetJobSet(s, "Completed") /\ UNCHANGED code
     \/ /\ SetJobSet(s, "Failed")
        /\ IF s \in steps_needing_exit_codes
             THEN \E c \in ExitCodes : code' = [code EXCEPT ![s] = c]
             ELSE UNCHANGED code
  /\ UNCHANGED <<controllerVars, asked, kueue, userVars, crashes, faults>>

\* Kueue unsuspends a JobSet once the queue has room for it.
KueueAdmits(s) ==
  /\ kueue /\ js[s] = "suspended" /\ s \notin asked
  /\ SetJobSet(s, "active")
  /\ UNCHANGED <<controllerVars, code, asked, kueue, userVars, crashes, faults>>

\* K8sWorkflow.cancel: list the worker JobSets, then patch each.
CancelLists ==
  /\ cancels < MaxCancels
  /\ cancels' = cancels + 1
  /\ userTargets' = {s \in Steps : js[s] # "none"}
  /\ UNCHANGED <<controllerVars, clusterVars, crashes, faults>>

CancelSuspends(s) ==
  /\ s \in userTargets
  /\ userTargets' = userTargets \ {s}
  /\ \/ Suspend(s) /\ UNCHANGED faults
     \/ Fault("patchFail") /\ UNCHANGED <<js, log, asked>>
  /\ UNCHANGED <<controllerVars, code, kueue, cancels, crashes>>

\* Everything the controller does when no fault is in its way.
ControllerStep ==
  \/ Boot
  \/ \E i \in 1..NumSteps : CreateAccepted(i) \/ CreateConflict(i)
  \/ SubmitDone
  \/ \E s \in Steps : CancelPatched(s)
  \/ save_phases
  \/ OpenWatch
  \/ \E k \in 1..Len(log) : IgnoreEvent(k) \/ HandleEvent(k)
  \/ WatchTimeout
  \/ Finish

ControllerFault ==
  \/ \E i \in 1..NumSteps : \/ CreateRejected(i) \/ CreateReplyLost(i)
                            \/ CreateDenied(i)   \/ CreateAborted(i)
  \/ \E s \in Steps : CancelPatchFailed(s)
  \/ CancelAborted
  \/ WatchFailed
  \/ WatchExpired
  \/ Crash

ClusterStep == \E s \in Steps : JobSetEnds(s) \/ KueueAdmits(s)

UserStep == CancelLists \/ \E s \in Steps : CancelSuspends(s)

Next == ControllerStep \/ ControllerFault \/ ClusterStep \/ UserStep

Spec == Init /\ [][Next]_vars

(***************************************************************************)
(* The controller's one thread is never starved and the API server answers *)
(* it; pods end, except those of the Endless steps; a queue admits what    *)
(* waits in it.                                                            *)
(***************************************************************************)
RunningEnds(s) == js[s] = "active" /\ JobSetEnds(s)

FairSpec ==
  /\ Spec
  /\ WF_vars(ControllerStep)
  /\ \A s \in Steps \ Endless : WF_vars(RunningEnds(s))
  /\ \A s \in Steps : WF_vars(KueueAdmits(s))

-----------------------------------------------------------------------------
(***************************************************************************)
(* The refinement mapping: a step's JobSet is its run, and what is learned *)
(* is the phases the controller process holds in memory.                   *)
(***************************************************************************)
RunOf(st) == CASE st = "none"      -> "waiting"
               [] st = "active"    -> "running"
               [] st = "suspended" -> "held"
               [] st = "Completed" -> "succeeded"
               [] st = "Failed"    -> "failed"

Needed == [s \in Steps |->
             {c.step : c \in {d \in Deps[s] : d.when = "ON_SUCCESS"}}]

runs == [s \in Steps |-> RunOf(js[s])]
learned == {s \in Steps : phases[s] = "SUCCEEDED"}

Promise == INSTANCE StepRuns WITH Needs <- Needed, run <- runs

(***************************************************************************)
(* The controller, with every crash, lost reply, stale or repeated event   *)
(* and failed read or write, keeps the promise of StepRuns: no step runs   *)
(* twice, none starts before the successes it needs are known (from events *)
(* or from the ConfigMap), and what it knows is true.                      *)
(***************************************************************************)
KeepsPromise == Promise!Spec

-----------------------------------------------------------------------------
TypeOK ==
  /\ pc \in PCs /\ cursor \in 1..(NumSteps + 1)
  /\ phases \in PhaseMap /\ exits \in ExitMap
  /\ known \in SUBSET Steps /\ toCancel \in SUBSET Steps
  /\ rv \in Nat /\ next \in Nat /\ snapLeft \in SUBSET (Steps \union {Self})
  /\ verdict \in {"none", "FAILED", "CANCELED", "SUCCEEDED"}
  /\ cm \in [exists : BOOLEAN, phases : PhaseMap, exits : ExitMap]
  /\ js \in [Steps -> JobSetStates]
  /\ code \in [Steps -> ExitCodes \union {0}]
  /\ log \in Seq(Events)
  /\ kueue \in BOOLEAN /\ asked \in SUBSET Steps /\ userTargets \in SUBSET Steps
  /\ cancels \in Nat /\ crashes \in Nat /\ faults \in Nat

(***************************************************************************)
(* A step's JobSet is created only after the JobSets of all steps it needs *)
(* the success of have completed: across crashes, stale events, lost       *)
(* ConfigMap writes and failed reads (submit_ready_steps, load_phases).    *)
(***************************************************************************)
DependencyOrder ==
  \A s \in Steps : js[s] # "none" =>
    \A c \in Deps[s] : c.when = "ON_SUCCESS" => js[c.step] = "Completed"

(***************************************************************************)
(* What the controller believes or has persisted as SUCCEEDED did          *)
(* complete, however late or repeated the event was.                       *)
(***************************************************************************)
SucceededIsReal ==
  \A s \in Steps :
    "SUCCEEDED" \in {phases[s], cm.phases[s]} => js[s] = "Completed"

(***************************************************************************)
(* SKIPPED "never ran" (phases.py:11): neither in memory nor in the        *)
(* ConfigMap is a step SKIPPED that has a JobSet.                          *)
(***************************************************************************)
SkippedNeverRan ==
  \A s \in Steps : "SKIPPED" \in {phases[s], cm.phases[s]} => js[s] = "none"

(***************************************************************************)
(* When main() returns, no worker JobSet it leaves behind still runs.      *)
(***************************************************************************)
NothingLeftRunning ==
  pc \in {"exit", "done"} => \A s \in Steps : js[s] # "active"

(***************************************************************************)
(* What main() announces is what the JobSets did: "succeeded" only if no   *)
(* required JobSet failed, "canceled" only if the user asked for it.       *)
(***************************************************************************)
VerdictIsReal ==
  /\ verdict = "SUCCEEDED" =>
       \A s \in Steps \ Optional : js[s] \in {"Completed", "none"}
  /\ verdict = "FAILED" => \E s \in Steps \ Optional : js[s] = "Failed"
  /\ verdict = "CANCELED" => cancels > 0

(***************************************************************************)
(* A step turns CANCELED only when someone has asked for its JobSet to be  *)
(* suspended: the user or a failure teardown (watch.py:237).               *)
(***************************************************************************)
CanceledOnlyIfAsked ==
  \A s \in Steps : "CANCELED" \in {phases[s], cm.phases[s]} => s \in asked

(***************************************************************************)
(* Once the controller knows of a required failure it starts no step but   *)
(* those that react to it, not even a restarted controller that submits    *)
(* before its first teardown.                                              *)
(***************************************************************************)
NoFreshStartAfterFailure ==
  [][\A s \in Steps :
       /\ js[s] = "none" /\ js'[s] # "none"
       /\ WorkflowFailed(phases)
       => s \in reactive_preserve_set(phases, exits)]_vars

(***************************************************************************)
(* An outcome that reached the ConfigMap stays there: no later save, by    *)
(* this process or by a restarted one, takes it back.                      *)
(***************************************************************************)
OutcomesAreDurable ==
  [][\A s \in Steps :
       cm.phases[s] \in TERMINAL_PHASES => cm'.phases[s] = cm.phases[s]]_vars

(***************************************************************************)
(* "The watch will deliver its terminal state event and we'll advance the  *)
(* DAG" (scheduling.py:54): the controller comes to an end, or it waits    *)
(* only for pods that never end.                                           *)
(***************************************************************************)
Settled(s) ==
  phases[s] \in TERMINAL_PHASES \/ (s \in Endless /\ js[s] = "active")

Terminates == <>[](pc \in {"done", "dead"} \/ \A s \in Steps : Settled(s))

(***************************************************************************)
(* A failed required step stops every running step that does not itself    *)
(* react to failures, even one whose pods would run for ever.              *)
(***************************************************************************)
ReactsToFailure(t) == \E c \in Deps[t] : c.when \in {"ON_FAILURE", "ALWAYS"}

FailureStopsTheRest ==
  \A s \in Steps \ Optional, t \in Steps :
    phases[s] = "FAILED" ~> \/ js[t] # "active"
                            \/ ReactsToFailure(t)
                            \/ pc = "dead"
=============================================================================
