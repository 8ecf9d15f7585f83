---------------------------- MODULE LocalWorkflow ----------------------------
(***************************************************************************)
(* The local backend (local_workflow.py, dag.py): one process that sorts   *)
(* the steps of a workflow and runs their scripts one after the other.     *)
(* It has rules of its own for what runs and what is skipped; the          *)
(* controller's are DagRules, taken here under the name Rules.             *)
(***************************************************************************)
EXTENDS Integers, Sequences, FiniteSets

CONSTANTS
  Steps, NumSteps, Dag,  \* the steps of the workflow file, in its order
  ExitCodes,             \* the exit codes, other than 0, a script may end with
  HasBefore,             \* the steps with a before_script
  Workflows              \* the depends_on and `optional` fields considered

ASSUME LocalAssumption ==
  /\ IsFiniteSet(Steps) /\ NumSteps \in Nat /\ Dag \in [1..NumSteps -> Steps]
  /\ \A s \in Steps : \E i \in 1..NumSteps : Dag[i] = s
  /\ \A i, j \in 1..NumSteps : Dag[i] = Dag[j] => i = j
  /\ HasBefore \subseteq Steps
  /\ \A w \in Workflows :
       /\ w.optional \subseteq Steps /\ DOMAIN w.deps = Steps
       /\ \A s \in Steps : IsFiniteSet(w.deps[s]) /\ \A c \in w.deps[s] : c.step \in Steps

VARIABLES
  wf,         \* the workflow that is run
  stage,      \* what launch_local_workflow is doing
  in_degree,  \* topological_sort: conditions on steps not yet in the result,
  queue,      \* the steps with none left,
  ordered,    \* and the result so far
  pos,        \* the position in ordered_steps
  step_phase, \* the steps decided so far, with their phase
  exit_codes, \* the exit code of each step that ran
  rc,         \* main_rc of the step that runs
  teardown,
  succeeded   \* workflow_succeeded

sortVars == <<in_degree, queue, ordered>>
vars == <<wf, stage, sortVars, pos, step_phase, exit_codes, rc, teardown, succeeded>>

Stages == {"sort", "step", "before", "script", "after", "done", "raised"}
Codes == ExitCodes \union {0}
Undecided == "PENDING"

\* What the controller would make of the phases and exit codes.
Rules == INSTANCE DagRules WITH Deps <- wf.deps, Optional <- wf.optional

Deps(s) == wf.deps[s]

\* The steps of S in the order of the file.
Place(s) == CHOOSE i \in 1..NumSteps : Dag[i] = s
InOrder(S) ==
  CHOOSE q \in [1..Cardinality(S) -> S] :
    \A i, j \in 1..Cardinality(S) : i < j => Place(q[i]) < Place(q[j])

Init ==
  /\ wf \in Workflows
  /\ stage = "sort"
  /\ in_degree = [s \in Steps |-> Cardinality(Deps(s))]
  /\ queue = InOrder({s \in Steps : Deps(s) = {}})
  /\ ordered = <<>> /\ pos = 1
  /\ step_phase = [s \in Steps |-> Undecided]
  /\ exit_codes = [s \in Steps |-> {}]
  /\ rc = 0
  /\ teardown = FALSE /\ succeeded = TRUE

-----------------------------------------------------------------------------
(* topological_sort: Kahn's algorithm, ties in the order of the file.      *)

Edges(s, d) == Cardinality({c \in Deps(s) : c.step = d})

\* Mutant: a step queued with its first dependency.
SortOne_early ==
  /\ stage = "sort" /\ queue # <<>>
  /\ LET d == Head(queue)
         freed == {s \in Steps : Edges(s, d) > 0 /\ in_degree[s] = Cardinality(Deps(s))}
     IN  /\ in_degree' = [s \in Steps |-> in_degree[s] - Edges(s, d)]
         /\ queue' = Tail(queue) \o InOrder(freed)
         /\ ordered' = Append(ordered, d)
  /\ UNCHANGED <<wf, stage, pos, step_phase, exit_codes, rc, teardown, succeeded>>

SortOne ==
  /\ stage = "sort" /\ queue # <<>>
  /\ LET d == Head(queue)
         freed == {s \in Steps : Edges(s, d) > 0 /\ in_degree[s] = Edges(s, d)}
     IN  /\ in_degree' = [s \in Steps |-> in_degree[s] - Edges(s, d)]
         /\ queue' = Tail(queue) \o InOrder(freed)
         /\ ordered' = Append(ordered, d)
  /\ UNCHANGED <<wf, stage, pos, step_phase, exit_codes, rc, teardown, succeeded>>

Sorted ==
  /\ stage = "sort" /\ queue = <<>>
  /\ stage' = "step"
  /\ UNCHANGED <<wf, sortVars, pos, step_phase, exit_codes, rc, teardown, succeeded>>

-----------------------------------------------------------------------------
(* Which steps run.                                                        *)

\* _dep_satisfied, for a dependency whose phase is decided.
dep_satisfied(c) ==
  \/ c.when = "ALWAYS"
  \/ c.when = "ON_SUCCESS" /\ step_phase[c.step] = "SUCCEEDED"
  \/ /\ c.when = "ON_FAILURE"
     /\ step_phase[c.step] \in {"FAILED", "SKIPPED"}
     /\ c.gated => (c.op = "IN" <=> \E x \in exit_codes[c.step] : x \in c.codes)

\* Mutant: a reaction to any end of another step.
Reactive_skipped(s) ==
  \E c \in Deps(s) : c.when \in {"ON_FAILURE", "ALWAYS"} /\ dep_satisfied(c)

Reactive(s) ==
  \E c \in Deps(s) :
     /\ c.when \in {"ON_FAILURE", "ALWAYS"}
     /\ step_phase[c.step] = "FAILED"
     /\ dep_satisfied(c)

Runs(s) == IF teardown THEN Reactive(s) ELSE \A c \in Deps(s) : dep_satisfied(c)

Current == ordered[pos]
Considering == stage = "step" /\ pos <= Len(ordered)

SkipStep ==
  /\ Considering /\ ~Runs(Current)
  /\ step_phase' = [step_phase EXCEPT ![Current] = "SKIPPED"]
  /\ pos' = pos + 1
  /\ UNCHANGED <<wf, stage, sortVars, exit_codes, rc, teardown, succeeded>>

StartStep ==
  /\ Considering /\ Runs(Current)
  /\ stage' = IF Current \in HasBefore THEN "before" ELSE "script"
  /\ UNCHANGED <<wf, sortVars, pos, step_phase, exit_codes, rc, teardown, succeeded>>

-----------------------------------------------------------------------------
(* _run_step: a before_script that fails keeps the script from running,    *)
(* which counts as exit code 1; the after_script's own code is ignored.    *)

scriptUnchanged == UNCHANGED <<wf, sortVars, pos, step_phase, exit_codes, teardown, succeeded>>

BeforeScript(x) ==
  /\ stage = "before"
  /\ stage' = IF x = 0 THEN "script" ELSE "after"
  /\ rc' = 1
  /\ scriptUnchanged

Script(x) ==
  /\ stage = "script"
  /\ stage' = "after"
  /\ rc' = x
  /\ scriptUnchanged

\* Mutant: an optional step fails the workflow too.
StepDone_any ==
  /\ stage = "after"
  /\ stage' = "step" /\ pos' = pos + 1
  /\ exit_codes' = [exit_codes EXCEPT ![Current] = {rc}]
  /\ step_phase' = [step_phase EXCEPT ![Current] = IF rc = 0 THEN "SUCCEEDED" ELSE "FAILED"]
  /\ teardown' = (teardown \/ rc # 0)
  /\ succeeded' = (succeeded /\ rc = 0)
  /\ UNCHANGED <<wf, sortVars, rc>>

\* After the after_script, if there is one: the outcome is recorded.
StepDone ==
  /\ stage = "after"
  /\ stage' = "step" /\ pos' = pos + 1
  /\ exit_codes' = [exit_codes EXCEPT ![Current] = {rc}]
  /\ step_phase' = [step_phase EXCEPT ![Current] = IF rc = 0 THEN "SUCCEEDED" ELSE "FAILED"]
  /\ LET fails == rc # 0 /\ Current \notin wf.optional
     IN  teardown' = (teardown \/ fails) /\ succeeded' = (succeeded /\ ~fails)
  /\ UNCHANGED <<wf, sortVars, rc>>

\* A shell that cannot be started, or an interrupt: launch raises.
Raises ==
  /\ stage \in {"before", "script", "after"}
  /\ stage' = "raised"
  /\ UNCHANGED <<wf, sortVars, pos, step_phase, exit_codes, rc, teardown, succeeded>>

Return ==
  /\ stage = "step" /\ pos > Len(ordered)
  /\ stage' = "done"
  /\ UNCHANGED <<wf, sortVars, pos, step_phase, exit_codes, rc, teardown, succeeded>>

Next ==
  \/ SortOne \/ Sorted
  \/ SkipStep \/ StartStep
  \/ \E x \in Codes : BeforeScript(x) \/ Script(x)
  \/ StepDone \/ Raises \/ Return

Spec == Init /\ [][Next]_vars

-----------------------------------------------------------------------------
TypeOK ==
  /\ DOMAIN wf.deps = Steps /\ wf.optional \subseteq Steps /\ stage \in Stages
  /\ in_degree \in [Steps -> Nat] /\ queue \in Seq(Steps) /\ ordered \in Seq(Steps)
  /\ pos \in 1..(Len(ordered) + 1)
  /\ step_phase \in [Steps -> {Undecided, "SUCCEEDED", "FAILED", "SKIPPED"}]
  /\ exit_codes \in [Steps -> {{}} \union {{x} : x \in Codes \union {1}}]
  /\ rc \in Codes \union {1} /\ {teardown, succeeded} \subseteq BOOLEAN

DependenciesDecided ==
  Considering => \A c \in Deps(Current) : step_phase[c.step] # Undecided

\* The steps can be given heights so that each stands above what it depends on.
Acyclic(w) ==
  \E height \in [Steps -> 1..NumSteps] :
    \A s \in Steps : \A c \in w.deps[s] : height[c.step] < height[s]

(***************************************************************************)
(* When a step is considered, every step it depends on has been decided    *)
(* (topological_sort); and a local run that returns has decided every step *)
(* of the workflow, and succeeded unless a required step failed, as the    *)
(* controller would say.                                                   *)
(***************************************************************************)
NothingForgotten ==
  /\ DependenciesDecided
  /\ stage = "done" =>
       /\ \A s \in Steps : step_phase[s] # Undecided
       /\ succeeded <=> ~Rules!WorkflowFailed(step_phase)

(***************************************************************************)
(* What the local backend does of a step the controller may do, too: it    *)
(* skips it only if the controller would skip it, and runs it only if the  *)
(* controller would submit it or, in a teardown, would not cancel it.  The *)
(* last is less than submitting it: the controller goes on waiting for the *)
(* step's other conditions.                                                *)
(***************************************************************************)
FollowsTheController ==
  /\ Considering /\ Runs(Current) =>
       IF Rules!WorkflowFailed(step_phase)
         THEN Current \in Rules!reactive_preserve_set(step_phase, exit_codes)
         ELSE Rules!Ready(Current, step_phase, exit_codes)
  /\ Considering /\ ~Runs(Current) =>
       Rules!Settle(step_phase, exit_codes)[Current] = "SKIPPED"
=============================================================================
