------------------------------ MODULE DagRules ------------------------------
(***************************************************************************)
(* The rules by which the in-cluster controller moves the steps of one     *)
(* workflow through their phases: which step may be submitted, which can   *)
(* never run, and what a failed required step does to the others.          *)
(* These are pure functions in phases.py; Controller.tla applies them in   *)
(* the order watch.py does.                                                *)
(***************************************************************************)
EXTENDS Integers, FiniteSets

CONSTANTS
  Steps,      \* the steps of dag.json
  NumSteps,   \* how many there are
  Dag,        \* Dag[i] is the i-th step, in the order of dag.json
  Deps,       \* Deps[s] is the set of conditions of s's depends_on
  Optional,   \* the steps marked `optional`
  ExitCodes   \* the exit codes the conditions and the pods can name

When == {"ON_SUCCESS", "ON_FAILURE", "ALWAYS"}

(***************************************************************************)
(* A depends_on entry after normalize_dep.  `gated` says whether           *)
(* on_exit_codes is given; `codes` is that list as a set.                  *)
(***************************************************************************)
Condition == [step : Steps, when : When, gated : BOOLEAN,
              codes : SUBSET ExitCodes, op : {"IN", "NOT_IN"}]

ASSUME DagAssumption ==
  /\ IsFiniteSet(Steps)
  /\ NumSteps \in Nat \ {0}
  /\ Dag \in [1..NumSteps -> Steps]
  /\ \A s \in Steps : \E i \in 1..NumSteps : Dag[i] = s
  /\ \A i, j \in 1..NumSteps : Dag[i] = Dag[j] => i = j
  /\ Deps \in [Steps -> SUBSET Condition]
  /\ Optional \subseteq Steps
  /\ ExitCodes \subseteq Nat

\* The conditions a workflow file writes as a bare step name, or with `when`.
normalize_dep(d, w) ==
  [step |-> d, when |-> w, gated |-> FALSE, codes |-> {}, op |-> "IN"]

TERMINAL_PHASES == {"SUCCEEDED", "FAILED", "CANCELED", "SKIPPED"}
NOT_SUCCEEDED_PHASES == {"FAILED", "CANCELED", "SKIPPED"}
Phases == {"PENDING", "RUNNING"} \union TERMINAL_PHASES
PhaseMap == [Steps -> Phases]
ExitMap == [Steps -> SUBSET (ExitCodes \union {0})]

Pending(ph) == {s \in Steps : ph[s] = "PENDING"}
AllTerminal(ph) == \A s \in Steps : ph[s] \in TERMINAL_PHASES

\* Mutant: a success edge is content with any end of the dependency.
dep_satisfied_any(ph, c, ex) == ph[c.step] \in TERMINAL_PHASES

dep_satisfied(ph, c, ex) ==
  \/ c.when = "ALWAYS"     /\ ph[c.step] \in TERMINAL_PHASES
  \/ c.when = "ON_SUCCESS" /\ ph[c.step] = "SUCCEEDED"
  \/ /\ c.when = "ON_FAILURE"
     /\ ph[c.step] \in NOT_SUCCEEDED_PHASES
     /\ c.gated => (c.op = "IN" <=> ex[c.step] \intersect c.codes # {})

\* Mutant: one satisfied condition is enough.
Ready_any(s, ph, ex) ==
  /\ ph[s] = "PENDING"
  /\ Deps[s] = {} \/ \E c \in Deps[s] : dep_satisfied(ph, c, ex)

\* The test submit_ready_steps makes before it creates a JobSet.
Ready(s, ph, ex) ==
  /\ ph[s] = "PENDING"
  /\ \A c \in Deps[s] : dep_satisfied(ph, c, ex)

(***************************************************************************)
(* A PENDING step whose conditions can never all hold: a required success  *)
(* that did not come, or every dependency settled and one not satisfied.   *)
(***************************************************************************)
DeadEnd(s, ph, ex) ==
  \/ \E c \in Deps[s] :
        c.when = "ON_SUCCESS" /\ ph[c.step] \in NOT_SUCCEEDED_PHASES
  \/ /\ \A c \in Deps[s] : ph[c.step] \in TERMINAL_PHASES
     /\ \E c \in Deps[s] : ~dep_satisfied(ph, c, ex)

MarkSkipped(ph, D) == [s \in Steps |-> IF s \in D THEN "SKIPPED" ELSE ph[s]]

(***************************************************************************)
(* skip_dead_ends repeats its pass until nothing changes.  Skipping a step *)
(* never rescues another, so the steps it ends up skipping are the least   *)
(* set that contains every dead end it itself creates.                     *)
(***************************************************************************)
DeadEndClosed(D, ph, ex) ==
  \A s \in Pending(ph) \ D : ~DeadEnd(s, MarkSkipped(ph, D), ex)

DeadEnds(ph, ex) ==
  {s \in Pending(ph) :
     \A D \in SUBSET Pending(ph) : DeadEndClosed(D, ph, ex) => s \in D}

\* Mutant: a step that can never run stays PENDING.
skip_dead_ends_none(ph, ex) == ph

skip_dead_ends(ph, ex) == MarkSkipped(ph, DeadEnds(ph, ex))

reactive_preserve_set(ph, ex) ==
  {s \in Steps : \E c \in Deps[s] :
      /\ c.when \in {"ON_FAILURE", "ALWAYS"}
      /\ ph[c.step] = "FAILED"
      /\ dep_satisfied(ph, c, ex)}

\* Mutant: an optional step fails the workflow too.
WorkflowFailed_any(ph) == \E s \in Steps : ph[s] = "FAILED"

\* A required step has failed: what apply_failure_teardown acts on, and what
\* main() reports as a failed workflow.
WorkflowFailed(ph) == \E s \in Steps \ Optional : ph[s] = "FAILED"

\* Mutants: a teardown that skips what runs as well, one that takes the cancel
\* it asks for as done, and one that leaves the other steps to be submitted.
apply_failure_teardown_running(ph, ex) ==
  IF WorkflowFailed(ph)
    THEN MarkSkipped(ph, {s \in Steps : ph[s] \notin TERMINAL_PHASES}
                         \ reactive_preserve_set(ph, ex))
    ELSE ph

apply_failure_teardown_done(ph, ex) ==
  [s \in Steps |->
     IF ~WorkflowFailed(ph) \/ s \in reactive_preserve_set(ph, ex) THEN ph[s]
     ELSE IF ph[s] = "PENDING" THEN "SKIPPED"
     ELSE IF ph[s] = "RUNNING" THEN "CANCELED" ELSE ph[s]]

apply_failure_teardown_keep(ph, ex) == ph

\* The two results of apply_failure_teardown: the phases it leaves, and the
\* running steps it asks its caller to cancel.
apply_failure_teardown(ph, ex) ==
  IF WorkflowFailed(ph)
    THEN MarkSkipped(ph, Pending(ph) \ reactive_preserve_set(ph, ex))
    ELSE ph

\* Mutant: a teardown that lets the running steps run.
TeardownCancels_none(ph, ex) == {}

TeardownCancels(ph, ex) ==
  IF WorkflowFailed(ph)
    THEN {s \in Steps : ph[s] = "RUNNING"} \ reactive_preserve_set(ph, ex)
    ELSE {}

\* Both settling calls, as watch.py makes them one after the other.
Settle(ph, ex) == apply_failure_teardown(skip_dead_ends(ph, ex), ex)

steps_needing_exit_codes ==
  {s \in Steps : \E t \in Steps : \E c \in Deps[t] : c.gated /\ c.step = s}
=============================================================================
