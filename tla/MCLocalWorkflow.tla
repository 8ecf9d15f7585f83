--------------------------- MODULE MCLocalWorkflow ---------------------------
(***************************************************************************)
(* Every workflow of three steps that WorkflowConfig accepts and that has  *)
(* no cycle, with at most one condition between two steps.                 *)
(***************************************************************************)
EXTENDS LocalWorkflow

Three == <<"a", "b", "c">>

Plain(w) == [when |-> w, gated |-> FALSE, codes |-> {}, op |-> "IN"]
OnExit(op) == [when |-> "ON_FAILURE", gated |-> TRUE, codes |-> {1}, op |-> op]
None == [when |-> "none", gated |-> FALSE, codes |-> {}, op |-> "IN"]
Conditions == {Plain("ON_SUCCESS"), Plain("ON_FAILURE"), Plain("ALWAYS"),
               OnExit("IN"), OnExit("NOT_IN")}

On(d, k) == [step |-> d, when |-> k.when, gated |-> k.gated, codes |-> k.codes, op |-> k.op]

\* The edges follow one of the orders of the three steps.
Orders == {o \in [1..3 -> {"a", "b", "c"}] : Cardinality({o[i] : i \in 1..3}) = 3}
DepsOf(o, k12, k13, k23) ==
  [s \in {"a", "b", "c"} |->
     CASE s = o[1] -> {}
       [] s = o[2] -> {On(o[1], k12)} \ {On(o[1], None)}
       [] s = o[3] -> {On(o[1], k13), On(o[2], k23)} \ {On(o[1], None), On(o[2], None)}]

\* check_depends_on: no step depends on one that is reactive only.
ReactiveOnly(d, s) == d[s] # {} /\ \A c \in d[s] : c.when # "ON_SUCCESS"
check_depends_on(d) ==
  \A s \in {"a", "b", "c"} : \A c \in d[s] : ~ReactiveOnly(d, c.step)

AllDeps == {DepsOf(o, k12, k13, k23) : o \in Orders, k12, k13, k23 \in Conditions \union {None}}

ThreeStepWorkflows ==
  [deps : {d \in AllDeps : check_depends_on(d)}, optional : SUBSET {"a", "b", "c"}]

\* What LocalForgetsNothing, in LocalWorkflow_proofs, asks of them.
ASSUME NoCycles == \A w \in Workflows : Acyclic(w)
=============================================================================
