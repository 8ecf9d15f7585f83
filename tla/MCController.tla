---------------------------- MODULE MCController ----------------------------
(***************************************************************************)
(* The workflows the controller is checked on.                             *)
(***************************************************************************)
EXTENDS StatusReport

OnExit(d, codes, op) ==
  [step |-> d, when |-> "ON_FAILURE", gated |-> TRUE, codes |-> codes, op |-> op]

\* Two roots and a step that needs the success of one and the end of the other.
ForkDag == <<"a", "d", "b">>
ForkDeps == [s \in {"a", "d", "b"} |->
  IF s = "b" THEN {normalize_dep("a", "ON_SUCCESS"), normalize_dep("d", "ALWAYS")}
             ELSE {}]

\* A chain beside a root that has nothing to do with it.
ChainDag == <<"a", "d", "b">>
ChainDeps == [s \in {"a", "d", "b"} |->
  IF s = "b" THEN {normalize_dep("a", "ON_SUCCESS")} ELSE {}]

\* Two roots and a reaction to the failure of one with exit code 1.
ReactDag == <<"a", "d", "r">>
ReactDeps == [s \in {"a", "d", "r"} |->
  IF s = "r" THEN {OnExit("a", {1}, "IN")} ELSE {}]

\* A chain and a reaction to the failure of its first step, beside a root: a
\* failure finds steps to skip, to cancel and to preserve.
MixedDag == <<"a", "d", "b", "r">>
MixedDeps == [s \in {"a", "d", "b", "r"} |->
  IF s = "r" THEN {OnExit("a", {1}, "IN")} ELSE ChainDeps[s]]
=============================================================================
