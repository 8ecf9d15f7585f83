------------------------------ MODULE StepRuns ------------------------------
(***************************************************************************)
(* What the controller promises of the steps it runs, with no mention of   *)
(* API calls, events, crashes or saved phases: each step runs at most      *)
(* once, it starts only when the controller has learned that every step    *)
(* whose success it needs has succeeded, nothing false is ever learned,    *)
(* and an outcome is final.  What was learned may be forgotten (a crash)   *)
(* and learned again.                                                      *)
(***************************************************************************)
CONSTANTS Steps, Needs   \* Needs[s]: the steps whose success s needs

VARIABLES run, learned   \* learned: the steps known to have succeeded

Runs == {"waiting", "held", "running", "succeeded", "failed"}
Succeeded == {s \in Steps : run[s] = "succeeded"}

Init == run = [s \in Steps |-> "waiting"] /\ learned = {}

Change(s, from, to) ==
  /\ run[s] \in from
  /\ \E r \in to : run' = [run EXCEPT ![s] = r]
  /\ learned' = learned

\* A step whose JobSet is suspended when it is created starts out held.
Start(s) ==
  /\ Needs[s] \subseteq learned
  /\ Change(s, {"waiting"}, {"held", "running"})

Hold(s) == Change(s, {"running"}, {"held"})
Release(s) == Change(s, {"held"}, {"running"})
End(s) == Change(s, {"held", "running"}, {"succeeded", "failed"})

Learn == learned' \in SUBSET Succeeded /\ run' = run

Next ==
  \/ \E s \in Steps : Start(s) \/ Hold(s) \/ Release(s) \/ End(s)
  \/ Learn

Spec == Init /\ [][Next]_<<run, learned>>
=============================================================================
