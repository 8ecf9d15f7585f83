-------------------------------- MODULE PodLife --------------------------------
(***************************************************************************)
(* What the JobSet of a step may count on from its pods, one for each      *)
(* role: a pod's main container ends once, with an exit code that is 0     *)
(* only if the before and main scripts ended with 0; the pod is Succeeded  *)
(* only if main ended with 0; and what it came to stays.  PodRun           *)
(* implements it, container by container.                                  *)
(***************************************************************************)
EXTENDS Integers, FiniteSets

CONSTANTS
  Pods,
  Codes   \* how a main container may end

ASSUME CodesAssumption == 0 \in Codes /\ Codes \subseteq 0..255

VARIABLE life

\* attempt: of the JobSet, 0 for a pod that does not exist; worked: the
\* scripts ended with 0.
Fresh(n) ==
  [attempt |-> n, phase |-> "Pending", ended |-> FALSE, code |-> 0,
   worked |-> FALSE, doomed |-> FALSE]

Exists(p) == life[p].attempt # 0
Final(p) == life[p].phase \in {"Succeeded", "Failed"}
Become(p, r) == life' = [life EXCEPT ![p] = r]

LifeInit == life = [p \in Pods |-> Fresh(0)]

Create(p, n) == ~Exists(p) /\ Become(p, Fresh(n))

Start(p) ==
  /\ Exists(p) /\ life[p].phase = "Pending"
  /\ Become(p, [life[p] EXCEPT !.phase = "Running"])

\* Killed with its pod, or by itself, main may end in whatever way.
MainEnds(p, code, worked) ==
  /\ Exists(p) /\ ~Final(p) /\ ~life[p].ended
  /\ code = 0 => worked
  /\ Become(p, [life[p] EXCEPT !.ended = TRUE, !.code = code, !.worked = worked])

Succeed(p) ==
  /\ Exists(p) /\ ~Final(p) /\ life[p].ended /\ life[p].code = 0
  /\ Become(p, [life[p] EXCEPT !.phase = "Succeeded"])

Fail(p) ==
  /\ Exists(p) /\ ~Final(p)
  /\ Become(p, [life[p] EXCEPT !.phase = "Failed"])

Delete(p) ==
  /\ Exists(p) /\ ~life[p].doomed
  /\ Become(p, [life[p] EXCEPT !.doomed = TRUE])

Remove(p) ==
  /\ Exists(p) /\ life[p].doomed /\ Final(p)
  /\ Become(p, [life[p] EXCEPT !.attempt = 0])

PodStep(p) ==
  \/ Start(p) \/ Succeed(p) \/ Fail(p)
  \/ \E code \in Codes, worked \in BOOLEAN : MainEnds(p, code, worked)

LifeNext == \E p \in Pods : PodStep(p) \/ Create(p, 1) \/ Delete(p) \/ Remove(p)

LifeSpec == LifeInit /\ [][LifeNext]_life
=============================================================================
