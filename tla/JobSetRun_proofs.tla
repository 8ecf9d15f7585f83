---------------------------- MODULE JobSetRun_proofs ----------------------------
(***************************************************************************)
(* A step shown as SUCCEEDED is one whose scripts did what its success     *)
(* policy asks, and none is tried again after a fatal exit code: proved    *)
(* for any roles, policies, exit codes and attempts.                       *)
(***************************************************************************)
EXTENDS JobSetRun, WellFoundedInduction, TLAPS

Lives ==
  [attempt : Nat, phase : {"Pending", "Running", "Succeeded", "Failed"}, ended : BOOLEAN,
   code : Codes, worked : BOOLEAN, doomed : BOOLEAN]

JobSets == [attempt : Nat, restarts : Nat, suspended : BOOLEAN,
            terminal : {"", "Failed", "Completed"}]

Typed == life \in [Pods -> Lives] /\ step \in Configurations /\ jobset \in JobSets

\* What a pod's success stands for.
SuccessIsEarned ==
  \A p \in Pods :
    /\ life[p].phase = "Succeeded" => life[p].ended /\ life[p].code = 0
    /\ life[p].ended /\ life[p].code = 0 => life[p].worked

StepInv ==
  /\ Typed /\ SuccessIsEarned
  /\ jobset.terminal = "Completed" => ScriptsMeetPolicy

-----------------------------------------------------------------------------
LEMMA FreshOne ==
  ASSUME NEW n \in Nat
  PROVE  /\ Fresh(n) \in Lives
         /\ Fresh(n).phase = "Pending" /\ ~Fresh(n).ended
  BY CodesAssumption DEF Fresh, Lives, CodesAssumption

LEMMA StepInit == Init => StepInv
<1> SUFFICES ASSUME Init PROVE StepInv
  OBVIOUS
<1>1. life \in [Pods -> Lives] /\ \A p \in Pods : life[p] = Fresh(0)
  BY FreshOne DEF Init, LifeInit
<1>2. jobset \in JobSets /\ jobset.terminal = ""
  BY DEF Init, JobSets
<1>3. SuccessIsEarned
  BY <1>1, FreshOne DEF SuccessIsEarned
<1> QED BY <1>1, <1>2, <1>3 DEF Init, StepInv, Typed

Earned(r) ==
  /\ r.phase = "Succeeded" => r.ended /\ r.code = 0
  /\ r.ended /\ r.code = 0 => r.worked

LEMMA PodStepKeeps ==
  ASSUME Typed, SuccessIsEarned, PodMoves
  PROVE  life' \in [Pods -> Lives] /\ SuccessIsEarned'
<1>1. PICK p \in Pods : CreatePod(p) \/ DeletePod(p) \/ EvictPod(p) \/ PodStep(p)
  BY DEF PodMoves
<1>2. life[p] \in Lives /\ Earned(life[p])
  BY DEF Typed, SuccessIsEarned, Earned
<1>3. SUFFICES ASSUME NEW r \in Lives, Earned(r), Become(p, r)
               PROVE  life' \in [Pods -> Lives] /\ SuccessIsEarned'
  <2>1. CASE CreatePod(p)
    <3>1. jobset.attempt \in Nat
      BY DEF Typed, JobSets
    <3>2. Become(p, Fresh(jobset.attempt))
      BY <2>1 DEF CreatePod, Create
    <3>3. Fresh(jobset.attempt) \in Lives /\ Earned(Fresh(jobset.attempt))
      BY <3>1, FreshOne DEF Earned
    <3> QED BY <3>2, <3>3
  <2>2. CASE Delete(p)
    <3> DEFINE r == [life[p] EXCEPT !.doomed = TRUE]
    <3>1. r \in Lives /\ Earned(r) /\ Become(p, r)
      BY <1>2, <2>2 DEF Delete, Lives, Earned
    <3> QED BY <3>1
  <2>3. CASE Remove(p)
    <3> DEFINE r == [life[p] EXCEPT !.attempt = 0]
    <3>1. r \in Lives /\ Earned(r) /\ Become(p, r)
      BY <1>2, <2>3 DEF Remove, Lives, Earned
    <3> QED BY <3>1
  <2>4. CASE Start(p)
    <3> DEFINE r == [life[p] EXCEPT !.phase = "Running"]
    <3>1. r \in Lives /\ Earned(r) /\ Become(p, r)
      BY <1>2, <2>4 DEF Start, Lives, Earned
    <3> QED BY <3>1
  <2>5. CASE Succeed(p)
    <3> DEFINE r == [life[p] EXCEPT !.phase = "Succeeded"]
    <3>1. r \in Lives /\ Earned(r) /\ Become(p, r)
      BY <1>2, <2>5 DEF Succeed, Lives, Earned
    <3> QED BY <3>1
  <2>6. CASE Fail(p)
    <3> DEFINE r == [life[p] EXCEPT !.phase = "Failed"]
    <3>1. r \in Lives /\ Earned(r) /\ Become(p, r)
      BY <1>2, <2>6 DEF Fail, Lives, Earned
    <3> QED BY <3>1
  <2>7. ASSUME NEW code \in Codes, NEW worked \in BOOLEAN, MainEnds(p, code, worked)
        PROVE  \E r \in Lives : Earned(r) /\ Become(p, r)
    <3> DEFINE r == [life[p] EXCEPT !.ended = TRUE, !.code = code, !.worked = worked]
    <3>1. Become(p, r) /\ life[p].phase # "Succeeded" /\ (code = 0 => worked)
      BY <2>7 DEF MainEnds, Final
    <3>2. r \in Lives /\ r.phase = life[p].phase /\ r.code = code /\ r.worked = worked
      BY <1>2 DEF Lives
    <3> QED BY <3>1, <3>2 DEF Earned
  <2> QED BY <1>1, <2>1, <2>2, <2>3, <2>4, <2>5, <2>6, <2>7 DEF DeletePod, EvictPod, PodStep
<1> QED BY <1>3 DEF Become, Typed, SuccessIsEarned, Earned

LEMMA NewAttempt ==
  ASSUME NEW j \in JobSets, NEW a \in Nat, NEW n \in Nat
  PROVE  /\ [j EXCEPT !.attempt = a, !.restarts = n] \in JobSets
         /\ [j EXCEPT !.attempt = a, !.restarts = n].terminal = j.terminal
  BY DEF JobSets

LEMMA StepStep == StepInv /\ [Next]_vars => StepInv'
<1> SUFFICES ASSUME StepInv, [Next]_vars PROVE StepInv'
  OBVIOUS
<1> USE DEF StepInv
<1>1. CASE FailJobSet
  BY <1>1 DEF FailJobSet, Typed, JobSets, SuccessIsEarned, Open
<1>2. CASE RestartJobSet
  <2>1. jobset.terminal = "" /\ jobset \in JobSets
    BY <1>2 DEF RestartJobSet, Open, Typed
  <2>2. jobset.attempt \in Nat /\ jobset.restarts \in Nat
    BY <2>1 DEF JobSets
  <2>3. PICK n \in Nat : jobset' = [jobset EXCEPT !.attempt = @ + 1, !.restarts = n]
    <3> DEFINE act == FailureAction
    <3>1. jobset' = [jobset EXCEPT !.attempt = @ + 1,
                       !.restarts = IF act = "RESTART_JOB_SET" THEN @ + 1 ELSE @]
      BY <1>2 DEF RestartJobSet
    <3> HIDE DEF act
    <3> DEFINE n == IF act = "RESTART_JOB_SET" THEN jobset.restarts + 1 ELSE jobset.restarts
    <3>2. n \in Nat
      BY <2>2
    <3>3. jobset' = [jobset EXCEPT !.attempt = @ + 1, !.restarts = n]
      BY <3>1
    <3> HIDE DEF n
    <3> QED BY <3>2, <3>3
  <2>4. jobset' \in JobSets /\ jobset'.terminal = ""
    <3>1. jobset.attempt + 1 \in Nat
      BY <2>2
    <3> QED BY <2>1, <2>3, <3>1, NewAttempt
  <2>5. UNCHANGED <<life, step>>
    BY <1>2 DEF RestartJobSet
  <2> QED BY <2>4, <2>5 DEF Typed, SuccessIsEarned
<1>3. CASE CompleteJobSet
  <2>1. Typed' /\ SuccessIsEarned'
    BY <1>3 DEF CompleteJobSet, Typed, JobSets, SuccessIsEarned
  <2>2. \A p \in Pods : JobSucceeded(p) => Worked(p)
    BY DEF SuccessIsEarned, JobSucceeded, Worked
  <2>3. step.success \in SuccessPolicies
    BY ConfigurationAssumption DEF Typed, ConfigurationAssumption
  <2>4. ScriptsMeetPolicy
    BY <1>3, <2>2, <2>3
    DEF CompleteJobSet, _build_success_policy, SuccessPolicies, ScriptsMeetPolicy
  <2>5. ScriptsMeetPolicy'
    BY <1>3, <2>4 DEF CompleteJobSet, ScriptsMeetPolicy, Worked, Current, Exists
  <2> QED BY <2>1, <2>5
<1>4. CASE Suspend
  BY <1>4 DEF Suspend, Typed, JobSets, SuccessIsEarned, Open
<1>5. CASE PodMoves
  BY <1>5, PodStepKeeps DEF PodMoves, Typed, Open
<1>6. CASE UNCHANGED vars
  BY <1>6 DEF vars, Typed, SuccessIsEarned, ScriptsMeetPolicy, Worked, Current, Exists
<1> QED BY <1>1, <1>2, <1>3, <1>4, <1>5, <1>6 DEF Next

-----------------------------------------------------------------------------
\* SUCCEEDED is the aggregate of successes only.
LEMMA AggregateOfSuccess ==
  ASSUME NEW S, aggregate(S) = "SUCCEEDED"
  PROVE  S # {} /\ S \subseteq {"SUCCEEDED", "SKIPPED"}
<1> DEFINE Present == {i \in DOMAIN _ANY_PRIORITY : _ANY_PRIORITY[i] \in S}
<1> DEFINE first == CHOOSE i \in Present : \A j \in Present : i <= j
<1>1. DOMAIN _ANY_PRIORITY = 1..6 /\ \A i \in 1..6 : _ANY_PRIORITY[i] # "SUCCEEDED"
  BY DEF _ANY_PRIORITY
<1>2. ASSUME Present # {} PROVE FALSE
  <2>1. \E i \in Present : \A j \in Present : i <= j
    <3>1. Present \subseteq 1..6
      BY <1>1
    <3> HIDE DEF Present
    <3>2. CASE 1 \in Present
      BY <3>1, <3>2
    <3>3. CASE Present \cap {1} = {} /\ 2 \in Present
      BY <3>1, <3>3
    <3>4. CASE Present \cap {1, 2} = {} /\ 3 \in Present
      BY <3>1, <3>4
    <3>5. CASE Present \cap {1, 2, 3} = {} /\ 4 \in Present
      BY <3>1, <3>5
    <3>6. CASE Present \cap {1, 2, 3, 4} = {} /\ 5 \in Present
      BY <3>1, <3>6
    <3>7. CASE Present \subseteq {6}
      <4>1. 6 \in Present
        BY <1>2, <3>7
      <4> QED BY <3>7, <4>1
    <3>8. Present \cap {1, 2, 3, 4, 5} = {} => Present \subseteq {6}
      BY <3>1
    <3> QED BY <3>8, <3>2, <3>3, <3>4, <3>5, <3>6, <3>7
  <2>2. first \in Present
    <3> HIDE DEF Present
    <3> QED BY <2>1
  <2>3. aggregate(S) = _ANY_PRIORITY[first]
    BY <1>2, Zenon DEF aggregate
  <2>4. first \in 1..6
    BY <1>1, <2>2
  <2> HIDE DEF first
  <2> QED BY <1>1, <2>3, <2>4
<1>3. Present = {}
  BY <1>2
<1> HIDE DEF Present
<1> QED BY <1>3 DEF aggregate, Present

LEMMA ShownIsReal == StepInv => SuccessIsReal
<1> SUFFICES ASSUME StepInv, StepStatus = "SUCCEEDED", jobset.terminal # "Completed",
                    \A p \in Pods : Current(p)
             PROVE  ScriptsMeetPolicy
  BY DEF SuccessIsReal, StepInv
<1> DEFINE S == {PodStatus(p) : p \in Listed}
<1>1. aggregate(S) = "SUCCEEDED"
  BY DEF StepStatus, _jobset_step_pod
<1>2. S # {} /\ S \subseteq {"SUCCEEDED", "SKIPPED"}
  BY <1>1, AggregateOfSuccess
<1>3. Pods # {}
  BY <1>2 DEF Listed
<1>4. ASSUME NEW p \in Pods PROVE Worked(p)
  <2>1. PodStatus(p) \in S
    BY DEF Listed, Current
  <2>2. life[p] \in Lives
    BY DEF StepInv, Typed
  <2>3. life[p].phase = "Succeeded"
    BY <1>2, <2>1, <2>2 DEF PodStatus, Lives
  <2> QED BY <2>3 DEF StepInv, SuccessIsEarned, Worked
<1>5. step.success \in SuccessPolicies
  BY ConfigurationAssumption DEF ConfigurationAssumption, StepInv, Typed
<1> QED BY <1>3, <1>4, <1>5 DEF ScriptsMeetPolicy, SuccessPolicies

(* A step shown as SUCCEEDED has had its scripts end with 0, in the roles  *)
(* its success policy names and in its last attempt, through any failures, *)
(* restarts and evictions (_build_success_policy, _jobset_step_pod).       *)
THEOREM ShownSuccessIsReal == Spec => []SuccessIsReal
BY StepInit, StepStep, ShownIsReal, PTL DEF Spec
-----------------------------------------------------------------------------
(* Fatal exit codes.                                                       *)

LEMMA LeastIndex ==
  ASSUME NEW T \in SUBSET Nat, T # {}
  PROVE  \E i \in T : \A j \in T : i <= j
<1>1. PICK i \in T : \A j \in T : ~(<<j, i>> \in OpToRel(<, Nat))
  BY NatLessThanWellFounded, WFMin
<1>2. ASSUME NEW j \in T PROVE i <= j
  <2>1. i \in Nat /\ j \in Nat /\ ~(j < i)
    BY <1>1 DEF OpToRel
  <2> QED BY <2>1
<1> QED BY <1>2

\* Among any rules one is the first in the order of the manifest; if some of
\* them are on exit codes, it is one of those.
LEMMA FirstRule ==
  ASSUME NEW rules, NEW F \in SUBSET Nat, NEW c \in F, HasCodes(rules[c])
  PROVE  FirstListed(rules, F) \in F /\ HasCodes(rules[FirstListed(rules, F)])
<1> DEFINE T == {j \in F : HasCodes(rules[j])}
           First(i) == \A j \in F \ {i} : _build_failure_policy(rules, i, j)
<1>1. PICK k \in T : \A j \in T : k <= j
  <2>1. T \in SUBSET Nat /\ T # {}
    OBVIOUS
  <2> HIDE DEF T
  <2> QED BY <2>1, LeastIndex
<1>2. First(k)
  <2> SUFFICES ASSUME NEW j \in F, j # k PROVE _build_failure_policy(rules, k, j)
    OBVIOUS
  <2>1. k \in F /\ HasCodes(rules[k]) /\ (HasCodes(rules[j]) => k <= j)
    BY <1>1
  <2>2. HasCodes(rules[j]) => k < j
    BY <2>1
  <2> QED BY <2>1, <2>2 DEF _build_failure_policy
<1>3. FirstListed(rules, F) = CHOOSE i \in F : First(i)
  BY DEF FirstListed
<1> DEFINE i == FirstListed(rules, F)
<1>4. i \in F /\ First(i)
  <2> HIDE DEF First
  <2> QED BY <1>1, <1>2, <1>3
<1> HIDE DEF i
<1>5. HasCodes(rules[i])
  BY <1>4 DEF _build_failure_policy
<1> QED BY <1>4, <1>5 DEF i

(* For every policy and whatever the pods do: a role that fails on an exit *)
(* code listed for it is met by a rule that fails the JobSet, for the      *)
(* rules on exit codes are looked at first; so no attempt follows.         *)
THEOREM FatalCodesEndTheStep == Spec => FatalIsNotRetried
<1> DEFINE NotRetried ==
      jobset'.attempt # jobset.attempt =>
        \A p \in Pods, i \in DOMAIN step.rules :
          JobFailed(p) /\ life[p].ended /\ HasCodes(step.rules[i])
            /\ p \in step.rules[i].target_roles
              => ~MatchesCode(step.rules[i], life[p].code)
<1>1. StepInv /\ [Next]_vars => [NotRetried]_vars
  <2> SUFFICES ASSUME StepInv, Next, jobset'.attempt # jobset.attempt,
                      NEW p \in Pods, NEW i \in DOMAIN step.rules,
                      JobFailed(p), life[p].ended, HasCodes(step.rules[i]),
                      p \in step.rules[i].target_roles,
                      MatchesCode(step.rules[i], life[p].code)
               PROVE  FALSE
    BY Zenon
  <2>1. RestartJobSet
    <3>1. jobset \in JobSets
      BY DEF StepInv, Typed
    <3>2. jobset' # jobset
      OBVIOUS
    <3>3. ASSUME NEW b, jobset' = [jobset EXCEPT !.terminal = b] PROVE FALSE
      BY <3>1, <3>3 DEF JobSets
    <3>4. ASSUME NEW b, jobset' = [jobset EXCEPT !.suspended = b] PROVE FALSE
      BY <3>1, <3>4 DEF JobSets
    <3> QED
      BY <3>2, <3>3, <3>4, Zenon
      DEF Next, FailJobSet, CompleteJobSet, Suspend, PodMoves, vars
  <2>2. step.rules \in Seq(FailureRules)
    BY ConfigurationAssumption DEF ConfigurationAssumption, StepInv, Typed
  <2> DEFINE Matches(k) == \E q \in step.rules[k].target_roles :
                             JobFailed(q) /\ (HasCodes(step.rules[k]) => FailedOnCode(q))
             Found == {k \in DOMAIN step.rules : Matches(k)}
             first == FirstListed(step.rules, Found)
  <2>3. FailedOnCode(p)
    BY DEF FailedOnCode, _build_pod_failure_policy
  <2>4. i \in Found /\ HasCodes(step.rules[i])
    BY <2>3
  <2>5. Found \in SUBSET Nat
    BY <2>2
  <2>6. FailureAction = step.rules[first].action
    BY <2>4 DEF FailureAction
  <2>7. first \in Found /\ HasCodes(step.rules[first])
    <3> HIDE DEF Found
    <3> QED BY <2>4, <2>5, FirstRule
  <2>8. step.rules[first].action = "FAIL_JOB_SET"
    <3> HIDE DEF first
    <3>1. step.rules[first] \in FailureRules
      BY <2>2, <2>7
    <3> QED BY <2>7, <3>1 DEF FailureRules, HasCodes
  <2> QED BY <2>1, <2>6, <2>8 DEF RestartJobSet, Fails
<1>2. StepInv /\ [Next]_vars => StepInv'
  BY StepStep
<1> QED BY <1>1, <1>2, StepInit, PTL DEF Spec, FatalIsNotRetried
=============================================================================
