------------------------------ MODULE JobSetRun ------------------------------
(***************************************************************************)
(* A step: the JobSet that jobset.py builds for it, one job with one pod   *)
(* for each role, under the policies of its configuration.  The JobSet     *)
(* controller and the Job controller (external) start the pods of an       *)
(* attempt over when the failure policy says so, and settle the step.      *)
(* Roles are named by their pods.                                          *)
(***************************************************************************)
EXTENDS PodLife, WorkflowState, Sequences

CONSTANTS
  Configurations,  \* the steps: their failure_policy and success_policy
  MaxAttempts      \* bound on the attempts of a step

VARIABLES
  step,    \* the configuration of the step
  jobset   \* its JobSet

vars == <<life, step, jobset>>

\* A rule of config.py's FailurePolicy; codes is empty for on_exit_codes None.
Actions == {"FAIL_JOB_SET", "RESTART_JOB_SET", "RESTART_JOB_SET_AND_IGNORE_MAX_RESTARTS"}
FailureRules ==
  {r \in [action : Actions, target_roles : SUBSET Pods, codes : SUBSET (1..255),
          operator : {"IN", "NOT_IN"}] :
     IF r.codes # {} THEN r.action = "FAIL_JOB_SET" ELSE r.operator = "IN"}

SuccessPolicies == [operator : {"ALL", "ANY"}, target_roles : SUBSET Pods]

ASSUME ConfigurationAssumption ==
  /\ Configurations \subseteq [policy : BOOLEAN, max_restarts : Nat, success : SuccessPolicies,
                               rules : Seq(FailureRules)]
  /\ MaxAttempts \in Nat \ {0}

Init ==
  /\ step \in Configurations
  /\ jobset = [attempt |-> 1, restarts |-> 0, suspended |-> FALSE, terminal |-> ""]
  /\ LifeInit

-----------------------------------------------------------------------------
(* The manifest.                                                           *)

HasCodes(rule) == rule.codes # {}

\* failurePolicy.rules is the configured rules in the order in which rule i
\* precedes rule j.
\* Mutant: the rules on exit codes last.
_build_failure_policy_plain_first(rules, i, j) ==
  \/ ~HasCodes(rules[i]) /\ HasCodes(rules[j])
  \/ (HasCodes(rules[i]) <=> HasCodes(rules[j])) /\ i < j

\* Those on exit codes come first, otherwise they keep their order.
_build_failure_policy(rules, i, j) ==
  \/ HasCodes(rules[i]) /\ ~HasCodes(rules[j])
  \/ (HasCodes(rules[i]) <=> HasCodes(rules[j])) /\ i < j

FirstListed(rules, F) == CHOOSE i \in F : \A j \in F \ {i} : _build_failure_policy(rules, i, j)

\* podFailurePolicy.rules of a role.
_build_pod_failure_policy(rules, role) ==
  {rules[i] : i \in {i \in DOMAIN rules : HasCodes(rules[i]) /\ role \in rules[i].target_roles}}

\* Mutant: target_roles left out of the manifest.
_build_success_policy_untargeted(policy) == [policy EXCEPT !.target_roles = Pods]

\* A success policy with no roles of its own targets them all.
_build_success_policy(policy) ==
  [policy EXCEPT !.target_roles = IF @ = {} THEN Pods ELSE @]

-----------------------------------------------------------------------------
(* The Job controller: a job is its one pod (backoffLimit 0).              *)

Current(p) == Exists(p) /\ life[p].attempt = jobset.attempt
JobSucceeded(p) == Current(p) /\ life[p].phase = "Succeeded"
JobFailed(p) == Current(p) /\ life[p].phase = "Failed"

MatchesCode(rule, code) ==
  IF rule.operator = "IN" THEN code \in rule.codes ELSE code \notin rule.codes \union {0}

\* The job fails for the reason PodFailurePolicy.
FailedOnCode(p) ==
  /\ life[p].ended
  /\ \E r \in _build_pod_failure_policy(step.rules, p) : MatchesCode(r, life[p].code)

-----------------------------------------------------------------------------
(* The JobSet controller.                                                  *)

Open == jobset.terminal = "" /\ ~jobset.suspended

\* The first rule that a failed job matches; restart when none does.
FailureAction ==
  LET rules == step.rules
      Matches(i) == \E p \in rules[i].target_roles :
                      JobFailed(p) /\ (HasCodes(rules[i]) => FailedOnCode(p))
      Found == {i \in DOMAIN rules : Matches(i)}
  IN IF Found = {} THEN "RESTART_JOB_SET" ELSE rules[FirstListed(rules, Found)].action

Fails ==
  \/ ~step.policy
  \/ FailureAction = "FAIL_JOB_SET"
  \/ FailureAction = "RESTART_JOB_SET" /\ jobset.restarts >= step.max_restarts

FailJobSet ==
  /\ Open /\ (\E p \in Pods : JobFailed(p)) /\ Fails
  /\ jobset' = [jobset EXCEPT !.terminal = "Failed"]
  /\ UNCHANGED <<life, step>>

RestartJobSet ==
  /\ Open /\ (\E p \in Pods : JobFailed(p)) /\ ~Fails
  /\ jobset.attempt < MaxAttempts
  /\ jobset' = [jobset EXCEPT !.attempt = @ + 1,
                  !.restarts = IF FailureAction = "RESTART_JOB_SET" THEN @ + 1 ELSE @]
  /\ UNCHANGED <<life, step>>

CompleteJobSet ==
  /\ Open /\ \A p \in Pods : ~JobFailed(p)
  /\ LET policy == _build_success_policy(step.success) IN
     IF policy.operator = "ALL"
       THEN \A p \in policy.target_roles : JobSucceeded(p)
       ELSE \E p \in policy.target_roles : JobSucceeded(p)
  /\ jobset' = [jobset EXCEPT !.terminal = "Completed"]
  /\ UNCHANGED <<life, step>>

CreatePod(p) == Create(p, jobset.attempt)

\* Every job of an earlier attempt is deleted, and its pod with it.
Superseded(p) == life[p].attempt < jobset.attempt
DeletePod(p) == Superseded(p) /\ (Delete(p) \/ Remove(p))

\* A node is drained: the pod comes to its end, and counts as it ended.
EvictPod(p) == ~Final(p) /\ Delete(p)

\* What becomes of the pods of a settled step is not followed.
PodMoves ==
  /\ Open /\ UNCHANGED <<step, jobset>>
  /\ \E p \in Pods : CreatePod(p) \/ DeletePod(p) \/ EvictPod(p) \/ PodStep(p)

\* chain cancel, or a teardown.
Suspend ==
  /\ Open /\ jobset' = [jobset EXCEPT !.suspended = TRUE] /\ UNCHANGED <<life, step>>

Settled == ~Open \/ jobset.attempt = MaxAttempts

Next ==
  \/ FailJobSet \/ RestartJobSet \/ CompleteJobSet \/ Suspend
  \/ PodMoves
  \/ Settled /\ UNCHANGED vars

Spec == Init /\ [][Next]_vars

-----------------------------------------------------------------------------
(* What is shown.                                                          *)

PodStatus(p) ==
  CASE life[p].phase = "Succeeded" -> "SUCCEEDED"
    [] life[p].phase = "Failed" -> "FAILED"
    [] life[p].phase = "Running" -> "RUNNING"
    [] life[p].phase = "Pending" -> "STARTING"
Listed == {p \in Pods : Exists(p)}
StepStatus == _jobset_step_pod(jobset, {PodStatus(p) : p \in Listed})

\* success_policy, asked of the scripts of this attempt.
Worked(p) == Current(p) /\ life[p].worked
ScriptsMeetPolicy ==
  LET roles == IF step.success.target_roles = {} THEN Pods ELSE step.success.target_roles IN
  IF step.success.operator = "ALL" THEN \A p \in roles : Worked(p)
                                   ELSE \E p \in roles : Worked(p)

(* A step shown as SUCCEEDED has had the before and main scripts of the    *)
(* roles its success policy names end with 0 in its last attempt, whatever *)
(* ended, was restarted or evicted on the way (_build_success_policy,      *)
(* _jobset_step_pod).  It is not asked while the JobSet is open and a pod  *)
(* of this attempt is missing: a step that is being restarted is shown as  *)
(* SUCCEEDED when its failed pods are the first to go.                     *)
SuccessIsReal ==
  StepStatus = "SUCCEEDED" /\ (jobset.terminal = "Completed" \/ \A p \in Pods : Current(p))
    => ScriptsMeetPolicy

(* An exit code that the configuration lists as fatal ends the step: no    *)
(* attempt follows one in which a role failed on such a code               *)
(* (_build_failure_policy, _build_pod_failure_policy).                     *)
FatalIsNotRetried ==
  [][jobset'.attempt # jobset.attempt =>
       \A p \in Pods, i \in DOMAIN step.rules :
         JobFailed(p) /\ life[p].ended /\ HasCodes(step.rules[i])
           /\ p \in step.rules[i].target_roles
             => ~MatchesCode(step.rules[i], life[p].code)]_vars
=============================================================================
