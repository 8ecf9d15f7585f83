---------------------------- MODULE StatusReport ----------------------------
(***************************************************************************)
(* How a finished or running workflow is reported.  `chain status`, wait() *)
(* and attach() see only the controller's JobSet and the phases ConfigMap; *)
(* once both are garbage-collected they see the archived status.json.      *)
(* Each is a function of the state Controller.tla leaves behind, read when *)
(* the controller's JobSet has come to rest.                               *)
(***************************************************************************)
EXTENDS Controller, WorkflowState

\* The status field of the document _build_status writes.
ArchivedStatus(ph) == aggregate({ph[s] : s \in Steps \ Optional})

workflow_canceled(map) == map.exists /\ \E s \in Steps : map.phases[s] = "CANCELED"
\* Mutant: the ConfigMap's optional steps are not left out.
workflow_failed_any(map) == map.exists /\ \E s \in Steps : map.phases[s] = "FAILED"

workflow_failed(map) == map.exists /\ WorkflowFailed(map.phases)

\* controller_jobset_status_and_completion, for a controller JobSet that is
\* Failed when the pod's retries are used up and Completed when main() returned.
LiveStatus ==
  IF pc = "dead" THEN "ERROR"
  ELSE IF pc # "done" THEN "RUNNING"
  ELSE IF workflow_canceled(cm) THEN "CANCELED"
  ELSE IF workflow_failed(cm) THEN "FAILED"
  ELSE "SUCCEEDED"

-----------------------------------------------------------------------------
CanceledSteps == {s \in Steps : phases[s] = "CANCELED"}

(***************************************************************************)
(* What is told of a finished workflow, against the verdict of main():     *)
(*   - with the ConfigMap, CANCELED as soon as any step was canceled, be   *)
(*     it by the teardown of a failed workflow; if none was, the verdict;  *)
(*   - in the archive, FAILED exactly when the verdict is FAILED; CANCELED *)
(*     when the verdict is, but for canceled steps that are all optional   *)
(*     (the archive leaves them out); otherwise that nothing went wrong.   *)
(* So SUCCEEDED is told of the verdict SUCCEEDED alone while there is a    *)
(* ConfigMap, and later also of a workflow whose optional steps alone were *)
(* canceled; FAILED is never told of another verdict.                      *)
(***************************************************************************)
EndIsReported ==
  pc = "done" =>
    /\ LiveStatus = IF CanceledSteps # {} THEN "CANCELED" ELSE verdict
    /\ ArchivedStatus(phases) = "FAILED" <=> verdict = "FAILED"
    /\ ArchivedStatus(phases) = "CANCELED"
         <=> verdict = "CANCELED" /\ ~(CanceledSteps \subseteq Optional)
    /\ ArchivedStatus(phases) \in {"FAILED", "CANCELED", "SUCCEEDED", "SKIPPED", "UNKNOWN"}
=============================================================================
