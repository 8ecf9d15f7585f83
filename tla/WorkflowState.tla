---------------------------- MODULE WorkflowState ----------------------------
(***************************************************************************)
(* What `chain status` says of a step (workflow_state.py): the states of   *)
(* the containers of a pod rolled up into the pod's, the pods' into the    *)
(* step's, with the JobSet's own word first.  Pure operators; JobSetRun    *)
(* applies them to every state a step goes through.                        *)
(***************************************************************************)
EXTENDS Integers

Containers == {"chain-init", "chain-nix-init", "main", "log-sidecar"}
InitContainers == {"chain-init", "chain-nix-init"}

\* A container as the kubelet reports it; "none" before it reports any.
ContainerStates == {"none", "waiting", "pull_error", "running", "terminated"}

Shown(status, detail) == [status |-> status, detail |-> detail]

_ANY_PRIORITY == <<"ERROR", "FAILED", "CANCELED", "RUNNING", "STARTING", "PENDING">>

aggregate(statuses) ==
  LET Present == {i \in DOMAIN _ANY_PRIORITY : _ANY_PRIORITY[i] \in statuses} IN
  IF Present # {}
    THEN _ANY_PRIORITY[CHOOSE i \in Present : \A j \in Present : i <= j]
  ELSE IF statuses # {} /\ statuses \subseteq {"SUCCEEDED", "SKIPPED"}
    THEN IF "SUCCEEDED" \in statuses THEN "SUCCEEDED" ELSE "SKIPPED"
  ELSE "UNKNOWN"

\* state, code: those of one container.
_container_state_from(state, code, is_init) ==
  CASE state = "pull_error" -> Shown("STARTING", "PULL_ERROR")
    [] state = "waiting" -> Shown("STARTING", IF is_init THEN "INIT_WAITING" ELSE "None")
    [] state = "running" -> IF is_init THEN Shown("STARTING", "INIT_RUNNING")
                                       ELSE Shown("RUNNING", "None")
    [] state = "terminated" /\ code = 0 -> Shown("SUCCEEDED", "None")
    [] state = "terminated" /\ code # 0 -> IF is_init THEN Shown("STARTING", "INIT_ERROR")
                                                      ELSE Shown("FAILED", "None")

\* The detail of a pod none of whose main containers has started; every pod
\* has chain-init.
InitDetail(init) ==
  LET Detailed(d) == {c \in DOMAIN init : init[c].detail = d} IN
  IF "chain-nix-init" \in Detailed("INIT_RUNNING") THEN "PULLING_CLOSURE"
  ELSE IF Detailed("INIT_RUNNING") # {} THEN "INIT_RUNNING"
  ELSE IF Detailed("INIT_ERROR") # {} THEN "INIT_ERROR"
  ELSE IF \A c \in DOMAIN init : init[c].status = "SUCCEEDED" THEN "PULLING"
  ELSE "INIT_WAITING"

\* Mutant: success shown as soon as a main container has ended well.
Transient_eager(statuses) ==
  IF "RUNNING" \in statuses THEN "RUNNING"
  ELSE IF "FAILED" \in statuses THEN "FAILED" ELSE "SUCCEEDED"

\* Some main container has started: FAILED before the phase says so, but not
\* SUCCEEDED.
Transient(statuses) ==
  IF "RUNNING" \notin statuses /\ "FAILED" \in statuses THEN "FAILED" ELSE "RUNNING"

\* states, codes: those of the containers of a pod, by name.
_derive_pod_status(phase, states, codes) ==
  LET Reported == {c \in DOMAIN states : states[c] # "none"}
      Of == [c \in Reported |-> _container_state_from(states[c], codes[c], c \in InitContainers)]
      Main == {Of[c].status : c \in Reported \ InitContainers}
  IN IF phase = "Succeeded" THEN Shown("SUCCEEDED", "None")
     ELSE IF phase = "Failed" THEN Shown("FAILED", "None")
     ELSE IF \E c \in Reported : Of[c].detail = "PULL_ERROR" THEN Shown("STARTING", "PULL_ERROR")
     ELSE IF Main \cap {"RUNNING", "FAILED", "SUCCEEDED"} # {} THEN Shown(Transient(Main), "None")
     ELSE IF Reported = {} THEN Shown("PENDING", "None")
     ELSE Shown("STARTING", InitDetail([c \in Reported \cap InitContainers |-> Of[c]]))

\* jobset: suspended, terminalState; statuses: those of the listed pods.
_jobset_step_pod(jobset, statuses) ==
  IF jobset.suspended THEN "PENDING"
  ELSE IF jobset.terminal = "Completed" THEN "SUCCEEDED"
  ELSE IF jobset.terminal = "Failed" THEN "FAILED"
  ELSE IF statuses \subseteq {"PENDING", "UNKNOWN"} THEN "PENDING"
  ELSE aggregate(statuses)
=============================================================================
