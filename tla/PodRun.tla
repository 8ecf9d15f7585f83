-------------------------------- MODULE PodRun --------------------------------
(***************************************************************************)
(* The life of a worker pod: what templates/jobset.yaml.j2 makes the       *)
(* kubelet run.  The init containers come first.  main's entrypoint        *)
(* (chain-entrypoint.sh) runs the before, main and after scripts, and the  *)
(* log sidecar (fluentbit.sh) uploads their output; the two meet in three  *)
(* files of a shared volume: .hb, .shutdown and .logs_flushed.  A deleted  *)
(* pod has its hooks run, a TERM, and a KILL at the end of its grace.      *)
(* Another pod may then be created in its place.                           *)
(***************************************************************************)
EXTENDS WorkflowState

CONSTANTS
  NixInit,      \* the pod has chain-nix-init
  ScriptCodes,  \* how a user's script may end
  MaxMishaps    \* bound on failed pulls, killed containers and a fluent-bit that fails

ASSUME PodAssumption ==
  /\ NixInit \in BOOLEAN
  /\ 0 \in ScriptCodes /\ ScriptCodes \subseteq 0..255
  /\ MaxMishaps \in Nat

VARIABLES pod, mishaps
vars == <<pod, mishaps>>

Terminated == 143   \* 128 + SIGTERM
Killed == 137       \* 128 + SIGKILL
Codes == ScriptCodes \union {0, 1, 127, Terminated, Killed}
Files == {"hb", "shutdown", "flushed"}
Scripts == {"before", "main", "after"}

PodContainers == IF NixInit THEN Containers ELSE Containers \ {"chain-nix-init"}

\* pc: where the entrypoint is; known: SCRIPT_PID is set; rc: what it will
\* exit with; log: whether output waits to be uploaded; doomed: deleted;
\* worked: the scripts that ended with 0; fluent: "failed" once fluent-bit has
\* died or given an upload up.
Fresh ==
  [exists |-> TRUE, phase |-> "Pending", doomed |-> FALSE,
   state |-> [c \in PodContainers |-> "none"], code |-> [c \in PodContainers |-> 0],
   pc |-> "boot", known |-> FALSE, rc |-> 1, worked |-> {},
   sidecar |-> "startup", fluent |-> "well", files |-> {}, log |-> "shipped"]

PodStates ==
  [exists : BOOLEAN, phase : {"Pending", "Running", "Succeeded", "Failed"}, doomed : BOOLEAN,
   state : [PodContainers -> ContainerStates], code : [PodContainers -> Codes],
   pc : Scripts \union {"boot", "term", "cleanup", "flush", "exited"}, known : BOOLEAN,
   rc : Codes, worked : SUBSET Scripts,
   sidecar : {"startup", "ship", "grace", "exited"}, fluent : {"well", "failed"},
   files : SUBSET Files, log : {"shipped", "pending"}]

Exists == pod.exists
Become(r) == pod' = r /\ UNCHANGED mishaps
Mishap(r) ==
  /\ mishaps < MaxMishaps /\ mishaps' = mishaps + 1
  /\ pod' = r
In(c, s) == Exists /\ pod.state[c] = s

-----------------------------------------------------------------------------
(* The kubelet.                                                            *)

\* The containers that must have ended well before c starts.
Before(c) ==
  CASE c = "chain-init" -> {}
    [] c = "chain-nix-init" -> {"chain-init"}
    [] OTHER -> PodContainers \cap InitContainers

Waiting == {"waiting", "pull_error"}
Ended(c) == pod.state[c] = "terminated"
Ended0(c) == Ended(c) /\ pod.code[c] = 0
InitFailed == \E c \in PodContainers \cap InitContainers : Ended(c) /\ ~Ended0(c)

\* restartPolicy Never: no container runs again.
Over ==
  /\ \A c \in PodContainers : pod.state[c] # "running"
  /\ InitFailed \/ pod.doomed \/ (Ended("main") /\ Ended("log-sidecar"))

Final == pod.phase \in {"Succeeded", "Failed"}

Report ==
  /\ In("main", "none") /\ ~pod.doomed
  /\ Become([pod EXCEPT !.state = [c \in PodContainers |-> "waiting"]])

PullFails(c) ==
  /\ In(c, "waiting") /\ ~pod.doomed /\ \A i \in Before(c) : Ended0(i)
  /\ Mishap([pod EXCEPT !.state[c] = "pull_error"])

StartContainer(c) ==
  /\ Exists /\ pod.state[c] \in Waiting /\ ~pod.doomed
  /\ \A i \in Before(c) : Ended0(i)
  /\ LET Started == [pod.state EXCEPT ![c] = "running"] IN
     Become([pod EXCEPT !.state = Started,
               !.phase = IF Waiting \cap {Started["main"], Started["log-sidecar"]} = {}
                           THEN "Running" ELSE @])

InitEnds(c) ==
  /\ c \in InitContainers /\ In(c, "running")
  /\ \E k \in {0, 1} :
       Become([pod EXCEPT !.state[c] = "terminated", !.code[c] = k])

\* The phase comes after the states of the containers.
FinalPhase ==
  /\ Exists /\ Over /\ ~Final
  /\ Become([pod EXCEPT !.phase =
                  IF \A c \in PodContainers : Ended0(c) THEN "Succeeded" ELSE "Failed"])

\* main runs out of memory.
OutOfMemory ==
  /\ In("main", "running")
  /\ Mishap([pod EXCEPT !.state["main"] = "terminated", !.code["main"] = Killed,
                        !.log = IF pod.pc \in Scripts THEN "pending" ELSE @,
                        !.pc = "exited", !.known = FALSE, !.rc = 1])

-----------------------------------------------------------------------------
(* main: chain-entrypoint.sh.                                              *)

Exit(rc) ==
  Become([pod EXCEPT !.state["main"] = "terminated", !.code["main"] = rc,
                     !.pc = "exited", !.rc = 1])

\* The heartbeat starts, and the main script alone is looked at: it may be
\* missing, or its interpreter.
validate_script ==
  /\ In("main", "running") /\ pod.pc = "boot"
  /\ \E rc \in {0, 1, 127} :
       Become([pod EXCEPT !.files = @ \union {"hb"},
                          !.pc = IF rc = 0 THEN "before" ELSE "cleanup",
                          !.rc = IF rc = 0 THEN 1 ELSE rc,
                          !.log = IF rc = 0 THEN @ ELSE "pending"])

SpawnScript ==
  /\ In("main", "running") /\ pod.pc \in Scripts /\ ~pod.known
  /\ Become([pod EXCEPT !.known = TRUE])

\* rc_main: 1 unless the main script runs.
Result(script, rc, code) == IF script = "main" THEN code ELSE rc

\* Mutant: the main script run whatever the before script says.
NextScript_always(script, code) ==
  CASE script = "before" -> "main" [] script = "main" -> "after" [] OTHER -> "cleanup"

NextScript(script, code) ==
  CASE script = "before" /\ code = 0 -> "main"
    [] script = "before" /\ code # 0 -> "after"
    [] script = "main" -> "after"
    [] OTHER -> "cleanup"

run_script ==
  /\ In("main", "running") /\ pod.pc \in Scripts /\ pod.known
  /\ \E code \in ScriptCodes :
       Become([pod EXCEPT
                    !.pc = NextScript(@, code), !.known = FALSE, !.log = "pending",
                    !.rc = Result(pod.pc, @, code),
                    !.worked = IF code = 0 THEN @ \union {pod.pc} ELSE @])

cleanup ==
  /\ In("main", "running") /\ pod.pc = "cleanup"
  /\ Become([pod EXCEPT !.files = @ \union {"shutdown"}, !.pc = "flush"])

\* Mutant: no timeout.
wait_for_log_flush_forever ==
  In("main", "running") /\ pod.pc = "flush" /\ "flushed" \in pod.files

\* Until .logs_flushed is there, or LOG_FLUSH_TIMEOUT has passed.
wait_for_log_flush == In("main", "running") /\ pod.pc = "flush"

ExitMain == wait_for_log_flush /\ Exit(pod.rc)

\* TERM, from the hook or from the kubelet: a script whose PID is known is
\* asked to end and waited for; in the middle of the cleanup there is nothing
\* left to do but exit.
terminate ==
  /\ In("main", "running") /\ pod.doomed
  /\ \/ /\ pod.pc \in Scripts
        /\ Become([pod EXCEPT !.pc = IF pod.known THEN "term" ELSE "cleanup",
                              !.known = FALSE, !.rc = Terminated, !.log = "pending"])
     \/ /\ pod.pc = "cleanup" /\ pod.rc # Terminated
        /\ Become([pod EXCEPT !.rc = Terminated])
     \/ pod.pc = "flush" /\ Exit(Terminated)

\* The script ends in whatever way.
TermedScriptEnds ==
  /\ In("main", "running") /\ pod.pc = "term"
  /\ Become([pod EXCEPT !.pc = "cleanup"])

-----------------------------------------------------------------------------
(* log-sidecar: fluentbit.sh.                                              *)

Sidecar(at) == In("log-sidecar", "running") /\ pod.sidecar = at
Is(file) == file \in pod.files

WithoutSidecar(r, code) ==
  [r EXCEPT !.state["log-sidecar"] = "terminated", !.code["log-sidecar"] = code,
            !.sidecar = "exited"]
SidecarExits(code, r) == Become(WithoutSidecar(r, code))

wait_for_startup ==
  /\ Sidecar("startup") /\ (Is("hb") \/ Is("shutdown"))
  /\ Become([pod EXCEPT !.sidecar = "ship"])

\* main has not started after STARTUP_TIMEOUT.
StartupTimeout ==
  /\ Sidecar("startup") /\ ~Is("hb") /\ ~Is("shutdown")
  /\ SidecarExits(1, pod)

\* fluent-bit uploads what it has read, now and then.
Upload ==
  /\ Sidecar("ship") /\ pod.log = "pending" /\ pod.fluent = "well"
  /\ Become([pod EXCEPT !.log = "shipped"])

\* It dies, or an upload fails for good, that at its end included: what was
\* still to be uploaded stays where it is.  The script does not look at it.
FluentBitFails ==
  /\ Sidecar("ship") \/ Sidecar("grace")
  /\ Mishap([pod EXCEPT !.fluent = "failed"])

\* Mutant: the age of .hb not looked at.
is_heartbeat_stale_always == Is("hb")

\* The entrypoint touches .hb as long as it runs.
is_heartbeat_stale == Is("hb") /\ Ended("main")

monitor_loop ==
  /\ Sidecar("ship") /\ (Is("shutdown") \/ is_heartbeat_stale)
  /\ Become([pod EXCEPT !.sidecar = "grace"])

\* fluent-bit uploads the rest when it is stopped, if it still runs and can;
\* .logs_flushed is there, and the sidecar exits with 0, either way.
shutdown_fluentbit ==
  /\ Sidecar("grace")
  /\ SidecarExits(0, [pod EXCEPT !.log = IF pod.fluent = "well" THEN "shipped" ELSE @,
                                 !.files = @ \union {"flushed"}])

SidecarKilled ==
  In("log-sidecar", "running") /\ Mishap(WithoutSidecar(pod, Killed))

\* TERM comes when the sidecar's own hook has waited the grace out.
SidecarTerm ==
  /\ pod.doomed
  /\ \/ /\ Sidecar("startup")
        /\ SidecarExits(0, [pod EXCEPT !.files = @ \union {"shutdown"}])
     \/ /\ Sidecar("ship")
        /\ Become([pod EXCEPT !.files = @ \union {"shutdown"}, !.sidecar = "grace"])

-----------------------------------------------------------------------------
(* Deletion: main's hook touches .shutdown if main runs; what still runs   *)
(* at the end of the grace is killed.                                      *)

Delete ==
  /\ Exists /\ ~pod.doomed
  /\ Become([pod EXCEPT !.doomed = TRUE,
               !.files = IF In("main", "running") THEN @ \union {"shutdown"} ELSE @])

Remove == Exists /\ pod.doomed /\ Final /\ Become([pod EXCEPT !.exists = FALSE])

Create == ~Exists /\ Become(Fresh)

GraceOver ==
  /\ Exists /\ pod.doomed
  /\ \E c \in PodContainers : In(c, "running")
  /\ LET Left == {c \in PodContainers : In(c, "running")} IN
     Become([pod EXCEPT
       !.state = [c \in PodContainers |-> IF c \in Left THEN "terminated" ELSE @[c]],
       !.code = [c \in PodContainers |-> IF c \in Left THEN Killed ELSE @[c]],
       !.pc = "exited", !.known = FALSE, !.rc = 1, !.sidecar = "exited"])

Entrypoint ==
  \/ validate_script \/ SpawnScript \/ run_script \/ TermedScriptEnds
  \/ cleanup \/ ExitMain

Kubelet ==
  \/ Report \/ FinalPhase \/ GraceOver
  \/ \E c \in PodContainers : StartContainer(c) \/ InitEnds(c)

LogSidecar == wait_for_startup \/ StartupTimeout \/ monitor_loop \/ shutdown_fluentbit

\* What may happen to a pod and need not.
Other ==
  \/ Create \/ Delete \/ Remove \/ OutOfMemory \/ terminate \/ Upload
  \/ SidecarKilled \/ SidecarTerm \/ FluentBitFails \/ \E c \in PodContainers : PullFails(c)

Init == pod = [Fresh EXCEPT !.exists = FALSE] /\ mishaps = 0

Next == Entrypoint \/ Kubelet \/ LogSidecar \/ Other

\* The kubelet, the sidecar and the entrypoint go on, images are pulled in
\* the end, and scripts end.  The rest need not happen.
Fairness == WF_vars(Kubelet) /\ WF_vars(Entrypoint) /\ WF_vars(LogSidecar)

Spec == Init /\ [][Next]_vars /\ Fairness

-----------------------------------------------------------------------------
TypeOK == pod \in PodStates /\ mishaps \in 0..MaxMishaps

(* What the scripts of a pod that nobody deleted have written is in S3     *)
(* when the pod is over, however main ended and however long the flush     *)
(* took, unless the sidecar itself was lost, or its fluent-bit has died or *)
(* given an upload up (run_script, cleanup, monitor_loop,                  *)
(* shutdown_fluentbit).                                                    *)
LogsAreShipped ==
  Exists /\ Final /\ ~pod.doomed /\ Ended0("log-sidecar") /\ pod.fluent = "well"
    => pod.log = "shipped"

(* The pod is one a JobSet can count on (PodLife): main ends once, with 0  *)
(* only after a before and a main script that both ended with 0, the pod   *)
(* is Succeeded only then, and its phase is final (main, run_script,       *)
(* terminate, restartPolicy).                                              *)
Life ==
  [attempt |-> IF Exists THEN 1 ELSE 0, phase |-> pod.phase, doomed |-> pod.doomed,
   ended |-> Ended("main"), code |-> pod.code["main"],
   worked |-> Ended("main") /\ {"before", "main"} \subseteq pod.worked]

Promise == INSTANCE PodLife WITH Pods <- {"pod"}, life <- [p \in {"pod"} |-> Life]
KeepsPromise == Promise!LifeSpec

Status == _derive_pod_status(pod.phase, pod.state, pod.code)

Rank(status) ==
  CASE status \in {"SUCCEEDED", "FAILED"} -> 3
    [] status = "RUNNING" -> 2
    [] status = "STARTING" -> 1
    [] OTHER -> 0

(* The status shown of a pod goes from PENDING through STARTING and        *)
(* RUNNING to what it came to, and stays there: follow and attach act on   *)
(* it (_derive_pod_status).  It falls back where an image cannot be        *)
(* pulled, and from FAILED to RUNNING where main or the sidecar failed     *)
(* before the other had started.                                           *)
PodStatusNeverGoesBack ==
  [][Exists /\ pod'.exists =>
       \/ Rank(Status'.status) > Rank(Status.status)
       \/ Status'.status = Status.status
       \/ Status'.detail = "PULL_ERROR"
       \/ /\ ~Final /\ Status'.status = "RUNNING"
          /\ \E c \in {"main", "log-sidecar"} : pod.state[c] \in Waiting]_vars

(* A pod comes to an end, whatever containers were killed, whether or not  *)
(* the sidecar lives to flush the logs, and also when it is deleted        *)
(* (wait_for_log_flush, wait_for_startup, is_heartbeat_stale).             *)
PodEnds == Exists ~> Final
=============================================================================
