---------------------------- MODULE StatusShipper ----------------------------
(***************************************************************************)
(* The archive's copy of a workflow's status (controller/status.py).  The  *)
(* controller's main thread rewrites status.json after every save of the   *)
(* phases and wakes a daemon thread, which uploads whatever is on disk;    *)
(* at the end of the workflow it uploads the file itself, and exits.  The  *)
(* writer takes no lock; _ship_lock keeps the uploads apart.  A crash      *)
(* takes the pod and its file, and the next pod goes on from what the      *)
(* phases ConfigMap holds, or from nothing when it cannot read that.       *)
(*                                                                         *)
(* A document is a version: how many outcomes it knows.  Shipping that is  *)
(* not configured does nothing, and is not modelled.                       *)
(***************************************************************************)
EXTENDS Integers

CONSTANTS
  MaxVersions,  \* bound on the versions of the phases
  MaxPasses,    \* bound on the passes of the main loop that change no phase
  MaxFaults,    \* bound on failed saves, reads of the ConfigMap, writes and uploads
  MaxCrashes    \* bound on the crashes of the controller's pod

ASSUME ShipperAssumption ==
  /\ MaxVersions \in Nat \ {0} /\ MaxPasses \in Nat
  /\ MaxFaults \in Nat /\ MaxCrashes \in Nat

VARIABLES
  ver,        \* the phases in memory
  saved,      \* what the phases ConfigMap holds
  restored,   \* what this process loaded
  file,       \* status.json: Absent, Torn, or a version
  remote,     \* the archive's copy, likewise
  event,      \* _ship_event
  lock,       \* who holds _ship_lock
  main,       \* what the main thread is doing
  shipper,    \* what the shipper thread is doing
  read,       \* read[t]: what t's s5cmd has read
  shipped,    \* newest version an upload of this process has put
  newest,     \* newest version an upload of any process has put
  unsure,     \* the last write or the upload at the exit has failed
  lost,       \* a save has failed, or a new process could not read the phases
  passes, faults, crashes

phases == <<ver, restored, saved, lost, passes>>
upload == <<lock, read, shipped, newest, remote>>
shipperVars == <<phases, main, file, event, shipper, upload, unsure, faults, crashes>>

Versions == 1..MaxVersions
Absent == 0
Torn == -1
Documents == {Absent, Torn} \union Versions
Threads == {"main", "shipper"}
Nobody == "nobody"
MainStates == {"down", "bootWrite", "bootDump", "bootSignal", "boot",
               "write", "dump", "signal", "work",
               "flush", "flushDump", "ship", "upload", "done", "exited"}
ShipperStates == {"none", "wait", "clear", "ship", "upload"}

ShipperInit ==
  /\ ver = 1 /\ saved = 1 /\ restored = 1
  /\ file = Absent /\ remote = Absent
  /\ event = FALSE /\ lock = Nobody
  /\ main = "bootWrite" /\ shipper = "none"
  /\ read = [t \in Threads |-> Absent] /\ shipped = 0 /\ newest = 0
  /\ unsure = FALSE /\ lost = FALSE /\ passes = 0 /\ faults = 0 /\ crashes = 0

Fault == faults < MaxFaults /\ faults' = faults + 1

-----------------------------------------------------------------------------
(* The main thread.  A new process writes the document of what it loaded,  *)
(* then goes through the loop: a pass saves the phases, changed or not,    *)
(* and the save may fail; write_status persists the file and signals.      *)

Advance ==
  /\ main \in {"boot", "work"} /\ main' = "write"
  /\ \/ ver < MaxVersions /\ ver' = ver + 1 /\ UNCHANGED passes
     \/ main = "boot" /\ UNCHANGED <<ver, passes>>
     \/ main = "work" /\ passes < MaxPasses /\ passes' = passes + 1 /\ UNCHANGED ver
  /\ \/ saved' = ver' /\ UNCHANGED <<lost, faults>>
     \/ Fault /\ lost' = TRUE /\ UNCHANGED saved
  /\ UNCHANGED <<restored, file, event, shipper, upload, unsure, crashes>>

\* open(_STATUS_PATH, "w") truncates the file; json.dump then fills it, or
\* fails and leaves what it has written.
_persist_status_file(from, to, next) ==
  /\ UNCHANGED <<phases, event, shipper, upload, crashes>>
  /\ \/ main = from /\ main' = to /\ file' = Torn /\ UNCHANGED <<unsure, faults>>
     \/ /\ main = to /\ main' = next
        /\ \/ file' = ver /\ UNCHANGED <<unsure, faults>>
           \/ Fault /\ UNCHANGED file /\ unsure' = (next = "ship" \/ unsure)

Persist ==
  \/ _persist_status_file("bootWrite", "bootDump", "bootSignal")
  \/ _persist_status_file("write", "dump", "signal")

Signal ==
  /\ \/ main = "bootSignal" /\ main' = "boot"
     \/ main = "signal" /\ main' = "work"
  /\ event' = TRUE
  /\ shipper' = IF shipper = "none" THEN "wait" ELSE shipper
  /\ UNCHANGED <<phases, file, upload, unsure, faults, crashes>>

\* Every step may be settled at any version.
Finish ==
  /\ main = "work" /\ main' = "flush"
  /\ UNCHANGED <<phases, file, event, shipper, upload, unsure, faults, crashes>>

flush_status == _persist_status_file("flush", "flushDump", "ship")

\* The daemon thread and its upload end with the process.
Exit ==
  /\ main = "done" /\ main' = "exited"
  /\ shipper' = "none" /\ event' = FALSE /\ lock' = Nobody
  /\ UNCHANGED <<phases, file, read, shipped, newest, remote,
                 unsure, faults, crashes>>

-----------------------------------------------------------------------------
(* _ship_once: s5cmd reads the file and puts the object, under _ship_lock; *)
(* it may fail, or be killed when it takes too long, before or after the   *)
(* put.  The result is not looked at.                                      *)

\* Mutant: uploads not kept apart.
TakeLock_none(t) == UNCHANGED lock

TakeLock(t) == lock = Nobody /\ lock' = t

Newer(v, w) == IF v > w THEN v ELSE w

StartUpload(t) ==
  /\ TakeLock(t)
  /\ read' = [read EXCEPT ![t] = file]
  /\ UNCHANGED <<phases, file, event, remote, shipped, newest, crashes, faults, unsure>>

EndUpload(t) ==
  /\ lock' = IF lock = t THEN Nobody ELSE lock
  /\ read' = [read EXCEPT ![t] = Absent]
  /\ \/ /\ remote' = read[t]
        /\ shipped' = Newer(read[t], shipped) /\ newest' = Newer(read[t], newest)
        /\ UNCHANGED <<unsure, faults>>
     \/ /\ Fault /\ unsure' = (t = "main" \/ unsure)
        /\ UNCHANGED <<remote, shipped, newest>>
  /\ UNCHANGED <<phases, file, event, crashes>>

\* Mutant: the last document left to the shipper thread.
ShipAtExit_async ==
  /\ main = "ship" /\ main' = "done" /\ event' = TRUE
  /\ UNCHANGED <<phases, file, shipper, upload, unsure, faults, crashes>>

ShipAtExit ==
  /\ UNCHANGED shipper
  /\ \/ main = "ship" /\ main' = "upload" /\ StartUpload("main")
     \/ main = "upload" /\ main' = "done" /\ EndUpload("main")

Wake ==
  /\ shipper = "wait" /\ event /\ shipper' = "clear"
  /\ UNCHANGED <<phases, main, file, event, upload, unsure, faults, crashes>>

\* Mutant: the signal cleared once the upload is done.
_shipper_loop_late ==
  /\ UNCHANGED main
  /\ \/ shipper = "clear" /\ shipper' = "ship"
        /\ UNCHANGED <<phases, file, event, upload, unsure, faults, crashes>>
     \/ shipper = "ship" /\ shipper' = "upload" /\ StartUpload("shipper")
     \/ shipper = "upload" /\ shipper' = "late" /\ EndUpload("shipper")
     \/ shipper = "late" /\ shipper' = "wait" /\ event' = FALSE
        /\ UNCHANGED <<phases, file, upload, unsure, faults, crashes>>

_shipper_loop ==
  /\ UNCHANGED main
  /\ \/ /\ shipper = "clear" /\ shipper' = "ship" /\ event' = FALSE
        /\ UNCHANGED <<phases, file, upload, unsure, faults, crashes>>
     \/ shipper = "ship" /\ shipper' = "upload" /\ StartUpload("shipper")
     \/ shipper = "upload" /\ shipper' = "wait" /\ EndUpload("shipper")

-----------------------------------------------------------------------------
(* The pod dies, and its replacement loads the phases.  A read that fails  *)
(* is only logged: every step is then pending again.                       *)

Crash ==
  /\ crashes < MaxCrashes /\ crashes' = crashes + 1
  /\ main \notin {"down", "exited"} /\ main' = "down" /\ shipper' = "none"
  /\ file' = Absent /\ event' = FALSE /\ lock' = Nobody
  /\ read' = [t \in Threads |-> Absent] /\ unsure' = FALSE
  /\ UNCHANGED <<phases, shipped, newest, remote, faults>>

Restart ==
  /\ main = "down" /\ main' = "bootWrite"
  /\ \/ ver' = saved /\ UNCHANGED <<lost, faults>>
     \/ Fault /\ ver' = 1 /\ lost' = TRUE
  /\ restored' = ver' /\ shipped' = 0
  /\ UNCHANGED <<saved, passes, file, event, shipper, lock, read, remote, newest, unsure, crashes>>

Stopped == main = "exited" /\ UNCHANGED shipperVars

MainThread == Persist \/ Signal \/ Finish \/ flush_status \/ ShipAtExit \/ Exit
ShipperThread == Wake \/ _shipper_loop

ShipperNext == Advance \/ MainThread \/ ShipperThread \/ Crash \/ Restart \/ Stopped

\* The threads run.  Nothing makes the phases change, or the workflow end.
Fairness ==
  /\ WF_shipperVars(Persist \/ Signal \/ flush_status \/ ShipAtExit \/ Exit)
  /\ WF_shipperVars(ShipperThread)

ShipperSpec == ShipperInit /\ [][ShipperNext]_shipperVars /\ Fairness

-----------------------------------------------------------------------------
\* The document a client builds a workflow's state from, once the workflow has
\* left the cluster; a torn one is as good as none.
read_status_doc == IF remote \in Versions THEN remote ELSE Absent

ShipperTypeOK ==
  /\ ver \in Versions /\ saved \in Versions /\ restored \in Versions
  /\ file \in Documents /\ remote \in Documents /\ read \in [Threads -> Documents]
  /\ shipped \in 0..MaxVersions /\ newest \in 0..MaxVersions
  /\ event \in BOOLEAN /\ unsure \in BOOLEAN /\ lost \in BOOLEAN
  /\ lock \in Threads \union {Nobody}
  /\ main \in MainStates /\ shipper \in ShipperStates
  /\ passes \in 0..MaxPasses /\ faults \in 0..MaxFaults /\ crashes \in 0..MaxCrashes

(* When the controller has exited, the document that clients read for good *)
(* is its last one, whatever was uploaded at the same time and whatever    *)
(* crashed before, unless that last write or upload failed (flush_status,  *)
(* get_workflow_state).                                                    *)
FinalIsArchived == main = "exited" /\ ~unsure => read_status_doc = ver

(* A whole document put in the archive is never older than one this        *)
(* process has put there before, nor than the phases it has loaded; and,   *)
(* until a save fails or a new process cannot read the phases, never older *)
(* than one any process has put.  After that the archive does go back: the *)
(* new process ships the older phases it starts from (_ship_lock,          *)
(* save_phases before write_status, load_phases).                          *)
ArchiveNeverGoesBack ==
  [][remote' # remote /\ remote' \in Versions =>
       /\ remote' >= shipped /\ remote' >= restored
       /\ lost \/ remote' >= newest]_shipperVars

(* What write_status has put on disk, or something newer, reaches the      *)
(* archive while the process lives: a signal that comes during an upload   *)
(* is not lost (_shipper_loop).  Something that fails in the meantime may  *)
(* prevent it: the result of an upload is not looked at, and one that      *)
(* fails is tried again only after the next write.                         *)
LatestIsUploaded ==
  \A v \in Versions, f \in 0..MaxFaults :
    (main \in {"bootSignal", "signal"} /\ file = v /\ faults = f)
      ~> (shipped >= v \/ faults > f \/ main \in {"down", "exited"})
=============================================================================
