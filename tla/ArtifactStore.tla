---------------------------- MODULE ArtifactStore ----------------------------
(***************************************************************************)
(* What a workflow leaves in the datastore and in the cluster, from its    *)
(* launch (launch_k8s_workflow.py) to the sweeps of later launches that    *)
(* reclaim it (ttl.py) or to `chain delete` (k8s_workflow.py).             *)
(* Every launch is a process of its own on somebody's machine; its sweep   *)
(* is a second thread of that process.  They share only the bucket and the *)
(* cluster, and neither has a lock.                                        *)
(* Workflow ids are random; two launches are taken to draw different ones, *)
(* so a workflow is named by its launch.                                   *)
(***************************************************************************)
EXTENDS Integers, Functions

CONSTANTS
  Jobs,           \* the workflows
  Ttl,            \* artifact_ttl of each, in ticks of the clock
  SecretMaxAge,   \* max_age_days, in ticks
  HasSecret,      \* those with a Secret of their own (credentials or `secrets`)
  External,       \* whether datastore_kubernetes_secret is set
  TicksPerDay,
  MaxClock, MaxFaults   \* bounds: the clock's last tick, calls that fail

Never == 0 - 1

ASSUME StoreAssumption ==
  /\ HasSecret \subseteq Jobs /\ (~External => HasSecret = Jobs)
  /\ TicksPerDay \in Nat \ {0} /\ SecretMaxAge \in Nat /\ MaxClock \in Nat
  /\ MaxFaults \in Nat /\ External \in BOOLEAN
  /\ Ttl \in [Jobs -> Nat]

VARIABLES
  now,         \* the clock
  stage,       \* the call each launch makes next
  objects,     \* the objects under each workflow's s3_path
  markers,     \* the ttl index: <<expiry date, workflow>>
  sweep,       \* the sweep thread of each launch
  secret,      \* when each workflow's Secret was created; Never: there is none
  controller,  \* each controller JobSet
  faults,      \* calls that may still fail
  markedAt,    \* history: when write_ttl_marker ran
  late         \* history: objects written when no marker was left, or after
               \* a sweep that has yet to end had listed the workflow

bucket == <<objects, markers, markedAt, late>>
cluster == <<secret, controller>>
vars == <<now, stage, bucket, sweep, cluster, faults>>

\* data/version goes with .sentinel, and the pods' logs with status.json.
Objects == {".sentinel", "assets.tar.gz", "status.json"}
Today == now \div TicksPerDay
Expiry(j) == (markedAt[j] + Ttl[j]) \div TicksPerDay
Marked(j) == \E m \in markers : m[2] = j

Stages == {"idle", "sentinel", "marker", "assets",
           "secret", "create", "join", "launched", "raised", "killed"}
SweepSteps == {"idle", "markers", "list", "delete", "unmark", "done"}
Thread(step, day, todo, listing) ==
  [step |-> step, day |-> day, todo |-> todo, listing |-> listing]
NoListing == [m \in {} |-> {}]
Idle == Thread("idle", 0, {}, NoListing)
Done == Thread("done", 0, {}, NoListing)

Init ==
  /\ now = 0
  /\ stage = [j \in Jobs |-> "idle"]
  /\ objects = [j \in Jobs |-> {}] /\ markers = {}
  /\ sweep = [j \in Jobs |-> Idle]
  /\ secret = [j \in Jobs |-> Never]
  /\ controller = [j \in Jobs |-> "none"]
  /\ faults = MaxFaults
  /\ markedAt = [j \in Jobs |-> Never] /\ late = [j \in Jobs |-> {}]

Tick ==
  /\ now < MaxClock
  /\ now' = now + 1
  /\ UNCHANGED <<stage, bucket, sweep, cluster, faults>>

\* A call to the object store or to Kubernetes fails.
Fault == faults > 0 /\ faults' = faults - 1

-----------------------------------------------------------------------------
(* The object store.                                                       *)

BeingSwept(j) == \E c \in Jobs : \E m \in DOMAIN sweep[c].listing : m[2] = j

Put(j, o) ==
  /\ objects' = [objects EXCEPT ![j] = @ \union {o}]
  /\ late' = [late EXCEPT ![j] =
       IF markedAt[j] # Never /\ (~Marked(j) \/ BeingSwept(j))
       THEN @ \union {o} ELSE @ \ {o}]

\* What running pods upload: the controller its status.json, the log sidecars
\* the logs.
PodWrites(j) ==
  /\ controller[j] \in {"running", "condemned"}
  /\ Put(j, "status.json")
  /\ UNCHANGED <<now, stage, markers, markedAt, sweep, cluster, faults>>

-----------------------------------------------------------------------------
(* launch_k8s_workflow, one action per call that changes state.            *)

Goto(j, s) == stage' = [stage EXCEPT ![j] = s]
SweepGoes(c, s) == sweep' = [sweep EXCEPT ![c] = s]

\* The sweep starts first; staging the code, nix evaluation and reading the
\* credentials are local, and may raise.
Start(j) ==
  /\ stage[j] = "idle"
  /\ Goto(j, "sentinel") \/ Goto(j, "raised")
  /\ SweepGoes(j, Thread("markers", Today, {}, NoListing))
  /\ UNCHANGED <<now, bucket, cluster, faults>>

\* The object each stage uploads, and the stage after it.
Uploads == [sentinel |-> ".sentinel", assets |-> "assets.tar.gz"]
After == [sentinel |-> "marker", assets |-> "secret"]

Upload(j) ==
  /\ stage[j] \in DOMAIN Uploads
  /\ Put(j, Uploads[stage[j]])
  /\ Goto(j, After[stage[j]])
  /\ UNCHANGED <<now, markers, markedAt, sweep, cluster, faults>>

write_ttl_marker(j) ==
  /\ stage[j] = "marker"
  /\ markedAt' = [markedAt EXCEPT ![j] = now]
  /\ markers' = markers \union {<<(now + Ttl[j]) \div TicksPerDay, j>>}
  /\ Goto(j, "assets")
  /\ UNCHANGED <<now, objects, late, sweep, cluster, faults>>

\* secret_check_future.result() raises: the user's Secret is missing or lacks a
\* key.  The check is a thread that writes nothing; only its result is modelled.
CheckFails(j) ==
  /\ stage[j] = "secret" /\ External
  /\ Goto(j, "raised")
  /\ UNCHANGED <<now, bucket, sweep, cluster, faults>>

\* Mutant: the cutoff is not applied.
Stale_all == {k \in Jobs : secret[k] # Never}

Stale == {k \in Jobs : secret[k] # Never /\ secret[k] < now - SecretMaxAge}

\* The workflow's own Secret is created; then those of any workflow created
\* before the cutoff are deleted.  A list or a delete that fails is logged.
_create_secrets(j) ==
  /\ stage[j] = "secret"
  /\ \E kept \in SUBSET Stale :
       /\ secret' = [k \in Jobs |-> IF k \in Stale \ kept THEN Never
                                  ELSE IF k = j /\ j \in HasSecret THEN now ELSE secret[k]]
       /\ IF kept = {} THEN UNCHANGED faults ELSE Fault
  /\ Goto(j, "create")
  /\ UNCHANGED <<now, bucket, sweep, controller>>

\* The JobSet is created; the answer may be lost all the same.
CreateController(j) ==
  /\ stage[j] = "create"
  /\ controller' = [controller EXCEPT ![j] = "running"]
  /\ \/ Goto(j, "join") /\ UNCHANGED faults
     \/ Goto(j, "raised") /\ Fault
  /\ UNCHANGED <<now, bucket, sweep, secret>>

\* sweep_future.result(): whatever the sweep raised is logged.
Join(j) ==
  /\ stage[j] = "join"
  /\ sweep[j].step = "done"
  /\ Goto(j, "launched")
  /\ UNCHANGED <<now, bucket, sweep, cluster, faults>>

\* A call of the launch fails and the launch raises; nothing is undone.  The
\* interpreter waits for the sweep's thread before it exits.
Raise(j) ==
  /\ stage[j] \in DOMAIN Uploads \union {"marker", "secret", "create"}
  /\ Fault
  /\ Goto(j, "raised")
  /\ UNCHANGED <<now, bucket, sweep, cluster>>

\* The process is killed, with its sweep.
Kill(j) ==
  /\ stage[j] \notin {"idle", "launched", "killed"}
  /\ Fault
  /\ Goto(j, "killed")
  /\ sweep' = [sweep EXCEPT ![j] = Done]
  /\ UNCHANGED <<now, bucket, cluster>>

LaunchStep(j) ==
  \/ Upload(j) \/ write_ttl_marker(j) \/ CheckFails(j)
  \/ _create_secrets(j) \/ CreateController(j) \/ Join(j)

-----------------------------------------------------------------------------
(* sweep_expired, in the thread of launch c.                               *)

\* An error leaves the sweep where it is; there is no second try before the
\* next launch.
SweepRaises(c) ==
  /\ sweep[c].step = "markers"
  /\ Fault
  /\ SweepGoes(c, Done)
  /\ UNCHANGED <<now, stage, bucket, cluster>>

\* Mutant: a date counts as passed on the day before.
_collect_expired_jobs_early(c) ==
  /\ sweep[c].step = "markers"
  /\ LET expired == {m \in markers : m[1] <= sweep[c].day + 1}
     IN  SweepGoes(c, IF expired = {} THEN Done
                      ELSE Thread("list", sweep[c].day, expired, NoListing))
  /\ UNCHANGED <<now, stage, bucket, cluster, faults>>

\* The markers under the dates that have passed; the listing of the dates and
\* those of each date are taken as one read.
_collect_expired_jobs(c) ==
  /\ sweep[c].step = "markers"
  /\ LET expired == {m \in markers : m[1] <= sweep[c].day}
     IN  SweepGoes(c, IF expired = {} THEN Done
                      ELSE Thread("list", sweep[c].day, expired, NoListing))
  /\ UNCHANGED <<now, stage, bucket, cluster, faults>>

\* One job's listing is added; what is left to list.
Add(c, m, found) == [n \in DOMAIN sweep[c].listing \union {m} |->
                       IF n = m THEN found ELSE sweep[c].listing[n]]
Further(c, m, listing) ==
  LET rest == sweep[c].todo \ {m}
  IN  SweepGoes(c, Thread(IF rest = {} THEN "delete" ELSE "list", sweep[c].day, rest, listing))

\* Mutant: a job whose list fails counts as a job without artifacts.
ListArtifacts_empty(c) ==
  /\ sweep[c].step = "list"
  /\ \E m \in sweep[c].todo :
       \/ Further(c, m, Add(c, m, objects[m[2]])) /\ UNCHANGED faults
       \/ Further(c, m, Add(c, m, {})) /\ Fault
  /\ UNCHANGED <<now, stage, bucket, cluster>>

\* One job's artifacts are listed; a job whose list fails is left out.
ListArtifacts(c) ==
  /\ sweep[c].step = "list"
  /\ \E m \in sweep[c].todo :
       \/ Further(c, m, Add(c, m, objects[m[2]])) /\ UNCHANGED faults
       \/ Further(c, m, sweep[c].listing) /\ Fault
  /\ UNCHANGED <<now, stage, bucket, cluster>>

all_artifacts(c) == UNION {{m[2]} \X sweep[c].listing[m] : m \in DOMAIN sweep[c].listing}

\* delete_many over the artifacts of all listed jobs.  Some may be refused, and
\* their jobs keep their markers; or the call raises on the way and no marker is
\* touched.
DeleteArtifacts(c) ==
  /\ sweep[c].step = "delete"
  /\ \E failed \in SUBSET all_artifacts(c) :
       LET deleted == all_artifacts(c) \ failed
           all == sweep[c].listing
           gone == {m \in DOMAIN all : ({m[2]} \X all[m]) \cap failed = {}}
       IN  /\ objects' = [j \in Jobs |-> {o \in objects[j] : <<j, o>> \notin deleted}]
           /\ late' = [j \in Jobs |-> {o \in late[j] : <<j, o>> \notin deleted}]
           /\ \/ /\ SweepGoes(c, Thread("unmark", sweep[c].day, {}, Restrict(all, gone)))
                 /\ IF failed = {} THEN UNCHANGED faults ELSE Fault
              \/ SweepGoes(c, Done) /\ Fault
  /\ UNCHANGED <<now, stage, markers, markedAt, cluster>>

\* delete_many over the markers, whose refusals nobody looks at.
DeleteMarkers(c) ==
  /\ sweep[c].step = "unmark"
  /\ \E kept \in SUBSET DOMAIN sweep[c].listing :
       /\ markers' = markers \ (DOMAIN sweep[c].listing \ kept)
       /\ IF kept = {} THEN UNCHANGED faults ELSE Fault
  /\ SweepGoes(c, Done)
  /\ UNCHANGED <<now, stage, objects, markedAt, late, cluster>>

SweepStep(c) ==
  \/ _collect_expired_jobs(c) \/ ListArtifacts(c)
  \/ DeleteArtifacts(c) \/ DeleteMarkers(c)

-----------------------------------------------------------------------------
(* The end of a workflow.                                                  *)

\* The controller exits and its JobSet is removed some time after.
Finish(j) ==
  /\ controller[j] \in {"running", "condemned"}
  /\ controller' = [controller EXCEPT ![j] = "gone"]
  /\ UNCHANGED <<now, stage, bucket, sweep, secret, faults>>

\* K8sWorkflow.delete: the JobSets, the controller's JobSet once more, and the
\* Secret; a call that fails is logged.  The artifacts stay for a sweep.
Delete(j) ==
  /\ stage[j] = "launched" /\ controller[j] = "running"
  /\ \/ /\ controller' = [controller EXCEPT ![j] = "gone"]
        /\ secret' = [secret EXCEPT ![j] = Never]
        /\ UNCHANGED faults
     \/ /\ Fault
        /\ \/ controller' = [controller EXCEPT ![j] = "gone"] /\ UNCHANGED secret
           \/ /\ controller' = [controller EXCEPT ![j] = "condemned"]
              /\ secret' = [secret EXCEPT ![j] = Never]
  /\ UNCHANGED <<now, stage, bucket, sweep>>

Next ==
  \/ Tick
  \/ \E j \in Jobs :
       \/ Start(j) \/ LaunchStep(j) \/ Raise(j) \/ Kill(j)
       \/ SweepStep(j) \/ SweepRaises(j)
       \/ PodWrites(j) \/ Finish(j) \/ Delete(j)

Spec == Init /\ [][Next]_vars

-----------------------------------------------------------------------------
(* Properties.                                                             *)

TypeOK ==
  /\ now \in 0..MaxClock
  /\ stage \in [Jobs -> Stages]
  /\ objects \in [Jobs -> SUBSET Objects]
  /\ markers \subseteq Nat \X Jobs
  /\ \A c \in Jobs :
       /\ sweep[c].step \in SweepSteps /\ sweep[c].day \in 0..MaxClock
       /\ sweep[c].todo \subseteq Nat \X Jobs
       /\ DOMAIN sweep[c].listing \subseteq Nat \X Jobs
       /\ \A m \in DOMAIN sweep[c].listing : sweep[c].listing[m] \subseteq Objects
  /\ secret \in [Jobs -> 0..MaxClock \union {Never}]
  /\ controller \in [Jobs -> {"none", "running", "condemned", "gone"}]
  /\ faults \in 0..MaxFaults
  /\ markedAt \in [Jobs -> 0..MaxClock \union {Never}]
  /\ late \in [Jobs -> SUBSET Objects]
  /\ \A j \in Jobs : late[j] \subseteq objects[j]

\* Whatever launches fail or are killed, and whatever sweeps overlap and fail
\* half-way, an object is in reach of a sweep: a workflow without its marker
\* has only what was written too late for the sweep that removed it, and a
\* launch that never wrote one leaves no more than the files that reserve its
\* id (ttl.py:76-108, launch_k8s_workflow.py:538-540).
NothingOrphaned ==
  \A j \in Jobs :
     ~Marked(j) => objects[j] \subseteq
       IF markedAt[j] = Never THEN {".sentinel"} ELSE late[j]

\* A sweep deletes an artifact only when the date of its workflow's own ttl
\* has come, also when it runs beside that workflow's launch
\* (ttl.py:62-74).
DeletedOnlyWhenExpired ==
  [][\A j \in Jobs : objects[j] \ objects'[j] # {} =>
        markedAt[j] # Never /\ Expiry(j) <= Today]_vars

\* A controller that runs, and that nobody asked to delete, finds its assets
\* until they expire and its Secret until it is stale: no other launch, sweep
\* or clean-up takes them away, and launch creates the controller last
\* (launch_k8s_workflow.py:538-585, 112-137).
RunningHasWhatItNeeds ==
  \A j \in Jobs : controller[j] = "running" =>
     /\ "assets.tar.gz" \in objects[j] \/ Expiry(j) <= Today
     /\ j \in HasSecret => secret[j] # Never \/ now - markedAt[j] > SecretMaxAge
=============================================================================
