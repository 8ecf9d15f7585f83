# seekr-chain in TLA+

seekr-chain runs a *workflow*, a DAG of steps, on Kubernetes: the client
uploads the code and creates one **controller** JobSet; the controller creates
a JobSet for each step when its `depends_on` conditions hold, watches them,
tears the workflow down when a required step fails, and publishes the phases of
the steps in a ConfigMap and in `status.json`. Clients (`wait`, `chain status`,
`follow`, `cancel`) talk to the API server only, never to the controller. A role
may run in a nix closure instead of an image's own files: the submit evaluates
it, build steps make it, and each node pulls it into a shared `/nix`.
A second backend runs the same workflow files locally, without a cluster.

This directory holds TLA+ modules translated from that code, the TLC
configurations that check them, and proofs checked by TLAPS. Paths below are
relative to `src/src/seekr_chain/`; `K` is `backends/k8s` and `C` is
`K/resources/controller`. `PROJECT.json` maps each definition to its lines.

## 1. Inventory

| Component | Code | State it keeps | What is hard |
|---|---|---|---|
| DAG rules | `C/phases.py` | none (pure functions over phases and exit codes) | conditions on success, failure, end and exit codes; dead ends; what a teardown spares |
| Controller | `C/watch.py`, `C/scheduling.py` | phases, exit codes, the JobSets it knows, the watch position | crashes between any two API calls, replies that are lost, stale and repeated events, 410, faults in the middle of a handler |
| Phases ConfigMap | `C/phases.py` | phases, timings, exit codes, optional steps | best-effort saves; a restart starts from the last accepted one |
| API server, JobSet operator, Kueue | external | JobSets, their history, watch streams | order of a stream's first list, suspended JobSets, pods that end while being suspended |
| `chain cancel` | `K/k8s_workflow.py` | the list it works through | not atomic, races with submissions and ends |
| Status rollup | `status_model.py`, `C/status.py`, `K/workflow_state.py` | none | three ways to compute one status |
| Status shipping | `C/status.py` | scratch file, event, uploader thread | rewriting a file while it is uploaded, the last upload |
| Watched state | `K/watched_state.py` | one cache and one thread per kind, `_dirty`, `_changed`, failure counts | independent streams, lost wake-ups, giving up |
| `wait()`, `get_status()` | `wait.py`, `K/k8s_workflow.py`, `K/workflow_state.py` | last status seen | two reads that are not atomic, deleted workflows |
| Step and pod status | `K/workflow_state.py` | none | containers, pods, attempts and the JobSet's own word |
| Step JobSets | `K/jobset.py`, `K/templates/jobset.yaml.j2` | none (the manifest) | which rule matches first, restarts, success policies |
| Launch | `K/launch_k8s_workflow.py` | secrets, assets, TTL marker, JobSet | several creates, each may fail |
| Artifact TTL | `K/ttl.py`, `remote_fs.py` | markers and artifacts in the store | concurrent sweeps, partial deletes |
| Nix, submit side | `nix_resolution.py`, `nix_utils.py`, `K/jobset.py` | memos on a machine and in binary caches, a staging directory, build steps | shared memos, edits during a submit, shared builds |
| Nix, node side | `K/resources/nix-*.sh`, `chain-nix-init.sh` | the node's `/nix`: lock, marker, store, roots; the binary cache | pods that start together, die, pull and collect |
| Pod scripts, logs | `K/resources/chain-entrypoint.sh`, `fluentbit.sh`, `K/parse_logs.py` | three files shared by two containers | start and shutdown order, deletion, kills |
| Local backend | `backends/local/`, `dag.py` | phases of the steps | the same conditions by other rules |
| Packaging | `symlink.py`, `glob_match.py`, `tar_directory.py` | none | include and exclude patterns, pruning |
| Configuration, CLI | `config.py`, `cli.py` | none | validation of the DAG |

Interactions. The controller calls the API server (create, suspend patch,
ConfigMap reads and patches, pod list) and receives the events of *all* JobSets
of the workflow, its own included. `chain cancel` patches the same JobSets. The
clients' watchers read the controller's JobSet and the ConfigMap through two
independent streams. Nothing but the ConfigMap survives a crash of the
controller's pod, except the worker JobSets themselves, whose names make a
second create answer 409. `status.json` survives the deletion of everything.
In a worker pod, main and the log sidecar talk through `.hb`, `.shutdown` and
`.logs_flushed`. The pods of a node share a hostPath `/nix` and nothing else;
submits share memos and binary caches.

What makes each component correct, in a sentence:

- *Controller*: no step runs before the successes it needs, or twice, whatever
  fails; what it believes succeeded did; what it calls skipped never ran; it
  comes to an end, and leaves nothing running.
- *ConfigMap*: an outcome once saved is never taken back.
- *Status*: what is reported after the end is what happened.
- *Watcher*: caches never go back, the reader is woken for all that changes or
  gets an error, and ends when the workflow has.
- *Local backend*: the same workflow file means the same as in the cluster.
- *Launch and TTL*: what a launch leaves, however it ends, is in reach of a
  sweep; no sweep or clean-up takes what a running workflow still may use.
- *Status shipping*: the archive ends with the last document and never goes back.
- *Pods and steps*: logs are shipped, a pod ends, its exit code is its scripts',
  and a step that is called SUCCEEDED did what its policy asks.
- *Nix*: what a started role mounts is in its store, is made from its sources,
  and is not taken away by the pods it shares a node with.

`PROJECT.json` lists the hazards behind these, each at its line.

## 2. Modules

| Module | Models | Lines of code it stands for |
|---|---|---|
| `DagRules` | the pure rules: `dep_satisfied`, `Ready`, `skip_dead_ends`, `reactive_preserve_set`, `apply_failure_teardown`, `steps_needing_exit_codes` | `C/phases.py`, `config.py` 298-330 |
| `Controller` | one workflow in the cluster: the controller process, ConfigMap, JobSets, event history, Kueue, `chain cancel` | `C/watch.py`, `C/scheduling.py`, `C/phases.py`, `K/k8s_workflow.py` 228-254 |
| `StatusReport` (extends `Controller`, `WorkflowState`) | the status reported from what the controller leaves behind | `C/status.py` 46-83, `status_model.py`, `K/workflow_state.py` 476-515, 634-665 |
| `StepRuns` | abstract specification: what the controller promises of its steps | - |
| `MCController` | the DAGs the controller is checked on | - |
| `Controller_proofs` | theorems and proofs | - |
| `StatusWatcher` | `wait()` and `get_status()` over a `ReconnectingWatcher` with two watch threads | `K/watched_state.py`, `wait.py`, `K/k8s_workflow.py` 151-182, `K/workflow_state.py` 793-820 |
| `LocalWorkflow` (instantiates `DagRules`) | the local backend | `backends/local/local_workflow.py`, `dag.py` |
| `MCLocalWorkflow` | every accepted workflow of three steps | `config.py` 719-745 |
| `LocalWorkflow_proofs` | theorems and proofs | - |
| `ArtifactStore` | launches, the artifacts and Secrets they create, the sweeps they run, `chain delete` | `K/launch_k8s_workflow.py`, `K/ttl.py`, `K/job_info.py`, `K/k8s_workflow.py` 193-226, the S3 calls of `remote_fs.py` |
| `MCArtifactStore` | two workflows and their ttls | - |
| `ArtifactStore_proofs` | theorems and proofs | - |
| `StatusShipper` | the status document, its two threads, its archive, crashes of the controller's pod | `C/status.py`, `C/watch.py`, `read_status_doc` |
| `Status_proofs` (extends `StatusWatcher` and `StatusShipper`, which share no variable) | theorems and proofs | - |
| `WorkflowState` | pure operators: the status of a container, a pod, a step | `K/workflow_state.py` 149-400, `status_model.py` |
| `PodLife` | abstract specification: what a step's JobSet may count on from a pod | - |
| `PodRun` (extends `WorkflowState`, implements `PodLife`) | one worker pod, container by container | `K/resources/chain-entrypoint.sh`, `fluentbit.sh`, `K/templates/jobset.yaml.j2` |
| `PodRun_proofs` | theorems and proofs | - |
| `JobSetRun` (extends `PodLife`, `WorkflowState`) | one step: its manifest's policies, run by the Job and JobSet controllers over several attempts | `K/jobset.py` 798-868, 918-992, `config.py` 251-295, 557-573 |
| `JobSetRun_proofs` | theorems and proofs | - |
| `MCJobSetRun` | three configurations of a step | - |
| `NixResolution` | submits that resolve nix roles, and the build steps and steps that follow | `nix_resolution.py`, `nix_utils.py`, `K/jobset.py` 87-169 |
| `FileSelection` | pure operators: which files of `code.path` are staged | `symlink.py`, `glob_match.py` |
| `Staging` (extends both) | what each submit stages, while its code is edited | - |
| `MCNixResolution` | workflows, machines, caches; trees and patterns | - |
| `NixResolution_proofs` (extends `Staging`) | theorems and proofs | - |
| `NixStore` | one node's `/nix` and its binary cache | `K/resources/nix-bootstrap.sh`, `chain-nix-init.sh`, `nix-gc.sh`, `nix-build.sh`, `nix-post-build-hook.sh` |
| `MCNixStore` | two consumers and a builder, four store paths | - |
| `NixStore_proofs` | theorems and proofs | - |

How they compose: `Controller` decides when a step's JobSet is created and sees
it end; `JobSetRun` is the inside of one such JobSet, and `PodRun` the inside of
one of its pods; each layer is checked against what the next one assumes
(`PodRun!KeepsPromise` is `PodLife`, whose actions `JobSetRun` takes for its
pods). `StatusReport` and `StatusShipper` are what remains of a workflow,
`StatusWatcher` how a client follows it. `NixStore` assumes of its consumers'
closures what `NixResolution!ConsumersAreSupplied` shows: they are in the cache.

### Controller

The process is sequential; its `pc` names the API call it is about to make, so
that every interleaving with pods, user and crashes falls between two calls.
One iteration of `main()` is

    Boot -> submit -> save -> [ submit -> settle/cancel -> save -> open watch
              -> { event: settle/cancel -> save -> submit -> save }* ]* -> exit

- `submit_ready_steps` is one create per ready step, in dag order (`cursor`).
  A create is accepted, answers 409 (the JobSet exists: adopted), is rejected
  with nothing stored (429, 5xx), is stored but answered with a 5xx, is denied
  (other 4xx: the step FAILED), or breaks with an error that is no
  `ApiException` and aborts the event handler.
- `skip_dead_ends` and `apply_failure_teardown` change memory only and are one
  step with what precedes them (`SettleAndCancel`). A dead end skips a step,
  which may make another a dead end: `DeadEnds` is the least closed set, which
  is what the code's loop until nothing changes computes.
- The API server keeps `log`, the history of JobSet changes. A stream opened at
  version "" first lists each existing object with its last change, *in any
  order*, and then continues from the end of the history; a stream opened at a
  version continues after it. `rv` is what the code keeps in
  `resource_version`: the version of the last event seen, whatever it was.
- `js[s]` is `none`, `active`, `suspended`, `Completed` or `Failed`. A suspended
  JobSet may still be marked with the outcome of pods that were just ending.
- `Crash` loses everything but the ConfigMap and the cluster; after
  `MaxRestarts` restarts the controller's JobSet is Failed (`dead`).
- `steps` and their `optional`, conditions and exit codes are constants.

Faults are named in `FaultKinds` (a configuration chooses which may happen) and
their number is bounded by `MaxFaults`: `reject`, `lostReply`, `deny`,
`transport`, `saveFail`, `readFail`, `patchFail`, `captureFail`, `watchFail`,
`expire`. `FaultOnExisting` says whether a create of a JobSet that exists may
fail before it is answered with 409.

### StepRuns

The abstract specification knows only the runs of steps and what is `learned`:
a step starts only when all successes it needs are learned, only real successes
are learned, a run ends once, and what was learned may be forgotten. The
refinement mapping (`Promise` in `Controller`) maps a JobSet's state to its run
and the phases *in memory* to `learned`, so that a crash forgets.

### StatusWatcher

Two objects (the controller's JobSet and the phases ConfigMap) have histories;
each has a watch thread with a cache, a version to resume from and a failure
count; the consumer is `watch_controller_status` as `wait()` drives it, or a
single `get_status()`. The steps are cut where the code takes or releases the
lock or touches an `Event`: `_apply_event` is `Apply` (under the lock) then
`Notify` (`_changed.set()`); `_record_failure` is followed by `Escalate`
(`_on_fatal_logged`, outside the lock); `wait_for_update` is `Woken` (wait and
clear: no other thread clears) then `RaiseIfFatal`; `latest()` is `Read`.
Objects' contents are abstracted to what the projection tells apart: the
JobSet's state, and whether some step is canceled, or else a required one
failed, in the ConfigMap.

### LocalWorkflow

Kahn's algorithm, one dequeue per step, then the loop over the sorted steps
with its own `dep_satisfied` and its own teardown rule. The workflow is a
variable chosen by `Init`, so that one run covers all of them. `Rules` is
`DagRules` with the workflow's conditions, for comparison.

### ArtifactStore

Each launch is a process (`stage`: the call it makes next) with a second thread,
its sweep (`sweep`), started first and joined last:

    launch: sentinel -> marker -> assets -> secret -> create -> join
    sweep:  markers -> list (one job at a time) -> delete -> unmark

They share the bucket (`objects`, `markers`) and the cluster (`secret`,
`controller`). Every call may fail, a launch may be killed between any two, and
a sweep's batch delete may be refused for any part of what was listed, or break
off with any part done. `markedAt` and `late` are history: `late` holds what was
written after a sweep listed the workflow, or after its marker was gone.

Abstractions: workflow ids are different (the code draws random ones and looks
for an existing one); `data/version` goes with the sentinel and the pods' logs
with `status.json`; the listings of the ttl index are one read; the clock is in
ticks, `TicksPerDay` of them to a date, because `write_ttl_marker` cuts the
expiry to a date. So a ttl expires up to a day before "on or after now +
artifact_ttl" (`ttl.py:31`) and, under a day, perhaps while the launch that
wrote it runs: `RunningHasWhatItNeeds` claims the assets only until that date,
and `DeletedOnlyWhenExpired` is about dates too.
What the code does leave behind, and the properties therefore allow: the
sentinel of a launch that fails before its marker, and whatever a pod uploads
too late. Secrets older than `SecretMaxAge` (7 days) are deleted also when their
workflow runs; `docs/guides/secrets.md:91` says so.

### StatusShipper

A document is the version of the phases in it, `Absent` or `Torn`. The main
thread opens the file (`open(.., "w")` truncates: `Torn`), fills it, sets the
event, and goes on; a pass of its loop may change no phase, and saves and writes
all the same. At the end it writes once more, uploads under `_ship_lock`
and exits, which ends the daemon thread wherever it is. An upload reads the file
in one step and puts it in another, so that the writer may run in between.
A crash takes file, event and threads. The next process loads what the ConfigMap
holds, which is older if a save was lost, or, if the read fails, starts with
every step pending (`ver' = 1`); it writes that document at once
(`bootWrite`), before it looks at any step. History: `shipped` is the newest
version this process has put, `newest` the newest any process has put, `lost`
whether a save or such a read has ever failed. Without a configured remote
nothing is shipped: not modelled.

### PodLife, PodRun, WorkflowState, JobSetRun

`PodRun` has one record for the pod: the kubelet's state and exit code of each
container, the entrypoint's place (`pc`), the sidecar's, the three files of the
shared volume, whether there is output to upload. `before`, `main` and `after`
run in this order; `SCRIPT_PID` is set a step after the script starts (`known`),
and a TERM in between finds nothing to forward. The preStop hook, the TERM and
the end of the grace period are `Delete`, `terminate`/`SidecarTerm` and
`GraceOver`. Ages of files are abstracted: `.hb` may be stale once main has
ended, since the entrypoint touches it as long as it runs, and every timeout may
pass, since nothing bounds how slow the other container is. `fluent` says whether
fluent-bit has died or given an upload up; `monitor_loop` and
`shutdown_fluentbit` look at neither, and touch `.logs_flushed` and exit with 0
all the same. `Life` maps the pod
to the few facts of `PodLife`, which `JobSetRun` takes for the pods of a step.

`JobSetRun` runs the manifest of a step, one pod to a role: the Job controller's
`podFailurePolicy` and the JobSet controller's `failurePolicy` and
`successPolicy` are external and modelled from their documentation as the code
relies on it (the first rule that matches; restart when none does; a job with
backoffLimit 0). A restart makes a new attempt, whose pods are created when
those of the old one are gone. `WorkflowState` is what `chain status` says of
all that.

### NixResolution, FileSelection

Each submit resolves its roles one after the other: fingerprint, memo lookup
(the machine's, then the binary cache's), and on a miss copy, evaluate and
remember; then it asks the store, and collects the builds that are needed. The
steps are cut at each read of the user's code and each call, because another
submit may write a memo and the user may edit the code in between; `digest` is
the first fingerprint and `root` the directory of the copy, named by the second.
The binary caches are sets of <<closure, store>>. The cluster's part is only
what the properties need: a build step checks out what was staged under its
digest and pushes what comes of it, a step starts when its builds have
succeeded. What the memo held before the first submit is empty: two submits
fill it for each other.

`FileSelection` is a set of pure operators on paths as sequences of names. A
pattern is a sequence of components of any length, each a name, `*`, `**` or
`*.py`, with or without a slash at either end; `fnmatch` divides a path into the
pieces that the components cover, `_expand_globstar` keeps or drops each `**`.
`_iter_included_files` is the walk that prunes; it is compared with
`_should_include`, asked of every file. `Staging` says which tree each submit of
`NixResolution` walks, before and after its user's edit.

### NixStore

`pc` names the script's next call, from the marker's test to the main container
(a consumer) or the end (a builder). nix's own database makes the adding of one
path, a root and a deletion atomic. `toolchain` stands for one file that
`cp -a -u` copies: absent, torn or whole. `waitsFor` remembers whose lock a pod
saw when it began to wait: 300 s are more than a copy takes, so the wait ends
by itself only when that pod is no longer copying, unless a fault makes it slow.
The measured size is the one of before the pull when nothing was fetched.

A builder goes through `nix-build.sh` a command at a time: the build, path by
path, each recorded by the hook (`journal`; the hook may fail to); then the push
of the closure; or, after a build that failed, `upload_partial_outputs`, which asks
for each recorded output whether it is valid (`LookAt`: `todo`), collects them in
`batch`, and copies a batch when it is full or the last (`copy_partial_batch`).
A copy adds its paths to the cache one by one and fails if one of them has been
collected meanwhile, what was built having no root. It ends with two statuses,
nix's and tee's (`CopyEnds`): `run_teeing_stderr` is called in an `if` and returns
nix's (`Result`), while the push is not, and ends the script if either is not 0
(`set -e`). `spoiled` are the outputs the script reports as skipped or as of a
failed batch.

## 3. Runs

| Run | Bounds | What it shows |
|---|---|---|
| `safety` | 3 steps (two roots, a step after both with two kinds of condition), with and without a queue, 1 restart, any 2 of all 10 faults | `TypeOK`, `DependencyOrder`, `SucceededIsReal`, and `KeepsPromise`: the controller implements `StepRuns` |
| `clean` | 4 steps (chain, root, reaction to exit code 1; the chain's end optional), 1 restart, 1 of 3 faults, 1 cancel | `SkippedNeverRan`, `NothingLeftRunning`, `VerdictIsReal`, `CanceledOnlyIfAsked`, `EndIsReported`, `NoFreshStartAfterFailure`, `OutcomesAreDurable` |
| `live` | 3 steps, one that never ends by itself, 1 restart, 1 of 4 faults, fairness | `Terminates`, `FailureStopsTheRest` |
| `watcher` | 2 failures in a row give up, 2 failures, one 410, one ConfigMap version, the JobSet may be deleted, fairness | `WaiterIsWoken`, `BadNewsIsTrue`, `PollIsTrue`, `CacheNeverGoesBack`, `WaitEnds` |
| `local` | all acyclic workflows of 3 steps the validator accepts, 5 kinds of condition, any optional steps, exit codes 0-2 | `NothingForgotten`, `FollowsTheController` |
| `artifacts` | 2 launches, one with a ttl of half a day and a Secret of its own, one with a day and the external Secret; 3 ticks, 2 to a day; any 2 failures or kills | `NothingOrphaned`, `RunningHasWhatItNeeds`, `DeletedOnlyWhenExpired` |
| `shipper` | 4 versions of the phases, 1 pass that changes none, 2 failed saves, reads, writes or uploads, 2 crashes, fairness | `FinalIsArchived`, `ArchiveNeverGoesBack`, `LatestIsUploaded` |
| `pod` | a pod with both init containers, scripts that end with 0 or 42, 3 mishaps (images not pulled, containers killed, a fluent-bit that fails), deletion at any moment, replacement, fairness | `LogsAreShipped`, `KeepsPromise` (`PodRun` implements `PodLife`), `PodStatusNeverGoesBack`, `PodEnds` |
| `steps` | a server and a worker, 3 configurations of policies, exit codes 0, 1, 42, 137, 3 attempts, evictions, a cancel | `SuccessIsReal`, `FatalIsNotRetried` |
| `nixres` | 2 submits on 2 machines, 7 workflows of one or two roles, 2 sources, 2 targets, 3 closures, 2 caches of which one has a memo, two names that clash, 1 failed call or edit; 2 trees, 5 exclude lists and every include pattern of up to 3 components | `ConsumersAreSupplied`, `ClosuresAreTheirs`, `BuildsAreWired`, and, for the tame ones of those patterns, `TamePruningLosesNothing` |
| `nixnode` | 2 consumers and a builder on one node that holds only what the consumers share, a build of 2 paths, batches of 2, a budget of one path, 2 attempts to pull, 1 kill, failed call, failed build or slow copy, fairness | `ToolchainIsWhole`, `WorkIsKept`, `PulledIsKept`, `BootstrapEnds` |
| `missed` | as `live`, without restarts; one stream breaks | the divergence below |

`TypeOK` is checked in `safety`; in the other modules it documents the types and
is proved (section 4).

Why the bounds are enough. A condition relates two steps and a teardown a third;
four steps give one to skip, one to cancel, one to preserve and one that fails.
The interesting crash is one between two calls, and the second process behaves
as any later one. Two faults are needed where one only leads to a retry
(`lostReply` and then the failure that precedes the retry). Two exit codes
tell a gate that opens from one that does not. In the watcher, each thread can
break, resume, expire and give up within the bounds, and the JobSet's four
versions are enough for a stale one to be delivered. In `artifacts` the two
sweeps overlap each other and both launches, the short ttl expires on the day of
its launch or on the next, and one failure can spoil a sweep and a second the
sweep that repairs it.

In `shipper` four versions let the background upload fall behind by two while
the main thread writes a third and the last. In `pod` there is a mishap for each
of the two containers that meet and one for an image; a second pod shows that
nothing of the first is left. In `steps` a first attempt may be retried by one
rule and a second by another, and the third is the last. In `nixres` two submits
are what it takes for a memo to be another's, two roles for a shared build, two
sources and targets for each part of the key to matter. In `nixnode` three pods
are a copier, a waiter and one that reclaims what the waiter has; a store path
that two closures share shows that a collection frees only what is dead. A
failed build leaves one output or two, so that a batch is short or full, and the
other pods collect before, between and after its steps. A
directory is pruned for lack of one pattern that could match below it, so that
include lists of one pattern tell all; three components are a directory above,
at and below the one the walk looks at.

`clean` leaves out the faults that break its properties (below) and those
(`reject`, `expire`) that `safety` has and that only made it larger.
Deadlock is not checked where a workflow, pods or submits come to an end, and
the model with them; `pod`, `steps` and `shipper` check it.

### Where the code does not do what it says

`missed` checks a property the code claims and TLC finds it violated: the watch
starts from a list whose order is not that of versions, but takes each object's
version as its position (`C/watch.py:196`). One broken connection in the middle
of the list and a finished step's event is never delivered: the controller waits
for ever, against "no events are missed" (`C/watch.py:152`).

The other divergences met while modelling have no run of their own; the
properties say what is left of the claim.

| Code | What happens | What is claimed |
|---|---|---|
| `C/scheduling.py:60` | A create answered with a 5xx though it was stored leaves the step PENDING; a failure handled before the retry marks it SKIPPED, "never ran" (`C/phases.py:11`), while it runs. | `SkippedNeverRan`, without lost replies |
| `C/watch.py:237` | A JobSet waiting in a Kueue queue is suspended, which the controller takes for a cancel. | `CanceledOnlyIfAsked`, without a queue |
| `K/workflow_state.py:505` | CANCELED is asked for before FAILED, so that a failed workflow whose teardown canceled a step is reported CANCELED, "user-canceled" by `K/workflow_state.py:635`, though no user did. Of a workflow whose optional steps alone were canceled the verdict and the live status are CANCELED (`C/watch.py:314` counts them), and the archive says SUCCEEDED (`C/status.py:57` leaves them out). | `EndIsReported` states every combination |
| `K/watched_state.py:205` | `wait()` reports SUCCEEDED for a failed workflow: the JobSet's watch is ahead of the ConfigMap's. `get_status()` reads them in order and does not. | `BadNewsIsTrue`, `PollIsTrue` |
| `K/watched_state.py:484` | A 410 does not clear the cache: `wait()` hangs on a workflow deleted in the gap, against `K/k8s_workflow.py:169`. | `WaitEnds`, of workflows not deleted |
| `backends/local/local_workflow.py:216` | In a local teardown a reactive step runs although it also requires the success of a step that was skipped (`config.py:307`). | `FollowsTheController`, which of a reactive step in a teardown says only that the controller would keep it from that teardown, not that it would submit it |
| `config.py:719` | No validator refuses a cycle, although `dag.py:9` says one does: the local backend drops its steps, the controller waits for ever. | `NothingForgotten`, of acyclic workflows |
| `C/status.py:166` | The last upload is meant "to guarantee the final status reaches S3", but its result is not looked at: what was there stays, be it a torn document. After a lost save, or a read that fails (`C/phases.py:90`), a restarted controller ships older phases than the archive has. | `FinalIsArchived`, `ArchiveNeverGoesBack`, up to both |
| `symlink.py:83` | "Conservative: only returns False when a match is provably impossible" does not hold for a glob before the last slash: `fnmatch` lets a star run over slashes, so `src/*.py`, `/*.py` and `src/**/*.py` select files in directories the walk never enters; nor for `src/**` (which `tests/unit/test_symlink.py:684` uses), which also selects files called `src` elsewhere. Such a submit stages less than its rules select. | `TamePruningLosesNothing`, for patterns that are `Tame` |
| `nix_utils.py:226-290` | The tree is fingerprinted twice. An edit in between remembers the evaluation under the wrong digest for good, and the build looks for a directory that was staged under the other one; and a tree that two roles share is removed when the second one's closure is in the store. The build then fails. | `ClosuresAreTheirs`, without edits; `ConsumersAreSupplied`, always |
| `K/resources/nix-bootstrap.sh:183-193` | If the lock is removed between the failed `mkdir` and the test for it, the pod exits with an error, taken for "a real reason"; a late `rmdir` reclaims the lock of a live holder; after a kill `cp -u` may keep a torn file (91-97 count on the opposite). | `ToolchainIsWhole`, while nothing is killed; `BootstrapEnds`, always |
| `K/resources/nix-gc.sh:71-82` | Between a pull and the root, and for a pod that stays under the budget, nothing protects the closure; the caveat in the script names only older pulls. | `PulledIsKept`: it is another closure's collection that takes it |
| `K/resources/nix-build.sh:36` | "Kubernetes termination must not turn into a potentially long cache upload": the flag that the trap sets is read once, when the build has failed; a TERM after that stops neither the next batch nor the push. `chain-entrypoint.sh` signals the wrapper it has started, so that the script may not get it at all. | nothing: a TERM within the script is not modelled |
| `K/resources/chain-entrypoint.sh`, `K/templates/jobset.yaml.j2` | The preStop hook touches `.shutdown` at once, so that the sidecar may flush before a deleted pod's last output; a TERM during the clean-up turns a 0 into 143; one before `SCRIPT_PID` is set is not forwarded; a sidecar whose start times out fails a pod whose main ended with 0. | `LogsAreShipped`, of pods not deleted; `PodLife` allows the rest |
| `K/resources/fluentbit.sh:105-109` | `.logs_flushed` is touched, and the sidecar exits with 0, also when fluent-bit has died or given an upload up; main then logs "final log upload complete" (`chain-entrypoint.sh:107`). | `LogsAreShipped`, while fluent-bit works |
| `config.py:557` | `operator: ANY` is "at least one" role; with `num_nodes` above 1 the JobSet completes on the job of one node of one role. | nothing: a role is one pod here |
| `K/workflow_state.py:265-276` | A sidecar whose image cannot be pulled hides that main runs; main that failed before the sidecar has started shows FAILED and then RUNNING. | `PodStatusNeverGoesBack`, but for these |
| `K/workflow_state.py:380-399` | A canceled step is shown PENDING; one that restarts is SUCCEEDED for a moment, when its failed pods are the first to go. | `SuccessIsReal`, of complete attempts and finished JobSets |

### Fairness

- `Controller!FairSpec`: weak fairness of `ControllerStep`, which has no fault in
  it: the process is one thread, the API server answers, and the server closes
  an idle stream after its timeout. Weak fairness of the end of pods, except
  those of the `Endless` steps, and of Kueue's admission. Nothing is assumed of
  the user, of crashes and of faults, but these are bounded in number.
- `StatusWatcher!FairSpec`: weak fairness of the consumer and of each thread,
  strong fairness of `Apply`: a stream that is opened again and again does at
  some time deliver what it has. Nothing of the cluster: `WaitEnds` is
  conditional on the workflow's end.
- `StatusShipper`: weak fairness of each of the two threads; s5cmd has a
  timeout. `Advance`, that is, that there is a next version, is left out: the
  case of interest is that none comes.
- `NixStore`: weak fairness of each pod's own steps, its timeouts among them;
  pods do not wait for one another but through the lock and the flock.
- `PodRun`: weak fairness of the kubelet (it starts containers, pulls images in
  the end, kills at the end of the grace), of the entrypoint (user scripts end;
  its timeout comes) and of the sidecar. Nothing of deletions, kills and
  uploads.

## 4. Proofs

`Controller_proofs` proves, for every DAG, set of conditions, number of faults,
restarts and cancels:

| Theorem | Statement |
|---|---|
| `TypeCorrect` | `Spec => []TypeOK` |
| `SuccessesAreReal` | `Spec => []SucceededIsReal` |
| `OrderIsKept` | `Spec => []DependencyOrder` |
| `ControllerKeepsPromise` | `Spec => KeepsPromise`, that is, refinement of `StepRuns` |

and, when some faults cannot happen, the properties of `clean`:

| Theorem | Statement | Hypothesis |
|---|---|---|
| `SavedOutcomesStay` | `Spec => OutcomesAreDurable` | no `readFail` |
| `NoStartAfterFailure` | `Spec => NoFreshStartAfterFailure` | no `deny` |
| `CanceledWasAsked` | `Spec => []CanceledOnlyIfAsked` | no queue |
| `SkippedStepsNeverRan` | `Spec => []SkippedNeverRan` | `MildFaults` |
| `NothingRunsOn` | `Spec => []NothingLeftRunning` | `MildFaults`, no queue |
| `VerdictsAreReal` | `Spec => []VerdictIsReal` | `MildFaults`, no queue |
| `EndsAreReported` | `Spec => []EndIsReported` | no `saveFail`, no `transport` |

`MildFaults` allows creates that are rejected, patches, captures of exit codes
and watches that fail, and expired versions, besides any crashes and cancels.
What it leaves out are the faults after which memory and cluster disagree, and
each hypothesis leaves out only what breaks the property: a restart that cannot
read the ConfigMap starts from nothing and saves over it (`readFail`); a denied
create fails a step in the middle of a loop that goes on submitting (`deny`); a
queue suspends JobSets nobody asked to stop; a create that is stored and not
known of, lost with its reply or with the save that would have told of it, runs
while its step is skipped (`lostReply`, `transport`, `saveFail`, and a rejection
that hides the 409 of a JobSet that exists); `main()` may end with its last save
refused, or broken off in a handler.

Assumptions: `DagAssumption` (the steps are finite, `Dag` enumerates them once)
and `ControllerAssumption` (types of the constants, `Self` is no step). TLC
evaluates both in every run of a module that extends these.

`SucceededIsReal` is not inductive: a SUCCEEDED phase comes from an event, and
the event may be old. The strengthening says of every entry of `log` that a
Completed entry is of a JobSet that is Completed now (ends are final), so that
an event at *any* position, delivered at any time and any number of times, is
true. With it each action that sets a phase is covered: `HandleEvent` reads the
log, `Boot` reads the ConfigMap, which only `save_phases` writes, from memory;
settling only ever turns PENDING into SKIPPED (`SettleOnlySkips`). `DependencyOrder`
follows: a create is made only for a `Ready` step, whose ON_SUCCESS
dependencies are SUCCEEDED in memory and therefore Completed, and a Completed
JobSet stays so. The refinement is proved step by step from the same invariant:
creates are `Start`, patches and admissions are `Hold` and `Release`, ends are
`End`, and every other step is `Learn` (a crash forgets, a boot or an event
learns) or stutters.

The properties with hypotheses need more. `OutcomesKept`: the process holds in
memory, with its exit code, every outcome the ConfigMap has, from `Boot` on;
that is why what it saves takes none back. `TornDown`: once a required step has
failed, in memory or in the ConfigMap, a step that is PENDING there reacts to a
failure or has its JobSet already, so that the cursor finds no other to create.
`SuspendedIsAsked`: without a queue a JobSet that `log` ever calls suspended was
asked for by the user or a teardown and does not run again; `OutcomesAreSeen`:
an outcome in memory or in the ConfigMap is one some entry of `log` tells.
`SkippedNeverRan` rests on three relations: at the places in `SavedPCs` the
outcomes in memory are saved (`OutcomesSaved`); every JobSet was created for
reasons the ConfigMap still knows, so that a restart finds its step no dead end
(`CreatesAreSaved`); and a step that is PENDING although it has a JobSet is
ahead of the cursor of a process that has just started, and is met there before
anything is settled (`JobSetsAreMet`). `EndsSettled` says that the loop ends only
when all phases are final, and what verdict follows; `TearsDownFailures` and
`AskedForReasons` trace every suspension to the user or to a required step that
failed of itself. `SavedAtRest` says that the ConfigMap agrees with memory
whenever the controller waits or has left the loop.

`ArtifactStore_proofs` proves, for every set of workflows, every ttl, any number
of launches and sweeps side by side and any number of failures, from
`StoreAssumption` (types of the constants; without an external Secret every
workflow has its own):

| Theorem | Statement |
|---|---|
| `NothingIsOrphaned` | `Spec => []NothingOrphaned` |
| `NothingIsDeletedEarly` | `Spec => DeletedOnlyWhenExpired` |
| `ControllersAreSupplied` | `Spec => []RunningHasWhatItNeeds` |
| `StoreTypes` | `Spec => []TypeOK` |

The invariant is `StoreInv`. A marker is removed by a thread that listed its
workflow some time ago, so nothing of the present state says that the workflow
has no more objects. `ListedOrLate` carries it through the interval: what is
there now was in the listing or came late, and once the thread is at `unmark`
all that is there came late. It must hold for every sweep at once, whichever of
them deletes. `Dated` says that the markers a sweep has read carry their
workflows' expiry dates, which have come; what is deleted was listed under one
(`DeletedWasDue`). `Supplied`, proved on top, follows the launch: before the
Secret is created there is none, so that a Secret is no older than its marker,
and one deleted as stale belongs to a workflow marked longer ago.

`Status_proofs` proves of `StatusShipper`, for any number of versions, failures
and crashes, from `ShipperAssumption` (types of the constants):

| Theorem | Statement |
|---|---|
| `ShipperTypeCorrect` | `ShipperSpec => []ShipperTypeOK` |
| `TheLastIsArchived` | `ShipperSpec => []FinalIsArchived` |
| `TheArchiveNeverGoesBack` | `ShipperSpec => ArchiveNeverGoesBack` |

`Locked` ties the lock to the two threads' places: only its holder is between
reading and putting. `InOrder` says that a whole document on disk or in an upload
is no older than what this process has put or loaded, and the one in an upload
no newer than the file. `Remembered` carries that over crashes, until a save or a
read is lost: the ConfigMap holds what is in memory, and what any process has put
this one has loaded or put again. `LastIsOnItsWay` follows the end: from the last write on
the file is the last document, main's upload has read that, and so has any
upload of the other thread that may still end after it.

`NixStore_proofs` proves, for any number of consumers and builders, any store
paths, references and budget, from `NodeAssumption` (types, and a finite set of
paths, without which a closure has no size; references and what the cache and
the node hold at first are closed; consumers' closures are cached):

| Theorem | Statement |
|---|---|
| `NoTornToolchain` | `Spec => []ToolchainIsWhole` |
| `PulledClosuresAreKept` | `Spec => PulledIsKept` |
| `BuiltWorkIsKept` | `Spec => []WorkIsKept` |
| `NodeTypes` | `Spec => []TypeOK` |

`BootInv` says what `ToolchainIsWhole` needs while nothing has failed: the lock
is its maker's until removed, the marker comes after the files, and who waits
waits for a pod that is still copying or for a marker that is there. That is why
no wait runs out and no lock is reclaimed, although the code's test, wait and
`rmdir` are apart. `FlockInv`: the pod in the middle of a collection has the
flock, and its closure is the one that is rooted. `WorkInv` follows what a build
recorded: each output is in the cache, yet to be looked at, in the batch, or
reported (`Covered`). That nothing is reported without a reason (`Unspoiled`)
is a relation with the node: as long as no pod has made a root nothing was
collected, `present` is closed under references and holds all that was recorded,
so that `path-info` finds it and a copy fails only by a fault of its own.
`NodeTypes` has two facts that
are not of form: who waits knows whose lock it saw, which no other pod's step
takes away (`WaitingStep`), and no pod tries more often than `COPY_ATTEMPTS`
(`AttemptsStep`).

`Status_proofs` proves of `StatusWatcher`, for any number of failures (in a row
and in all), 410 answers and versions, from `WatcherAssumption`:

| Theorem | Statement |
|---|---|
| `TheCacheNeverGoesBack` | `FairSpec => CacheNeverGoesBack` |
| `TheWaiterIsWoken` | `FairSpec => []WaiterIsWoken` |
| `BadNewsHolds` | `FairSpec => []BadNewsIsTrue` |
| `PollHolds` | `FairSpec => []PollIsTrue` |
| `WatcherTypes` | `Spec => []TypeOK` |

`CacheInv` bounds a cache by what the stream still has to send: an open stream
repeats at most the version held, and the version to resume from is no older
than the cache except between the two halves of an event, `Apply` and `Notify`.
`WakeInv` extends `WaiterIsWoken` from the wait to the steps before it: from the
look at a failure, and from the read of the caches, on. It is what the order
clear - raise - read in `wait_for_update` is for. `BadNewsIsTrue` is about a
pair of versions, read from two caches, that may never have been current
together. `JobStory` and `PhasesStory` say how the two histories go on: the
JobSet's end is its last version but for its deletion, and a ConfigMap that
shows a failed or canceled step shows one in every later version, or is gone,
after the JobSet. So bad news in an old version (`NewsInv`) is still true of the
last; good news is not, which is why the theorem claims nothing of it. For a
poll the order of the reads is what counts: it reads the ConfigMap of a JobSet
that has ended, whose phases do not change any more (`NewsInv`, `ReadIsTrue`).
Of the types, that the count of failures stays within `_WATCH_MAX_ATTEMPTS` needs
that one at the limit has been fatal (`CountsOK`): `_record_failure` then returns
at once.

`PodRun_proofs` proves, for pods with and without a nix closure, any exit codes
of the scripts and any number of mishaps, from `PodAssumption`:

| Theorem | Statement |
|---|---|
| `ThePromiseIsKept` | `Spec => KeepsPromise` (`PodRun` implements `PodLife`) |
| `TheLogsAreShipped` | `Spec => []LogsAreShipped` |
| `TheStatusGoesOn` | `Spec => PodStatusNeverGoesBack` |
| `PodTypes` | `Spec => []TypeOK` |

`PodInv` is what the mapping needs. `ContainersInOrder`: a container that has
begun found its init containers ended with 0, so that none starts in a pod that
is over, whose phase is then final. `CodeIsEarned`: the code `main` will exit
with is 0 only if both scripts have ended with 0, which rests on the main script
being reached only past a before script that did. Each step leaves the life of
the pod alone, ends one container, or is an action of `PodLife`. `LogInv`
follows the files of the shared volume: in a pod that nobody deleted
`.shutdown`, the sidecar's grace and the end of main come only when the scripts
have no more to write, and the sidecar ends with 0 only once all is uploaded,
unless fluent-bit has failed.
`StatusMeans` says what the shown status is in terms of the containers; with the
containers in order, each step can then only raise it.

`JobSetRun_proofs` proves, for any roles, configurations, exit codes and number
of attempts, from `CodesAssumption` and `ConfigurationAssumption`:

| Theorem | Statement |
|---|---|
| `ShownSuccessIsReal` | `Spec => []SuccessIsReal` |
| `FatalCodesEndTheStep` | `Spec => FatalIsNotRetried` |

`SuccessIsEarned` carries what `PodLife` promises (Succeeded only with code 0,
code 0 only past both scripts) from a pod's end to its step's: that is where
`ThePromiseIsKept` is used. `AggregateOfSuccess` says that a rollup is SUCCEEDED
only over statuses that all are SUCCEEDED or SKIPPED. For the fatal codes, the rules of
the manifest are in the order `_build_failure_policy` gives them: those with exit
codes first, each kind in the order of the configuration. The first of those a
failure matches exists because every set of indices has a least one
(`LeastIndex`), and is on exit codes if any that matches is (`FirstRule`); such a
rule can only be FAIL_JOB_SET, so that no attempt follows. That it *is* matched
rests on the Job's own policy: a pod that ended with a listed code fails its job
for that reason (`_build_pod_failure_policy`).

`LocalWorkflow_proofs` proves, for any steps, workflows over them and exit codes,
from `LocalAssumption`:

| Theorem | Statement | Hypothesis |
|---|---|---|
| `LocalFollowsTheController` | `Spec => []FollowsTheController` | |
| `LocalForgetsNothing` | `Spec => []NothingForgotten` | every workflow is acyclic |
| `LocalTypes` | `Spec => []TypeOK` | |

The hypothesis is there because no validator refuses a cycle (section 3);
`Acyclic` says that the steps can be given heights over those they depend on, and
`MCLocalWorkflow` assumes it of its workflows, so that TLC evaluates it. The
invariant follows Kahn's algorithm (`SortInv`): the in-degree of a step is the
number of its conditions on steps not sorted yet; a step is queued or sorted,
once, when that is none, and is sorted after what it depends on. `WalkInv` says of
the second loop that it has decided what is before it in that list and nothing
else, and that a teardown is on when a required step has failed. `InOrderLists` shows that a
set of steps has a list in the order of the file. For `NothingForgotten`
(`AllSorted`), of the steps left over when the queue is empty one of least height
would have all its dependencies sorted, hence have been queued. For
`FollowsTheController` no acyclicity is needed: what precedes a step in the list
is decided when it is its turn (`DependenciesFirst`), on decided steps the two
readings of a condition agree (`ConditionsAgree`), and a condition that is decided
against a step makes it a dead end (`DecidedAgainst`). The proof of the types
found the declared one too small: a step whose before script fails has exit code
1, also where no script can end with it.

`NixResolution_proofs` proves, for any number of submits, machines, stores,
roles to a workflow, edits and failures, and for whatever the names of build
steps are cut to, from `NixAssumption` (types of the constants; a workflow's
steps are a finite set, its roles a sequence, each of one of its steps):

| Theorem | Statement |
|---|---|
| `NixTypes` | `Spec => []TypeOK` |
| `ConsumersFindTheirs` | `Spec => []ConsumersAreSupplied` |
| `BuildsAreInPlace` | `Spec => []BuildsAreWired` |
| `ClosuresOfTheirOwn` | `Spec => []ClosuresAreTheirs` |
| `TheTameWalkIsExact` | for every tree, include list and exclude list: `(\A p \in include : Tame(p)) => Exact(tree, include, exclude)` |
| `TheTamePruningLosesNothing` | `Spec => []TamePruningLosesNothing` |

`Shape` and `InOrder` say what is known at each place: a role is in hand, its
tree fingerprinted, its directory there. `SupplyInv` follows a closure from the
submit to the start of a step: a role done with has it in the store or in
`needed_builds` (`KeysAreMet`), which holds it once (`NeedsAreOne`); the build
steps are those of `needed_builds` under their names, one that succeeded has
pushed, and a step waits for exactly those of its roles (`Wired`). Nothing is
ever taken from a store, so that each part survives the steps of other submits
(`OthersStay`, `SupplyStays`). `Wired` needs the names to differ: that names exist
at all (`NamesAreThere`) is by the least number without one, that a suffix is
free by the pigeonhole principle (`UnusedIsFree`), and that they differ from one
another and from steps (`NamesDiffer`) follows. `ClosureInv` says, of all submits
together while none is edited, that memos hold only what nix makes of their
keys, and that digest, directory and closure in hand are those of the role.
The last two are about trees of any depth and lists of tame patterns of any
length, from `SelectionAssumption` and `StagingAssumption` (types); of other
patterns what they say is false of the code (section 3). A tame pattern
of several components is names followed by nothing but stars; its i-th component
covers the i-th name of any path it matches, or there would be a first one that
does not (`RootedCovers`). So each directory above a file that is selected agrees
with the pattern as far as both go (`AncestorNames`, `TheWalkGoesThere`), which
is what the walk asks before it enters (`SelectedIsReached`).

The strengthenings of all these proofs were checked by TLC as invariants of the
runs' instances before they were proved.

Model-checked only: liveness under fairness, which is out of the prover's reach:
`Terminates`, `FailureStopsTheRest`, `WaitEnds`, `LatestIsUploaded`,
`BootstrapEnds`, `PodEnds`. Every other property of the passing runs is stated by
a theorem.

## 5. Not modelled

- Of the launch: what is in the uploads, how credentials are resolved, the
  search for a free id. That expired artifacts are reclaimed at some time is not
  claimed: only a later launch sweeps, and nothing promises one.
- Timings, heartbeats and Kubernetes events of the controller; backoff delays.
- Of the manifests all but the policies, containers and hooks: resources,
  volumes, environment, names. `max_restarts: None` is rendered as the text
  None, and `success_policy.target_roles` is not validated; both are left to
  tests of the rendered text. A failure rule with `target_roles: []` is accepted
  by `config.py` and rendered as all roles (`jobset.yaml.j2:41`), while
  `JobSetRun!FailureAction` takes it as none; no run has one.
- The lag of the Job and JobSet controllers: `JobSetRun` lets them see a failed
  pod at once. A main container that ended with a fatal code in a pod that is not
  Failed yet may be restarted because of another role's failure, which
  `FatalIsNotRetried` does not count.
- Of the state builder the grouping of listed objects and timestamps; a pod
  group of more than one pod to a role is one pod here.
- Of nix: warm-node affinity, which only prefers nodes; a TERM that reaches
  `nix-build.sh` while it goes on; the opening of its named pipe, which is part
  of the call (a tee that dies before nix opens it leaves the script there for
  ever); an image without flock,
  where collections are not kept apart, as `nix-gc.sh:63` says; what is in a
  closure.
- Of packaging: symbolic links, archives. Patterns `src` (no final slash) and
  `/a/b/` in an include list never include the files below, which the model
  has as the code has it.
- The CLI, listing, rendering and user settings; `follow` and `attach`, which
  display; log parsing (`print_logs.py:9-29` loses the middle groups of a pod
  index, a matter of text).
- The Argo backend, a stub.

## 6. Plan

Done: `DagRules`, `Controller`, `StepRuns`, `StatusReport`; `StatusWatcher`;
`LocalWorkflow`; `ArtifactStore`; `StatusShipper`; `PodRun`, `PodLife`,
`JobSetRun`, `WorkflowState`; `NixResolution`, `FileSelection`, `Staging`,
`NixStore`; the proofs of section 4.

What would come next:

1. `follow`: the four-watch variant of the watcher, with the reconciliation of
   its display.
2. The grouping of pods into attempts in `build_workflow_state`, over restarts
   and replaced pods.

To repeat the checks: `tlc -config X.cfg M` for each run of `PROJECT.json`, and
`tlapm` on each of the `*_proofs.tla`.
