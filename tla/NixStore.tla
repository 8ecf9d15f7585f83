------------------------------ MODULE NixStore ------------------------------
(***************************************************************************)
(* One node's /nix, a hostPath shared by the pods scheduled there, and the *)
(* binary cache behind it: nix-bootstrap.sh, chain-nix-init.sh, nix-gc.sh  *)
(* and nix-build.sh.  A consumer pod bootstraps the toolchain, pulls its   *)
(* closure and may collect garbage before its main container starts; a     *)
(* build pod bootstraps, builds and pushes.                                *)
(* Pods share no memory: only the directory, the lock directory in it, the *)
(* flock file and nix's own database, whose calls are atomic here.         *)
(***************************************************************************)
EXTENDS Integers, FiniteSets

CONSTANTS
  Consumers, Builders,  \* pods
  Paths, Refs,     \* store paths, and what each refers to (closed under Refs)
  Top,             \* the store path each pod is about: SEEKR_CHAIN_NIX_CLOSURE
  Cached,          \* what the binary cache holds at first
  Warm,            \* what the node holds at first
  Budget,          \* SEEKR_CHAIN_NIX_STORE_MAX_BYTES, in paths
  Attempts,        \* COPY_ATTEMPTS
  BatchSize,       \* PARTIAL_COPY_BATCH_SIZE
  MaxFaults        \* bound: crashes, broken calls, copies slower than the wait

Pods == Consumers \union Builders
None == "none"
ClosureOf(S) == S \union UNION {Refs[q] : q \in S}
Closure(p) == ClosureOf({Top[p]})
Closed(S) == ClosureOf(S) = S

ASSUME NodeAssumption ==
  /\ IsFiniteSet(Paths) /\ Refs \in [Paths -> SUBSET Paths]
  /\ \A q \in Paths : q \notin Refs[q] /\ ClosureOf(Refs[q]) = Refs[q]
  /\ Top \in [Pods -> Paths]
  /\ Consumers \intersect Builders = {} /\ None \notin Pods \union Paths
  /\ Cached \subseteq Paths /\ Closed(Cached)
  /\ \A p \in Consumers : Top[p] \in Cached  \* NixResolution!ConsumersAreSupplied
  /\ Warm \subseteq Paths /\ Closed(Warm)
  /\ Budget \in Nat /\ Attempts \in Nat \ {0} /\ BatchSize \in Nat \ {0}
  /\ MaxFaults \in Nat

VARIABLES
  pc,         \* where each pod is
  marker,     \* what is at .bootstrap-done: absent or made
  holder,     \* the pod that made the lock directory; None: there is none
  waitsFor,   \* the holder when each waiting pod began to wait
  toolchain,  \* what is at a file of the toolchain: absent, torn or whole
  present,    \* the valid paths of the node's store
  active,     \* gcroots/seekr-chain/active
  flock,      \* the pod that holds the GC lock
  size,       \* the store's size as each consumer measured it
  tries,      \* the attempts of each consumer's pull
  journal,    \* the outputs each build pod's hook recorded
  todo,       \* those upload_partial_outputs has yet to look at
  batch,      \* those of the next copy, or of the one that runs
  spoiled,    \* those reported as not uploaded: invalid, or of a batch that failed
  cache,      \* the paths in the binary cache
  faults

boot == <<marker, holder, waitsFor, toolchain>>
store == <<present, active, flock>>
upload == <<todo, batch, spoiled>>
own == <<size, tries, journal, upload>>
vars == <<pc, boot, store, own, cache, faults>>

Bootstrapping == {"start", "mkdir", "test", "wait", "rmdir", "remake", "retest",
                  "copy", "writing", "touch", "unlock"}
Copying == {"copy", "writing", "touch"}
Pulling == {"measure", "pull", "pulling", "sized", "flock", "root", "collect"}
Building == {"build", "building", "pushing", "look", "batch"}
Ended == {"failed", "uploaded", "dead", "succeeded"}

Init ==
  /\ pc = [p \in Pods |-> "pending"]
  /\ marker = "absent" /\ holder = None /\ toolchain = "absent"
  /\ waitsFor = [p \in Pods |-> None]
  /\ present = Warm /\ active = None /\ flock = None
  /\ size = [p \in Pods |-> 0] /\ tries = [p \in Pods |-> 0]
  /\ journal = [p \in Pods |-> {}]
  /\ todo = [p \in Pods |-> {}] /\ batch = [p \in Pods |-> {}] /\ spoiled = [p \in Pods |-> {}]
  /\ cache = Cached
  /\ faults = MaxFaults

Goto(p, l) == pc' = [pc EXCEPT ![p] = l]
Step(p, from, to) == pc[p] = from /\ Goto(p, to)
Fault == faults > 0 /\ faults' = faults - 1

\* Pods are scheduled to the node at any time.
StartPod(p) ==
  /\ Step(p, "pending", "start")
  /\ UNCHANGED <<boot, store, own, cache, faults>>

-----------------------------------------------------------------------------
(* nix-bootstrap.sh.                                                       *)

Done == marker = "made"

\* What follows the bootstrap.
After(p) == IF p \in Consumers THEN "measure" ELSE "build"

\* Without the marker the image must have /nix-baked; a wrong image counts as a
\* fault.
CheckDone(p) ==
  /\ pc[p] = "start"
  /\ \/ Goto(p, IF Done THEN After(p) ELSE "mkdir") /\ UNCHANGED faults
     \/ ~Done /\ Goto(p, "failed") /\ Fault
  /\ UNCHANGED <<boot, store, own, cache>>

\* Mutant: mkdir -p, which does not mind that the directory is there.
MakeLock_p(p, from, else) ==
  /\ Step(p, from, "copy")
  /\ holder' = p
  /\ UNCHANGED <<marker, waitsFor, toolchain, store, own, cache, faults>>

\* mkdir makes the lock or fails, for the directory is there or for a reason of
\* its own.
MakeLock(p, from, else) ==
  /\ pc[p] = from
  /\ \/ holder = None /\ holder' = p /\ Goto(p, "copy") /\ UNCHANGED faults
     \/ holder # None /\ Goto(p, else) /\ UNCHANGED <<holder, faults>>
     \/ holder = None /\ Fault /\ Goto(p, else) /\ UNCHANGED holder
  /\ UNCHANGED <<marker, waitsFor, toolchain, store, own, cache>>

Mkdir(p) == MakeLock(p, "mkdir", "test") \/ MakeLock(p, "remake", "retest")

\* [ -d LOCK ], a look of its own after the mkdir that failed: if the directory
\* is gone by now, the failure is taken for a real one.
TestLock(p) ==
  /\ pc[p] \in {"test", "retest"}
  /\ Goto(p, IF holder # None THEN "wait" ELSE "failed")
  /\ waitsFor' = [waitsFor EXCEPT ![p] = holder]
  /\ UNCHANGED <<marker, holder, toolchain, store, own, cache, faults>>

\* The wait ends when the marker is there, or after BOOTSTRAP_WAIT_S.  A copy
\* takes less: the time runs out on a pod that is not (or no longer) copying, be
\* the lock another's by then, unless the copy is slow.
Wait(p) ==
  /\ pc[p] = "wait"
  /\ \/ Done /\ Goto(p, After(p)) /\ UNCHANGED faults
     \/ /\ ~Done
        /\ Goto(p, "rmdir")
        /\ IF pc[waitsFor[p]] \in Copying THEN Fault ELSE UNCHANGED faults
  /\ UNCHANGED <<boot, store, own, cache>>

\* Mutant: the lock is left where it is.
ReclaimLock_kept(p) ==
  /\ Step(p, "rmdir", "remake")
  /\ UNCHANGED <<boot, store, own, cache, faults>>

\* rmdir || true, whoever holds the lock now.
ReclaimLock(p) ==
  /\ Step(p, "rmdir", "remake")
  /\ holder' = None
  /\ UNCHANGED <<marker, waitsFor, toolchain, store, own, cache, faults>>

\* do_bootstrap_copy: cp -a -u leaves a file that exists and is newer, also one
\* that is being written or was left half-written; then the marker is made and
\* the lock removed.
BootstrapCopy(p) ==
  /\ \/ /\ pc[p] = "copy" /\ toolchain = "absent"
        /\ toolchain' = "torn" /\ Goto(p, "writing")
        /\ UNCHANGED <<marker, holder>>
     \/ /\ pc[p] = "copy" /\ toolchain # "absent"
        /\ Goto(p, "touch")
        /\ UNCHANGED <<marker, holder, toolchain>>
     \/ /\ Step(p, "writing", "touch")
        /\ toolchain' = "whole"
        /\ UNCHANGED <<marker, holder>>
     \/ /\ Step(p, "touch", "unlock")
        /\ marker' = "made"
        /\ UNCHANGED <<holder, toolchain>>
     \/ /\ Step(p, "unlock", After(p))
        /\ holder' = None
        /\ UNCHANGED <<marker, toolchain>>
  /\ UNCHANGED <<waitsFor, store, own, cache, faults>>

Bootstrap(p) ==
  \/ CheckDone(p) \/ Mkdir(p) \/ TestLock(p) \/ Wait(p)
  \/ ReclaimLock(p) \/ BootstrapCopy(p)

-----------------------------------------------------------------------------
(* chain-nix-init.sh.                                                      *)

Size == Cardinality(present)

MeasureBefore(p) ==
  /\ Step(p, "measure", "pull")
  /\ size' = [size EXCEPT ![p] = Size]
  /\ UNCHANGED <<boot, store, tries, journal, upload, cache, faults>>

\* An attempt: nothing is fetched when path-info finds the closure on the node,
\* and the size measured before is kept.
RunCopy(p) ==
  /\ pc[p] = "pull"
  /\ IF Closure(p) \subseteq present
     THEN Goto(p, "sized") /\ UNCHANGED tries
     ELSE Goto(p, "pulling") /\ tries' = [tries EXCEPT ![p] = @ + 1]
  /\ UNCHANGED <<boot, store, size, journal, upload, cache, faults>>

\* nix copy --from adds a path after those it refers to; while it runs, nix
\* protects the closure.
CopyPath(p) ==
  /\ pc[p] = "pulling"
  /\ \E q \in Closure(p) \ present :
       /\ Refs[q] \subseteq present
       /\ present' = present \union {q}
  /\ UNCHANGED <<pc, boot, active, flock, own, cache, faults>>

CopyDone(p) ==
  /\ Step(p, "pulling", "sized")
  /\ Closure(p) \subseteq present
  /\ size' = [size EXCEPT ![p] = Size]
  /\ UNCHANGED <<boot, store, tries, journal, upload, cache, faults>>

\* The watchdog kills a copy that stalls, or nix fails.
CopyFails(p) ==
  /\ pc[p] = "pulling"
  /\ Fault
  /\ Goto(p, IF tries[p] >= Attempts THEN "failed" ELSE "pull")
  /\ UNCHANGED <<boot, store, own, cache>>

-----------------------------------------------------------------------------
(* nix-gc.sh.  Whatever it does, the main container starts.                *)

CheckBudget(p) ==
  /\ pc[p] = "sized"
  /\ Goto(p, IF size[p] <= Budget THEN "main" ELSE "flock")
  /\ UNCHANGED <<boot, store, own, cache, faults>>

\* Mutant: the lock is not waited for.
TakeFlock_free(p) ==
  /\ Step(p, "flock", "root")
  /\ flock' = p
  /\ UNCHANGED <<boot, present, active, own, cache, faults>>

\* flock -w 60: a round that waits too long is skipped.
TakeFlock(p) ==
  /\ pc[p] = "flock"
  /\ \/ flock = None /\ flock' = p /\ Goto(p, "root")
     \/ flock # None /\ Goto(p, "main") /\ UNCHANGED flock
  /\ UNCHANGED <<boot, present, active, own, cache, faults>>

\* ln -sfn: only the last pull has a root.
Root(p) ==
  /\ Step(p, "root", "collect")
  /\ active' = Top[p]
  /\ UNCHANGED <<boot, present, flock, own, cache, faults>>

Rooted == IF active = None THEN {} ELSE ClosureOf({active})
InUse == UNION {Closure(p) : p \in {p \in Pods : pc[p] \in {"pulling", "building"}}}

\* nix store gc --max: dead paths go, referrers first, until enough is freed; it
\* may fail on the way.
CollectGarbage(p) ==
  /\ Step(p, "collect", "main")
  /\ \E dead \in SUBSET (present \ (Rooted \union InUse)) :
       /\ Cardinality(dead) <= size[p] - Budget
       /\ Closed(present \ dead)
       /\ present' = present \ dead
  /\ flock' = None
  /\ UNCHANGED <<boot, active, own, cache, faults>>

Pull(p) ==
  \/ MeasureBefore(p) \/ RunCopy(p) \/ CopyPath(p) \/ CopyDone(p)
  \/ CheckBudget(p) \/ TakeFlock(p) \/ Root(p) \/ CollectGarbage(p)

-----------------------------------------------------------------------------
(* nix-build.sh.  Every nix it runs writes through a named pipe to a tee.  *)

BeginBuild(p) ==
  /\ Step(p, "build", "building")
  /\ UNCHANGED <<boot, store, own, cache, faults>>

\* nix build substitutes what the cache has and builds the rest; the hook
\* records what was built, and must not fail the build when it cannot.
BuildPath(p) ==
  /\ pc[p] = "building"
  /\ \E q \in Closure(p) \ present :
       /\ Refs[q] \subseteq present
       /\ present' = present \union {q}
       /\ \/ journal' = (IF q \in cache THEN journal ELSE [journal EXCEPT ![p] = @ \union {q}])
             /\ UNCHANGED faults
          \/ q \notin cache /\ Fault /\ UNCHANGED journal
  /\ UNCHANGED <<pc, boot, active, flock, size, tries, upload, cache>>

\* The output is the expected closure, or the sources have drifted.
BuildDone(p) ==
  /\ pc[p] = "building"
  /\ Closure(p) \subseteq present
  /\ \/ Goto(p, "pushing") /\ UNCHANGED faults
     \/ Goto(p, "failed") /\ Fault
  /\ UNCHANGED <<boot, store, own, cache>>

\* What a copy is asked for.
Wanted(p) == ClosureOf(IF pc[p] = "pushing" THEN {Top[p]} ELSE batch[p])

\* nix copy --to adds a path after those it refers to.  What was built has no
\* root, and may be gone.
CopyOut(p) ==
  /\ pc[p] \in {"pushing", "batch"}
  /\ \E q \in (Wanted(p) \intersect present) \ cache :
       /\ Refs[q] \subseteq cache
       /\ cache' = cache \union {q}
  /\ UNCHANGED <<pc, boot, store, own, faults>>

\* It exits with rc, and tee, which sees the end of the pipe, with another
\* status; either may fail by itself.
CopyEnds(p, rc, tee) ==
  /\ rc = 0 => Wanted(p) \subseteq cache
  /\ IF tee = 0 /\ (rc = 0 \/ ~(Wanted(p) \subseteq present))
     THEN UNCHANGED faults ELSE Fault

\* Mutant: the status of tee returned, as that of a pipeline would be.
Result_tee(rc, tee) == tee

\* run_teeing_stderr, called in an if: return $rc.
Result(rc, tee) == rc

\* A batch is copied when it is full, and what is left at the end.
Onward(left, next) ==
  IF Cardinality(next) >= BatchSize \/ (left = {} /\ next # {}) THEN "batch"
  ELSE IF left = {} THEN "uploaded" ELSE "look"

\* A derivation fails; a build that was canceled uploads nothing.
BuildFails(p) ==
  /\ pc[p] = "building"
  /\ Fault
  /\ \/ todo' = [todo EXCEPT ![p] = journal[p]] /\ Goto(p, Onward(journal[p], {}))
     \/ Goto(p, "failed") /\ UNCHANGED todo
  /\ UNCHANGED <<boot, store, size, tries, journal, batch, spoiled, cache>>

\* upload_partial_outputs: path-info for each journaled output.
LookAt(p) ==
  /\ pc[p] = "look"
  /\ \E q \in todo[p] :
       /\ todo' = [todo EXCEPT ![p] = @ \ {q}]
       /\ \/ /\ q \in present
             /\ batch' = [batch EXCEPT ![p] = @ \union {q}]
             /\ UNCHANGED <<spoiled, faults>>
          \/ /\ IF q \in present THEN Fault ELSE UNCHANGED faults
             /\ spoiled' = [spoiled EXCEPT ![p] = @ \union {q}]
             /\ UNCHANGED batch
       /\ Goto(p, Onward(todo'[p], batch'[p]))
  /\ UNCHANGED <<boot, store, size, tries, journal, cache>>

copy_partial_batch(p) ==
  /\ pc[p] = "batch"
  /\ \E rc, tee \in {0, 1} :
       /\ CopyEnds(p, rc, tee)
       /\ spoiled' = IF Result(rc, tee) = 0 THEN spoiled
                     ELSE [spoiled EXCEPT ![p] = @ \union batch[p]]
  /\ batch' = [batch EXCEPT ![p] = {}]
  /\ Goto(p, Onward(todo[p], {}))
  /\ UNCHANGED <<boot, store, size, tries, journal, todo, cache>>

\* The copy of the closure is not in an if: under set -e the script ends at the
\* nix copy, or at the wait for tee, that fails.
Push(p) ==
  /\ pc[p] = "pushing"
  /\ \E rc, tee \in {0, 1} :
       /\ CopyEnds(p, rc, tee)
       /\ Goto(p, IF rc = 0 /\ tee = 0 THEN "succeeded" ELSE "failed")
  /\ UNCHANGED <<boot, store, own, cache>>

Build(p) ==
  \/ BeginBuild(p) \/ BuildPath(p) \/ BuildDone(p) \/ CopyOut(p) \/ LookAt(p)
  \/ copy_partial_batch(p) \/ Push(p)
-----------------------------------------------------------------------------

\* The pod dies: the flock goes with it, the lock directory stays.
Crash(p) ==
  /\ pc[p] \notin Ended \union {"pending", "main"}
  /\ Fault
  /\ Goto(p, "dead")
  /\ flock' = IF flock = p THEN None ELSE flock
  /\ UNCHANGED <<boot, present, active, own, cache>>

PodStep(p) == StartPod(p) \/ Bootstrap(p) \/ Pull(p) \/ Build(p)

Next == \E p \in Pods : PodStep(p) \/ CopyFails(p) \/ BuildFails(p) \/ Crash(p)

\* A pod's scripts run; its timeouts come.
Fairness == \A p \in Pods : WF_vars(PodStep(p))

Spec == Init /\ [][Next]_vars /\ Fairness

-----------------------------------------------------------------------------
(* Properties.                                                             *)

TypeOK ==
  /\ pc \in [Pods -> Bootstrapping \union Pulling \union Building \union Ended
                     \union {"pending", "main"}]
  /\ marker \in {"absent", "made"} /\ holder \in Pods \union {None}
  /\ waitsFor \in [Pods -> Pods \union {None}]
  /\ \A p \in Pods : pc[p] = "wait" => waitsFor[p] # None
  /\ toolchain \in {"absent", "torn", "whole"}
  /\ present \subseteq Paths /\ cache \subseteq Paths
  /\ active \in Paths \union {None} /\ flock \in Consumers \union {None}
  /\ size \in [Pods -> Nat] /\ tries \in [Pods -> 0..Attempts]
  /\ \A f \in {journal, todo, batch, spoiled} : f \in [Pods -> SUBSET Paths]
  /\ faults \in 0..MaxFaults

Bootstrapped(p) == pc[p] \in Pulling \union Building \union {"main", "succeeded", "unlock"}

\* As long as no pod has crashed and no copy was slower than the wait, a pod
\* goes past the bootstrap with the whole toolchain on the node, although the
\* marker, the lock and the files are three things.
ToolchainIsWhole ==
  faults = MaxFaults => \A p \in Pods : Bootstrapped(p) => toolchain = "whole"

\* Whatever crashes, and however often locks are reclaimed, no pod waits for
\* ever for a bootstrap: it gets past it, or fails.
BootstrapEnds == \A p \in Pods : pc[p] \in Bootstrapping ~> pc[p] \notin Bootstrapping

\* A closure that a consumer has pulled is taken off the node only by the
\* collection of a pod with another one: never by its own, nor by that of
\* another pod of the same role.
PulledIsKept ==
  [][\A p \in Consumers :
       /\ pc[p] \in {"sized", "flock", "root", "collect", "main"}
       /\ Closure(p) \subseteq present /\ ~(Closure(p) \subseteq present')
       => \E q \in Consumers : pc[q] = "collect" /\ pc'[q] = "main" /\ Top[q] # Top[p]]_vars

(* What a build pod has built is not lost to the next build without a       *)
(* word: a pod that succeeded has its whole closure in the cache, and after *)
(* a build that failed everything the hook recorded is there but what was   *)
(* reported as skipped or in a batch that failed.  And as long as no pod    *)
(* has collected garbage and nothing but the build fails, nothing is        *)
(* reported: although what was built has no root, goes through path-info,   *)
(* a batch and a copy one after the other, and the status of nix copy comes *)
(* past a tee and a wait (nix-build.sh:46-57, 109-165, 183-224).            *)
WorkIsKept ==
  \A p \in Builders :
    /\ pc[p] = "succeeded" => Closure(p) \subseteq cache
    /\ pc[p] = "uploaded" =>
         /\ journal[p] \subseteq cache \union spoiled[p]
         /\ spoiled[p] # {} => active # None \/ faults < MaxFaults - 1

=============================================================================
