---------------------------- MODULE NixStore_proofs ----------------------------
(***************************************************************************)
(* Proofs about a node's /nix, for any number of pods, closures, crashes   *)
(* and failures.                                                           *)
(***************************************************************************)
EXTENDS NixStore, FiniteSetTheorems, TLAPS

Labels == Bootstrapping \union Pulling \union Building \union Ended \union {"pending", "main"}

\* What the invariants below need of the types.
Shape ==
  /\ pc \in [Pods -> Labels]
  /\ holder \in Pods \union {None}
  /\ waitsFor \in [Pods -> Pods \union {None}]
  /\ toolchain \in {"absent", "torn", "whole"}
  /\ faults \in 0..MaxFaults

\* A call that fails uses up a fault, and none comes back.
Calm == faults = MaxFaults

HasLock == Copying \union {"unlock"}

\* As long as nothing fails: the lock is its maker's until it is removed; the
\* marker comes after the files; who waits, waits for a copy that goes on, so
\* that no lock is ever reclaimed.
BootInv ==
  Calm =>
    /\ \A p \in Pods : pc[p] \in HasLock <=> holder = p
    /\ Done => toolchain = "whole"
    /\ \A p \in Pods :
         /\ pc[p] \in Pulling \union Building \union {"main", "succeeded", "unlock"} => Done
         /\ pc[p] = "copy" => toolchain \in {"absent", "whole"}
         /\ pc[p] = "touch" => toolchain = "whole"
         /\ pc[p] \notin {"rmdir", "remake", "retest"}
         /\ pc[p] = "wait" => Done \/ (waitsFor[p] \in Pods /\ pc[waitsFor[p]] \in Copying)
    /\ toolchain = "torn" => holder # None /\ pc[holder] = "writing"

\* The flock is held by the pod in the middle of its collection, whose closure
\* has the root from then on.
FlockInv ==
  /\ \A p \in Pods : pc[p] \in {"root", "collect"} => flock = p
  /\ \A p \in Pods : pc[p] = "collect" => active = Top[p]
  /\ \A p \in Pods : pc[p] \in Pulling => p \in Consumers

-----------------------------------------------------------------------------
LEMMA ShapeInit == Init => Shape
  BY NodeAssumption DEF NodeAssumption, Init, Shape, Labels

LEMMA OnwardLabels ==
  \A left, next : Onward(left, next) \in {"look", "batch", "uploaded"}
  BY DEF Onward

\* What a step of a pod does to the labels: its own changes, the others' stay.
LEMMA ShapeStep == Shape /\ [Next]_vars => Shape'
<1> SUFFICES ASSUME Shape, [Next]_vars PROVE Shape'
  OBVIOUS
<1> USE NodeAssumption DEF NodeAssumption, Shape, Done, Goto, Step, Fault
<1>1. CASE UNCHANGED vars
  BY <1>1 DEF vars, boot
<1>2. ASSUME NEW p \in Pods, StartPod(p) \/ Bootstrap(p) PROVE Shape'
  <2> USE DEF Labels, Bootstrapping, Copying, Pulling, Building, Ended
  <2> After(p) \in Labels
    BY DEF After
  <2>1. CASE StartPod(p)
    BY <2>1 DEF StartPod, boot
  <2>2. CASE CheckDone(p)
    BY <2>2 DEF CheckDone, boot
  <2>3. CASE Mkdir(p)
    <3>1. ASSUME NEW from, NEW else \in Labels, MakeLock(p, from, else) PROVE Shape'
      BY <3>1 DEF MakeLock
    <3> QED BY <2>3, <3>1 DEF Mkdir
  <2>4. CASE TestLock(p)
    BY <2>4 DEF TestLock
  <2>5. CASE Wait(p)
    BY <2>5 DEF Wait, boot
  <2>6. CASE ReclaimLock(p)
    BY <2>6 DEF ReclaimLock
  <2>7. CASE BootstrapCopy(p)
    BY <2>7 DEF BootstrapCopy
  <2> QED BY <1>2, <2>1, <2>2, <2>3, <2>4, <2>5, <2>6, <2>7 DEF Bootstrap
<1>3. ASSUME NEW p \in Pods, Pull(p) \/ CopyFails(p) PROVE Shape'
  <2> USE DEF Labels, Pulling, Building, Ended
  <2>1. CASE MeasureBefore(p)
    BY <2>1 DEF MeasureBefore, boot
  <2>2. CASE RunCopy(p)
    BY <2>2 DEF RunCopy, boot
  <2>3. CASE CopyPath(p)
    BY <2>3 DEF CopyPath, boot
  <2>4. CASE CopyDone(p)
    BY <2>4 DEF CopyDone, boot
  <2>5. CASE CopyFails(p)
    BY <2>5 DEF CopyFails, boot
  <2>6. CASE CheckBudget(p)
    BY <2>6 DEF CheckBudget, boot
  <2>7. CASE TakeFlock(p)
    BY <2>7 DEF TakeFlock, boot
  <2>8. CASE Root(p)
    BY <2>8 DEF Root, boot
  <2>9. CASE CollectGarbage(p)
    BY <2>9 DEF CollectGarbage, boot
  <2> QED BY <1>3, <2>1, <2>2, <2>3, <2>4, <2>5, <2>6, <2>7, <2>8, <2>9 DEF Pull
<1>4. ASSUME NEW p \in Pods, Build(p) \/ BuildFails(p) \/ Crash(p) PROVE Shape'
  <2> USE DEF Labels, Building, Ended
  <2>1. CASE BeginBuild(p)
    BY <2>1 DEF BeginBuild, boot
  <2>2. CASE BuildPath(p)
    BY <2>2 DEF BuildPath, boot
  <2>3. CASE BuildDone(p)
    BY <2>3 DEF BuildDone, boot
  <2>4. CASE BuildFails(p)
    BY <2>4, OnwardLabels DEF BuildFails, boot
  <2>5. CASE CopyOut(p)
    BY <2>5 DEF CopyOut, boot
  <2>6. CASE LookAt(p)
    BY <2>6, OnwardLabels DEF LookAt, boot
  <2>7. CASE copy_partial_batch(p)
    BY <2>7, OnwardLabels DEF copy_partial_batch, CopyEnds, boot
  <2>8. CASE Push(p)
    BY <2>8 DEF Push, CopyEnds, boot
  <2>9. CASE Crash(p)
    BY <2>9 DEF Crash, boot
  <2> QED BY <1>4, <2>1, <2>2, <2>3, <2>4, <2>5, <2>6, <2>7, <2>8, <2>9 DEF Build
<1> QED BY <1>1, <1>2, <1>3, <1>4 DEF Next, PodStep

-----------------------------------------------------------------------------
(* The bootstrap.                                                          *)

LEMMA BootInit == Init => BootInv
  BY NodeAssumption DEF NodeAssumption, Init, BootInv, HasLock, Copying, Pulling, Building, Done

LEMMA FaultsFall == [Next]_vars => UNCHANGED faults \/ Fault
  BY Zenon DEF Next, PodStep, StartPod, Bootstrap, CheckDone, Mkdir, MakeLock, TestLock, Wait,
     ReclaimLock, BootstrapCopy, Pull, MeasureBefore, RunCopy, CopyPath, CopyDone, CopyFails,
     CheckBudget, TakeFlock, Root, CollectGarbage, Build, BeginBuild, BuildPath, BuildDone,
     BuildFails, CopyOut, LookAt, copy_partial_batch, CopyEnds, Push, Crash, vars

\* No step gives a fault back.
LEMMA CalmBefore == Shape /\ [Next]_vars /\ Calm' => Calm /\ UNCHANGED faults
  BY FaultsFall, NodeAssumption DEF Fault, Calm, Shape, NodeAssumption

\* A pod past the bootstrap disturbs nothing.
Past == Pulling \union Building \union {"main", "succeeded"}

LEMMA PastBootstrap ==
  ASSUME BootInv, Shape, NEW p \in Pods, UNCHANGED boot, Calm,
         pc[p] \in Past, NEW l \in Past \union {"failed", "uploaded"}, Goto(p, l) \/ UNCHANGED pc
  PROVE  BootInv'
BY DEF BootInv, Shape, boot, Past, Goto, HasLock, Copying, Pulling, Building, Done

LEMMA BootStep == Shape /\ BootInv /\ [Next]_vars => BootInv'
<1> SUFFICES ASSUME Shape, BootInv, [Next]_vars, Calm' PROVE BootInv'
  BY DEF BootInv
<1>0. Calm /\ UNCHANGED faults
  BY CalmBefore
<1> USE <1>0
<1> USE DEF Goto, Step
<1>1. CASE UNCHANGED vars
  BY <1>1 DEF vars, boot, BootInv, Done
<1>2. ASSUME NEW p \in Pods, StartPod(p) \/ Bootstrap(p) PROVE BootInv'
  <2> USE DEF BootInv, Shape, HasLock, Copying, Pulling, Building, Done
  <2>0. ~Fault /\ None \notin Pods
    BY <1>0, NodeAssumption DEF Fault, Calm, NodeAssumption
  <2> USE <2>0
  <2>1. CASE StartPod(p)
    BY <2>1 DEF StartPod, boot
  <2>2. CASE CheckDone(p)
    <3>1. UNCHANGED boot /\ pc[p] = "start"
      BY <2>2 DEF CheckDone, boot
    <3>2. CASE Done /\ Goto(p, After(p))
      BY <3>1, <3>2 DEF boot, After
    <3>3. CASE ~Done /\ Goto(p, "mkdir")
      BY <3>1, <3>3 DEF boot
    <3> QED BY <2>2, <3>2, <3>3 DEF CheckDone
  <2>3. CASE Mkdir(p)
    <3>1. MakeLock(p, "mkdir", "test")
      BY <2>3 DEF Mkdir, MakeLock
    <3>2. CASE holder = None
      <4>1. pc'[p] = "copy" /\ \A q \in Pods \ {p} : pc'[q] = pc[q]
        BY <3>1, <3>2 DEF MakeLock, Goto, Shape
      <4>2. pc[p] = "mkdir" /\ holder' = p /\ UNCHANGED <<marker, waitsFor, toolchain>>
        BY <3>1, <3>2 DEF MakeLock
      <4> QED BY <4>1, <4>2, <3>2 DEF BootInv
    <3>3. CASE holder # None
      <4>1. pc'[p] = "test" /\ \A q \in Pods \ {p} : pc'[q] = pc[q]
        BY <3>1, <3>3 DEF MakeLock, Goto, Shape
      <4>2. pc[p] = "mkdir" /\ UNCHANGED <<marker, waitsFor, holder, toolchain>>
        BY <3>1, <3>3 DEF MakeLock
      <4> QED BY <4>1, <4>2, <3>3 DEF BootInv
    <3> QED BY <3>2, <3>3
  <2>4. CASE TestLock(p)
    BY <2>4 DEF TestLock
  <2>5. CASE Wait(p)
    BY <2>5 DEF Wait, boot, After
  <2>6. CASE ReclaimLock(p)
    BY <2>6 DEF ReclaimLock
  <2>7. CASE BootstrapCopy(p)
    <3>1. CASE pc[p] = "copy" /\ toolchain = "absent"
      <4>1. pc'[p] = "writing" /\ \A q \in Pods \ {p} : pc'[q] = pc[q]
        BY <2>7, <3>1 DEF BootstrapCopy, Goto, Step, Shape
      <4>2. toolchain' = "torn" /\ UNCHANGED <<marker, holder, waitsFor>>
        BY <2>7, <3>1 DEF BootstrapCopy
      <4> QED BY <4>1, <4>2, <3>1 DEF BootInv
    <3>2. CASE pc[p] = "copy" /\ toolchain # "absent"
      <4>1. pc'[p] = "touch" /\ \A q \in Pods \ {p} : pc'[q] = pc[q]
        BY <2>7, <3>2 DEF BootstrapCopy, Goto, Step, Shape
      <4>2. UNCHANGED <<marker, holder, waitsFor, toolchain>>
        BY <2>7, <3>2 DEF BootstrapCopy
      <4> QED BY <4>1, <4>2, <3>2 DEF BootInv
    <3>3. CASE pc[p] = "writing"
      <4>1. pc'[p] = "touch" /\ \A q \in Pods \ {p} : pc'[q] = pc[q]
        BY <2>7, <3>3 DEF BootstrapCopy, Goto, Step, Shape
      <4>2. toolchain' = "whole" /\ UNCHANGED <<marker, holder, waitsFor>>
        BY <2>7, <3>3 DEF BootstrapCopy
      <4> QED BY <4>1, <4>2, <3>3 DEF BootInv
    <3>4. CASE pc[p] = "touch"
      <4>1. pc'[p] = "unlock" /\ \A q \in Pods \ {p} : pc'[q] = pc[q]
        BY <2>7, <3>4 DEF BootstrapCopy, Goto, Step, Shape
      <4>2. Done' /\ UNCHANGED <<toolchain, holder, waitsFor>>
        BY <2>7, <3>4 DEF BootstrapCopy
      <4> QED BY <4>1, <4>2, <3>4 DEF BootInv
    <3>5. CASE pc[p] = "unlock"
      <4>1. pc'[p] \in {"measure", "build"} /\ \A q \in Pods \ {p} : pc'[q] = pc[q]
        BY <2>7, <3>5 DEF BootstrapCopy, After, Goto, Step, Shape
      <4>2. holder' = None /\ UNCHANGED <<marker, toolchain, waitsFor>>
        BY <2>7, <3>5 DEF BootstrapCopy
      <4> QED BY <4>1, <4>2, <3>5 DEF BootInv
    <3> QED BY <2>7, <3>1, <3>2, <3>3, <3>4, <3>5 DEF BootstrapCopy
  <2> QED BY <1>2, <2>1, <2>2, <2>3, <2>4, <2>5, <2>6, <2>7 DEF Bootstrap
<1>3. ASSUME NEW p \in Pods, Pull(p) \/ Build(p) PROVE BootInv'
  <2>1. UNCHANGED boot
    BY <1>3, Zenon DEF Pull, MeasureBefore, RunCopy, CopyPath, CopyDone, CheckBudget, TakeFlock,
                Root, CollectGarbage, Build, BeginBuild, BuildPath, BuildDone,
                CopyOut, LookAt, copy_partial_batch, CopyEnds, Push
  <2>2. pc[p] \in Past
    BY <1>3 DEF Pull, MeasureBefore, RunCopy, CopyPath, CopyDone, CheckBudget, TakeFlock,
                Root, CollectGarbage, Build, BeginBuild, BuildPath, BuildDone,
                CopyOut, LookAt, copy_partial_batch, CopyEnds, Push, Past, Pulling, Building
  <2>3. \E l \in Past \union {"failed", "uploaded"} : Goto(p, l) \/ UNCHANGED pc
    BY <1>3, OnwardLabels
       DEF Pull, MeasureBefore, RunCopy, CopyPath, CopyDone, CheckBudget, TakeFlock, Root,
           CollectGarbage, Build, BeginBuild, BuildPath, BuildDone,
                CopyOut, LookAt, copy_partial_batch, CopyEnds, Push, Past, Pulling, Building
  <2> QED BY <2>1, <2>2, <2>3, <1>0, PastBootstrap
<1>4. ASSUME NEW p \in Pods, CopyFails(p) \/ BuildFails(p) \/ Crash(p) PROVE FALSE
  <2>1. Fault
    BY <1>4, Zenon DEF CopyFails, BuildFails, Crash
  <2> QED BY <2>1, <1>0, NodeAssumption DEF Fault, Calm, NodeAssumption
<1> QED BY <1>1, <1>2, <1>3, <1>4 DEF Next, PodStep

\* As long as no pod crashes and no copy is slower than the wait, no pod gets
\* past the bootstrap without the whole toolchain (nix-bootstrap.sh:111-194),
\* for any number of pods.
THEOREM NoTornToolchain == Spec => []ToolchainIsWhole
<1>1. Init => Shape /\ BootInv
  BY ShapeInit, BootInit
<1>2. Shape /\ BootInv /\ [Next]_vars => (Shape /\ BootInv)'
  BY ShapeStep, BootStep
<1>3. Shape /\ BootInv => ToolchainIsWhole
  BY DEF BootInv, ToolchainIsWhole, Bootstrapped, Calm
<1> QED BY <1>1, <1>2, <1>3, PTL DEF Spec

-----------------------------------------------------------------------------
(* The store.                                                              *)

LEMMA FlockInit == Init => FlockInv
  BY DEF Init, FlockInv, Pulling

LEMMA FlockStep == Shape /\ FlockInv /\ [Next]_vars => FlockInv'
<1> SUFFICES ASSUME Shape, FlockInv, [Next]_vars PROVE FlockInv'
  OBVIOUS
<1> USE DEF FlockInv, Shape
<1>1. CASE UNCHANGED vars
  BY <1>1 DEF vars, store
<1>2. ASSUME NEW p \in Pods, UNCHANGED <<flock, active>>, NEW l, Goto(p, l),
             l \notin {"root", "collect"}, l \in Pulling => p \in Consumers
      PROVE  FlockInv'
  BY <1>2 DEF Goto
<1>3. ASSUME NEW p \in Pods, StartPod(p) \/ Bootstrap(p) PROVE FlockInv'
  <2>1. UNCHANGED <<flock, active>>
    BY <1>3, Zenon DEF StartPod, Bootstrap, CheckDone, Mkdir, MakeLock, TestLock, Wait, ReclaimLock,
                BootstrapCopy, store
  <2>2. \E l \in {"start", "mkdir", "test", "retest", "wait", "rmdir", "remake", "failed", "copy",
                   "writing", "touch", "unlock", After(p)} : Goto(p, l)
    BY <1>3 DEF StartPod, Bootstrap, CheckDone, Mkdir, MakeLock, TestLock, Wait, ReclaimLock,
                BootstrapCopy, Step
  <2> QED BY <2>1, <2>2, <1>2 DEF After, Pulling
<1>4. ASSUME NEW p \in Pods, Pull(p) PROVE FlockInv'
  <2>0. p \in Consumers
    BY <1>4 DEF Pull, MeasureBefore, RunCopy, CopyPath, CopyDone, CheckBudget, TakeFlock, Root,
                CollectGarbage, Step, Pulling
  <2>1. CASE MeasureBefore(p) \/ RunCopy(p) \/ CopyDone(p) \/ CheckBudget(p)
    <3>1. UNCHANGED <<flock, active>>
      BY <2>1 DEF MeasureBefore, RunCopy, CopyDone, CheckBudget, store
    <3>2. \E l \in {"pull", "pulling", "sized", "main", "flock"} : Goto(p, l)
      BY <2>1 DEF MeasureBefore, RunCopy, CopyDone, CheckBudget, Step
    <3> QED BY <3>1, <3>2, <2>0, <1>2
  <2>2. CASE CopyPath(p)
    BY <2>2 DEF CopyPath
  <2>3. CASE TakeFlock(p)
    BY <2>3, <2>0, NodeAssumption DEF TakeFlock, Goto, NodeAssumption
  <2>4. CASE Root(p)
    BY <2>4, <2>0 DEF Root, Step, Goto
  <2>5. CASE CollectGarbage(p)
    BY <2>5 DEF CollectGarbage, Step, Goto, Pulling
  <2> QED BY <1>4, <2>1, <2>2, <2>3, <2>4, <2>5 DEF Pull
<1>5. ASSUME NEW p \in Pods, Build(p) \/ BuildFails(p) \/ CopyFails(p) PROVE FlockInv'
  <2>1. UNCHANGED <<flock, active>>
    BY <1>5, Zenon DEF Build, BeginBuild, BuildPath, BuildDone, BuildFails, CopyOut, LookAt,
                copy_partial_batch, Push, CopyFails, store
  <2>2. \/ UNCHANGED pc
        \/ \E l \in {"building", "pushing", "failed", "look", "batch", "uploaded", "succeeded"} :
             Goto(p, l)
        \/ pc[p] = "pulling" /\ Goto(p, "pull")
    BY <1>5, OnwardLabels DEF Build, BeginBuild, BuildPath, BuildDone, BuildFails, CopyOut, LookAt,
                copy_partial_batch, Push, CopyFails, Step
  <2> QED BY <2>1, <2>2, <1>2 DEF Pulling
<1>6. ASSUME NEW p \in Pods, Crash(p) PROVE FlockInv'
  BY <1>6 DEF Crash, Goto, Pulling
<1> QED BY <1>1, <1>3, <1>4, <1>5, <1>6 DEF Next, PodStep

LEMMA StoreInvariance == Spec => [](Shape /\ FlockInv)
<1>1. Init => Shape /\ FlockInv
  BY ShapeInit, FlockInit
<1>2. Shape /\ FlockInv /\ [Next]_vars => (Shape /\ FlockInv)'
  BY ShapeStep, FlockStep
<1> QED BY <1>1, <1>2, PTL DEF Spec

\* The rest of the types: COPY_ATTEMPTS bounds the attempts, for a pull that is
\* to start has one left.
Rest ==
  /\ present \subseteq Paths /\ cache \subseteq Paths
  /\ journal \in [Pods -> SUBSET Paths] /\ todo \in [Pods -> SUBSET Paths]
  /\ batch \in [Pods -> SUBSET Paths] /\ spoiled \in [Pods -> SUBSET Paths]
  /\ active \in Paths \union {None} /\ flock \in Consumers \union {None}
  /\ size \in [Pods -> Nat]
Waiting == marker \in {"absent", "made"} /\ \A p \in Pods : pc[p] = "wait" => waitsFor[p] # None
AttemptsLeft ==
  /\ tries \in [Pods -> 0..Attempts]
  /\ \A p \in Pods :
       pc[p] \in Bootstrapping \union {"pending", "measure", "pull"} => tries[p] < Attempts

LEMMA RestInit == Init => Rest /\ Waiting /\ AttemptsLeft
  BY NodeAssumption DEF NodeAssumption, Init, Rest, Waiting, AttemptsLeft

LEMMA PathsOfClosures ==
  /\ \A p \in Pods : Top[p] \in Paths /\ Closure(p) \subseteq Paths
  /\ \A S \in SUBSET Paths : ClosureOf(S) \subseteq Paths
  BY NodeAssumption DEF NodeAssumption, Closure, ClosureOf

LEMMA SizeIsNat == ASSUME present \subseteq Paths PROVE Size \in Nat
  BY NodeAssumption, FS_Subset, FS_CardinalityType DEF NodeAssumption, Size

LEMMA RestStep == Shape /\ FlockInv /\ Rest /\ [Next]_vars => Rest'
<1> SUFFICES ASSUME Shape, FlockInv, Rest, [Next]_vars PROVE Rest'
  OBVIOUS
<1> USE DEF Rest
<1>1. ASSUME UNCHANGED <<store, own, cache>> PROVE Rest'
  BY <1>1 DEF store, own, upload
<1>2. ASSUME NEW p \in Pods, Pull(p) PROVE Rest'
  <2>0. p \in Consumers
    BY <1>2 DEF Pull, MeasureBefore, RunCopy, CopyPath, CopyDone, CheckBudget, TakeFlock, Root,
                CollectGarbage, Step, Pulling, FlockInv
  <2>1. CASE MeasureBefore(p) \/ CopyDone(p)
    BY <2>1, SizeIsNat DEF MeasureBefore, CopyDone, store, own, upload
  <2>2. CASE RunCopy(p) \/ CheckBudget(p)
    BY <2>2 DEF RunCopy, CheckBudget, store, own, upload
  <2>3. CASE CopyPath(p)
    BY <2>3, PathsOfClosures DEF CopyPath, own, upload
  <2>4. CASE TakeFlock(p)
    BY <2>4, <2>0 DEF TakeFlock, own, upload
  <2>5. CASE Root(p)
    BY <2>5, PathsOfClosures DEF Root, own, upload
  <2>6. CASE CollectGarbage(p)
    BY <2>6 DEF CollectGarbage, own, upload
  <2> QED BY <1>2, <2>1, <2>2, <2>3, <2>4, <2>5, <2>6 DEF Pull
<1>3. ASSUME NEW p \in Pods, Build(p) \/ BuildFails(p) PROVE Rest'
  <2> USE DEF own, upload
  <2>1. CASE BeginBuild(p) \/ BuildDone(p) \/ Push(p)
    BY <2>1 DEF BeginBuild, BuildDone, Push, store
  <2>2. CASE BuildPath(p)
    BY <2>2, PathsOfClosures DEF BuildPath
  <2>3. CASE BuildFails(p)
    BY <2>3 DEF BuildFails, store
  <2>4. CASE CopyOut(p)
    BY <2>4 DEF CopyOut, store
  <2>5. CASE LookAt(p)
    BY <2>5 DEF LookAt, store
  <2>6. CASE copy_partial_batch(p)
    BY <2>6 DEF copy_partial_batch, store
  <2> QED BY <1>3, <2>1, <2>2, <2>3, <2>4, <2>5, <2>6 DEF Build
<1>4. ASSUME NEW p \in Pods, StartPod(p) \/ Bootstrap(p) \/ CopyFails(p)
      PROVE  Rest'
  <2>1. UNCHANGED <<store, own, cache>>
    BY <1>4, Zenon DEF StartPod, Bootstrap, CheckDone, Mkdir, MakeLock, TestLock, Wait, ReclaimLock,
                BootstrapCopy, CopyFails
  <2> QED BY <2>1, <1>1
<1>5. ASSUME NEW p \in Pods, Crash(p) PROVE Rest'
  BY <1>5 DEF Crash, own, upload
<1> QED BY <1>1, <1>2, <1>3, <1>4, <1>5 DEF Next, PodStep, vars

LEMMA WaitingStep == Shape /\ Waiting /\ [Next]_vars => Waiting'
<1> SUFFICES ASSUME Shape, Waiting, [Next]_vars PROVE Waiting'
  OBVIOUS
<1> USE DEF Waiting, Shape
<1>1. CASE UNCHANGED vars
  BY <1>1 DEF vars, boot
<1>2. ASSUME NEW p \in Pods, NEW l, l # "wait", Goto(p, l) \/ UNCHANGED pc,
             UNCHANGED waitsFor, marker' \in {marker, "made"}
      PROVE  Waiting'
  BY <1>2 DEF Goto
<1>3. ASSUME NEW p \in Pods, TestLock(p) PROVE Waiting'
  BY <1>3 DEF TestLock, Goto
<1>4. ASSUME NEW p \in Pods, StartPod(p) \/ Bootstrap(p), ~TestLock(p) PROVE Waiting'
  <2>1. UNCHANGED waitsFor /\ marker' \in {marker, "made"}
    BY <1>4, Zenon DEF StartPod, Bootstrap, CheckDone, Mkdir, MakeLock, Wait, ReclaimLock,
                BootstrapCopy, boot
  <2>2. \E l \in {"start", "mkdir", "test", "retest", "rmdir", "remake", "failed", "copy",
                   "writing", "touch", "unlock", After(p)} : Goto(p, l)
    BY <1>4 DEF StartPod, Bootstrap, CheckDone, Mkdir, MakeLock, Wait, ReclaimLock,
                BootstrapCopy, Step
  <2> QED BY <2>1, <2>2, <1>2 DEF After
<1>5. ASSUME NEW p \in Pods, Pull(p) \/ Build(p) \/ CopyFails(p) \/ BuildFails(p) \/ Crash(p)
      PROVE  Waiting'
  <2>1. UNCHANGED waitsFor /\ marker' \in {marker, "made"}
    BY <1>5, Zenon
       DEF Pull, MeasureBefore, RunCopy, CopyPath, CopyDone, CheckBudget, TakeFlock, Root,
                CollectGarbage, Build, BeginBuild, BuildPath, BuildDone, BuildFails, CopyFails,
                CopyOut, LookAt, copy_partial_batch, CopyEnds, Push, Crash, boot
  <2>2. UNCHANGED pc \/ \E l \in {"pull", "pulling", "sized", "main", "flock", "root", "collect",
                   "building", "pushing", "look", "batch", "failed", "uploaded", "succeeded",
                     "dead"} : Goto(p, l)
    BY <1>5, OnwardLabels
       DEF Pull, MeasureBefore, RunCopy, CopyPath, CopyDone, CheckBudget, TakeFlock, Root,
                CollectGarbage, Build, BeginBuild, BuildPath, BuildDone, BuildFails, CopyFails,
                CopyOut, LookAt, copy_partial_batch, CopyEnds, Push, Crash, Step
  <2> QED BY <2>1, <2>2, <1>2
<1> QED BY <1>1, <1>3, <1>4, <1>5 DEF Next, PodStep

LEMMA AttemptsStep == Shape /\ AttemptsLeft /\ [Next]_vars => AttemptsLeft'
<1> SUFFICES ASSUME Shape, AttemptsLeft, [Next]_vars PROVE AttemptsLeft'
  OBVIOUS
<1> USE DEF AttemptsLeft, Shape, Bootstrapping
<1> DEFINE Early == Bootstrapping \union {"pending", "measure", "pull"}
<1>1. CASE UNCHANGED vars
  BY <1>1 DEF vars, own
<1>2. ASSUME NEW p \in Pods, NEW l, Goto(p, l) \/ UNCHANGED pc, UNCHANGED tries,
             l \in Early => pc[p] \in Early
      PROVE  AttemptsLeft'
  BY <1>2 DEF Goto
<1>3. ASSUME NEW p \in Pods, StartPod(p) \/ Bootstrap(p) PROVE AttemptsLeft'
  <2>1. UNCHANGED tries /\ pc[p] \in Early
    BY <1>3, Zenon DEF StartPod, Bootstrap, CheckDone, Mkdir, MakeLock, TestLock, Wait, ReclaimLock,
                BootstrapCopy, Step, own, Bootstrapping
  <2>2. \E l : Goto(p, l)
    BY <1>3, Zenon DEF StartPod, Bootstrap, CheckDone, Mkdir, MakeLock, TestLock, Wait, ReclaimLock,
                BootstrapCopy, Step
  <2> QED BY <2>1, <2>2, <1>2
<1>4. ASSUME NEW p \in Pods, RunCopy(p) PROVE AttemptsLeft'
  BY <1>4, NodeAssumption DEF RunCopy, Goto, NodeAssumption
<1>5. ASSUME NEW p \in Pods, CopyFails(p) PROVE AttemptsLeft'
  BY <1>5, NodeAssumption DEF CopyFails, Goto, own, NodeAssumption
<1>6. ASSUME NEW p \in Pods, Pull(p) \/ Build(p) \/ BuildFails(p) \/ Crash(p), ~RunCopy(p)
      PROVE  AttemptsLeft'
  <2>1. UNCHANGED tries
    BY <1>6, Zenon DEF Pull, MeasureBefore, CopyPath, CopyDone, CheckBudget, TakeFlock, Root,
                CollectGarbage, Build, BeginBuild, BuildPath, BuildDone, BuildFails,
                CopyOut, LookAt, copy_partial_batch, CopyEnds, Push, Crash, own
  <2>2. \/ UNCHANGED pc
        \/ \E l \in {"sized", "main", "flock", "root", "collect",
                     "building", "pushing", "look", "batch", "failed", "uploaded", "succeeded",
                     "dead"} : Goto(p, l)
        \/ pc[p] = "measure" /\ Goto(p, "pull")
    BY <1>6, OnwardLabels DEF Pull, MeasureBefore, CopyPath, CopyDone, CheckBudget, TakeFlock, Root,
                CollectGarbage, Build, BeginBuild, BuildPath, BuildDone, BuildFails,
                CopyOut, LookAt, copy_partial_batch, CopyEnds, Push, Crash, Step
  <2> QED BY <2>1, <2>2, <1>2
<1> QED BY <1>1, <1>3, <1>4, <1>5, <1>6 DEF Next, PodStep

(* The types hold in every reachable state, for any finite store: among    *)
(* them, that no pull is tried more often than COPY_ATTEMPTS allows and    *)
(* that a pod waits only for a pod that has made the lock.                 *)
THEOREM NodeTypes == Spec => []TypeOK
<1>1. Shape /\ Rest /\ Waiting /\ AttemptsLeft => TypeOK
  BY DEF Shape, Labels, Rest, Waiting, AttemptsLeft, TypeOK
<1> QED BY <1>1, StoreInvariance, RestInit, RestStep, WaitingStep, AttemptsStep, PTL DEF Spec

\* Only a collection takes paths off the node.
LEMMA OnlyGcDeletes ==
  ASSUME NEW p \in Pods, PodStep(p) \/ CopyFails(p) \/ BuildFails(p) \/ Crash(p), ~CollectGarbage(p)
  PROVE  present \subseteq present'
BY DEF PodStep, StartPod, Bootstrap, CheckDone, Mkdir, MakeLock, TestLock, Wait,
     ReclaimLock, BootstrapCopy, Pull, MeasureBefore, RunCopy, CopyPath, CopyDone, CopyFails,
     CheckBudget, TakeFlock, Root, Build, BeginBuild, BuildPath, BuildDone,
     BuildFails, CopyOut, LookAt, copy_partial_batch, CopyEnds, Push, Crash, store

\* A pulled closure is taken off the node only by the collection of a pod with
\* another one, for any number of pods and failures (nix-gc.sh:55-96).
THEOREM PulledClosuresAreKept == Spec => PulledIsKept
<1> DEFINE Lost(p) == /\ pc[p] \in {"sized", "flock", "root", "collect", "main"}
                      /\ Closure(p) \subseteq present /\ ~(Closure(p) \subseteq present')
           Kept == \A p \in Consumers : Lost(p) =>
                     \E q \in Consumers : pc[q] = "collect" /\ pc'[q] = "main" /\ Top[q] # Top[p]
<1>1. Shape /\ FlockInv /\ [Next]_vars => [Kept]_vars
  <2> SUFFICES ASSUME Shape, FlockInv, Next, NEW p \in Consumers, Lost(p)
               PROVE  \E q \in Consumers : pc[q] = "collect" /\ pc'[q] = "main" /\ Top[q] # Top[p]
    OBVIOUS
  <2>1. PICK q \in Pods : CollectGarbage(q)
    BY OnlyGcDeletes DEF Next
  <2>2. pc[q] = "collect" /\ pc'[q] = "main" /\ q \in Consumers /\ active = Top[q]
    BY <2>1 DEF CollectGarbage, Step, Goto, Shape, FlockInv, Pulling
  <2>3. Rooted = Closure(q)
    BY <2>2, NodeAssumption DEF Rooted, Closure, NodeAssumption
  <2>4. PICK dead \in SUBSET (present \ (Rooted \union InUse)) : present' = present \ dead
    BY <2>1 DEF CollectGarbage
  <2>5. ~(Closure(p) \subseteq Closure(q))
    BY <2>3, <2>4
  <2> QED BY <2>2, <2>5 DEF Closure
<1> QED BY <1>1, StoreInvariance, PTL DEF Spec, PulledIsKept

-----------------------------------------------------------------------------
(* What the build pods have built.                                         *)

Uploading == {"look", "batch"}

\* What the hook recorded is in the cache, reported, or still on its way.
Covered(p) ==
  /\ pc[p] = "succeeded" => Closure(p) \subseteq cache
  /\ pc[p] \in Uploading \union {"uploaded"} =>
       journal[p] \subseteq cache \union todo[p] \union batch[p] \union spoiled[p]
  /\ pc[p] = "uploaded" => todo[p] = {} /\ batch[p] = {}
  /\ batch[p] # {} => pc[p] \in Uploading \union {"dead"}

\* As long as no pod has made a root, nothing has been collected: then only a
\* failure beside that of the build makes an upload report a loss.
Unspoiled(p) ==
  /\ pc[p] \in Uploading => ~Calm
  /\ spoiled[p] # {} => active # None \/ faults < MaxFaults - 1
  /\ active = None => journal[p] \union todo[p] \union batch[p] \subseteq present

WorkInv ==
  /\ \A p \in Pods : Covered(p) /\ Unspoiled(p)
  /\ active = None => Closed(present)

LEMMA WorkInit == Init => WorkInv
  BY NodeAssumption DEF NodeAssumption, Init, WorkInv, Covered, Unspoiled, Uploading

LEMMA OnwardEnds ==
  \A left, next : Onward(left, next) = "uploaded" => left = {} /\ next = {}
  BY DEF Onward

LEMMA ClosedGrows ==
  ASSUME NEW q \in Paths, Closed(present), Refs[q] \subseteq present
  PROVE  Closed(present \union {q})
BY DEF Closed, ClosureOf

\* The steps that have nothing to do with an upload.
LEMMA WorkElsewhere ==
  ASSUME Shape, WorkInv, NEW p \in Pods, UNCHANGED <<journal, upload, cache>>,
         faults' \in Int, faults' <= faults, active # None => active' # None,
         active' = None => present \subseteq present' /\ (Closed(present) => Closed(present)'),
         \/ UNCHANGED pc
         \/ \E l : Goto(p, l) /\ l \notin Uploading \union {"uploaded", "succeeded"}
                   /\ (pc[p] \in Uploading \union {"dead"} => l = "dead")
  PROVE  WorkInv'
<1>1. faults \in Int /\ faults <= MaxFaults /\ MaxFaults \in Int
  BY NodeAssumption DEF Shape, NodeAssumption
<1> SUFFICES ASSUME NEW r \in Pods PROVE Covered(r)' /\ Unspoiled(r)'
  BY DEF WorkInv
<1>2. \/ pc'[r] = pc[r]
      \/ /\ pc'[r] \notin Uploading \union {"uploaded", "succeeded"}
         /\ pc[r] \in Uploading \union {"dead"} => pc'[r] = "dead"
  BY DEF Goto, Shape
<1>3. Covered(r)
  BY DEF WorkInv
<1>4. Unspoiled(r)
  BY DEF WorkInv
<1>5. Covered(r)'
  BY <1>2, <1>3 DEF Covered, upload, Uploading, Closure, ClosureOf
<1>6. Unspoiled(r)'
  BY <1>1, <1>2, <1>4 DEF Unspoiled, upload, Uploading, Calm
<1> QED BY <1>5, <1>6

LEMMA WorkStep == Shape /\ FlockInv /\ Rest /\ WorkInv /\ [Next]_vars => WorkInv'
<1> SUFFICES ASSUME Shape, FlockInv, Rest, WorkInv, [Next]_vars PROVE WorkInv'
  OBVIOUS
<1>0. /\ faults' <= faults /\ faults <= MaxFaults
      /\ faults \in Int /\ faults' \in Int /\ MaxFaults \in Int
  BY FaultsFall, NodeAssumption DEF Fault, Shape, NodeAssumption
<1>1. CASE UNCHANGED vars
  BY <1>1 DEF vars, store, own, upload, WorkInv, Covered, Unspoiled, Calm
<1>2. ASSUME NEW p \in Pods, StartPod(p) \/ Bootstrap(p) \/ CopyFails(p) PROVE WorkInv'
  <2>1. UNCHANGED <<store, own, cache>>
    BY <1>2, Zenon DEF StartPod, Bootstrap, CheckDone, Mkdir, MakeLock, TestLock, Wait, ReclaimLock,
                BootstrapCopy, CopyFails
  <2>2. \E l \in {"start", "mkdir", "test", "retest", "wait", "rmdir", "remake", "failed", "copy",
                   "writing", "touch", "unlock", "pull", After(p)} : Goto(p, l)
    BY <1>2 DEF StartPod, Bootstrap, CheckDone, Mkdir, MakeLock, TestLock, Wait, ReclaimLock,
                BootstrapCopy, CopyFails, Step
  <2>3. pc[p] \notin Uploading \union {"dead"}
    BY <1>2 DEF StartPod, Bootstrap, CheckDone, Mkdir, MakeLock, TestLock, Wait, ReclaimLock,
                BootstrapCopy, CopyFails, Step, Uploading
  <2> QED BY <1>0, <2>1, <2>2, <2>3, WorkElsewhere DEF After, Uploading, store, own, Closed
<1>3. ASSUME NEW p \in Pods, Pull(p) PROVE WorkInv'
  <2>0. p \in Consumers
    BY <1>3 DEF Pull, MeasureBefore, RunCopy, CopyPath, CopyDone, CheckBudget, TakeFlock, Root,
                CollectGarbage, Step, Pulling, FlockInv
  <2>1. CASE MeasureBefore(p) \/ RunCopy(p) \/ CopyDone(p) \/ CheckBudget(p) \/ TakeFlock(p)
    <3>1. UNCHANGED <<present, active, journal, upload, cache>>
      BY <2>1, Zenon DEF MeasureBefore, RunCopy, CopyDone, CheckBudget, TakeFlock, store, own
    <3>2. (\E l \in {"pull", "pulling", "sized", "main", "flock", "root"} : Goto(p, l))
          /\ pc[p] \notin Uploading \union {"dead"}
      BY <2>1 DEF MeasureBefore, RunCopy, CopyDone, CheckBudget, TakeFlock, Step, Uploading
    <3> QED BY <1>0, <3>1, <3>2, WorkElsewhere DEF Uploading, Closed
  <2>2. CASE CopyPath(p)
    <3>1. PICK q \in Closure(p) \ present :
            Refs[q] \subseteq present /\ present' = present \union {q}
      BY <2>2 DEF CopyPath
    <3>2. Closed(present) => Closed(present)'
      BY <3>1, PathsOfClosures, ClosedGrows DEF Closed
    <3>3. UNCHANGED <<pc, journal, upload, active, cache>>
      BY <2>2 DEF CopyPath, own
    <3> QED BY <1>0, <3>1, <3>2, <3>3, WorkElsewhere
  <2>3. CASE Root(p)
    <3>1. active' # None
      BY <2>3, NodeAssumption DEF Root, NodeAssumption
    <3>2. UNCHANGED <<journal, upload, cache, faults>> /\ pc[p] = "root" /\ Goto(p, "collect")
      BY <2>3 DEF Root, own, Step
    <3> QED BY <1>0, <3>1, <3>2, WorkElsewhere DEF Uploading
  <2>4. CASE CollectGarbage(p)
    <3>1. active' = active /\ active # None
      BY <2>4, <2>0, NodeAssumption DEF CollectGarbage, Step, FlockInv, NodeAssumption
    <3>2. UNCHANGED <<journal, upload, cache, faults>> /\ pc[p] = "collect" /\ Goto(p, "main")
      BY <2>4 DEF CollectGarbage, own, Step
    <3> QED BY <1>0, <3>1, <3>2, WorkElsewhere DEF Uploading
  <2> QED BY <1>3, <2>1, <2>2, <2>3, <2>4 DEF Pull
<1>4. ASSUME NEW p \in Pods, Crash(p) PROVE WorkInv'
  <2>1. UNCHANGED <<present, active, journal, upload, cache>> /\ Goto(p, "dead")
    BY <1>4 DEF Crash, own
  <2> QED BY <1>0, <2>1, WorkElsewhere DEF Uploading, Closed
<1>5. ASSUME NEW p \in Pods, BeginBuild(p) \/ BuildDone(p) PROVE WorkInv'
  <2>1. UNCHANGED <<present, active, journal, upload, cache>> /\ pc[p] \notin Uploading \union {"dead"}
    BY <1>5 DEF BeginBuild, BuildDone, store, own, Step, Uploading
  <2>2. \E l \in {"building", "pushing", "failed"} : Goto(p, l)
    BY <1>5 DEF BeginBuild, BuildDone, Step
  <2> QED BY <1>0, <2>1, <2>2, WorkElsewhere DEF Uploading, Closed
<1>6. ASSUME NEW p \in Pods, BuildPath(p) PROVE WorkInv'
  <2>1. PICK q \in Closure(p) \ present :
          /\ Refs[q] \subseteq present /\ present' = present \union {q}
          /\ UNCHANGED journal \/ journal' = [journal EXCEPT ![p] = @ \union {q}]
    BY <1>6 DEF BuildPath
  <2>2. UNCHANGED <<pc, active, upload, cache>> /\ pc[p] = "building"
    BY <1>6 DEF BuildPath
  <2>3. Closed(present) => Closed(present)'
    BY <2>1, PathsOfClosures, ClosedGrows DEF Closed
  <2>4. ASSUME NEW r \in Pods PROVE Covered(r)' /\ Unspoiled(r)'
    <3>1. Covered(r)'
      BY <2>1, <2>2, <2>4 DEF WorkInv, Covered, Rest, upload, Uploading
    <3>2. journal'[r] \subseteq journal[r] \union {q}
      BY <2>1, <2>4 DEF Rest
    <3>3. Unspoiled(r)'
      BY <1>0, <2>1, <2>2, <2>4, <3>2 DEF WorkInv, Unspoiled, upload, Uploading, Calm
    <3> QED BY <3>1, <3>3
  <2> QED BY <2>2, <2>3, <2>4 DEF WorkInv
<1>7. ASSUME NEW p \in Pods, BuildFails(p) PROVE WorkInv'
  <2>1. /\ UNCHANGED <<store, journal, batch, spoiled, cache>>
        /\ pc[p] = "building" /\ faults' < faults
    BY <1>0, <1>7, NodeAssumption DEF BuildFails, Fault, Shape, NodeAssumption
  <2>2. CASE Goto(p, "failed") /\ UNCHANGED todo
    BY <1>0, <2>1, <2>2, WorkElsewhere DEF upload, store, Uploading, Closed
  <2>3. CASE todo' = [todo EXCEPT ![p] = journal[p]] /\ Goto(p, Onward(journal[p], {}))
    <3>1. pc'[p] \in Uploading \union {"uploaded"} /\ (pc'[p] = "uploaded" => todo'[p] = {})
          /\ \A r \in Pods \ {p} : pc'[r] = pc[r]
      BY <2>3, OnwardLabels, OnwardEnds DEF Goto, Shape, Rest, Uploading
    <3>2. todo'[p] = journal[p] /\ \A r \in Pods \ {p} : todo'[r] = todo[r]
      BY <2>3 DEF Rest
    <3>3. batch[p] = {}
      BY <2>1 DEF WorkInv, Covered, Uploading
    <3>4. ASSUME NEW r \in Pods PROVE Covered(r)'
      BY <2>1, <3>1, <3>2, <3>3, <3>4 DEF WorkInv, Covered, Uploading
    <3>5. ASSUME NEW r \in Pods PROVE Unspoiled(r)'
      BY <1>0, <2>1, <3>1, <3>2, <3>5 DEF WorkInv, Unspoiled, store, Uploading, Calm, Shape
    <3> QED BY <2>1, <3>4, <3>5 DEF WorkInv, store, Closed
  <2> QED BY <1>7, <2>2, <2>3 DEF BuildFails
<1>8. ASSUME NEW p \in Pods, CopyOut(p) PROVE WorkInv'
  <2>1. cache \subseteq cache' /\ UNCHANGED <<pc, store, own, faults>>
    BY <1>8 DEF CopyOut
  <2> QED BY <2>1 DEF store, own, upload, WorkInv, Covered, Unspoiled, Calm, Closed
<1>9. ASSUME NEW p \in Pods, LookAt(p) PROVE WorkInv'
  <2>1. PICK q \in todo[p] :
       /\ todo' = [todo EXCEPT ![p] = @ \ {q}]
       /\ \/ /\ q \in present
             /\ batch' = [batch EXCEPT ![p] = @ \union {q}]
             /\ UNCHANGED <<spoiled, faults>>
          \/ /\ IF q \in present THEN Fault ELSE UNCHANGED faults
             /\ spoiled' = [spoiled EXCEPT ![p] = @ \union {q}]
             /\ UNCHANGED batch
       /\ Goto(p, Onward(todo'[p], batch'[p]))
    BY <1>9 DEF LookAt
  <2>2. UNCHANGED <<store, journal, cache>> /\ pc[p] = "look"
    BY <1>9 DEF LookAt
  <2>3. /\ pc'[p] \in Uploading \union {"uploaded"}
        /\ pc'[p] = "uploaded" => todo'[p] = {} /\ batch'[p] = {}
        /\ \A r \in Pods \ {p} : pc'[r] = pc[r]
    BY <2>1, OnwardLabels, OnwardEnds DEF Goto, Shape, Uploading
  <2>4. \A r \in Pods \ {p} : todo'[r] = todo[r] /\ batch'[r] = batch[r] /\ spoiled'[r] = spoiled[r]
    BY <2>1 DEF Rest
  <2>5. todo'[p] = todo[p] \ {q} /\ todo[p] \subseteq todo'[p] \union batch'[p] \union spoiled'[p]
        /\ batch[p] \subseteq batch'[p] /\ spoiled[p] \subseteq spoiled'[p]
        /\ batch'[p] \subseteq batch[p] \union {q}
    BY <2>1 DEF Rest
  <2>6. ASSUME NEW r \in Pods PROVE Covered(r)'
    BY <2>2, <2>3, <2>4, <2>5, <2>6 DEF WorkInv, Covered, Uploading
  <2>7. spoiled'[p] # {} => active # None \/ faults' < MaxFaults - 1
    <3>1. CASE UNCHANGED spoiled /\ UNCHANGED faults
      BY <3>1 DEF WorkInv, Unspoiled
    <3>2. CASE q \notin present
      BY <3>2 DEF WorkInv, Unspoiled
    <3>3. CASE Fault
      BY <1>0, <2>2, <3>3, NodeAssumption
         DEF Fault, WorkInv, Unspoiled, Uploading, Calm, Shape, NodeAssumption
    <3> QED BY <2>1, <3>1, <3>2, <3>3
  <2>8. ASSUME NEW r \in Pods PROVE Unspoiled(r)'
    BY <1>0, <2>2, <2>3, <2>4, <2>5, <2>7, <2>8
       DEF WorkInv, Unspoiled, store, Uploading, Calm, Shape
  <2> QED BY <2>2, <2>6, <2>8 DEF WorkInv, store, Closed
<1>10. ASSUME NEW p \in Pods, copy_partial_batch(p) PROVE WorkInv'
  <2>1. PICK rc, tee \in {0, 1} :
       /\ CopyEnds(p, rc, tee)
       /\ spoiled' = IF Result(rc, tee) = 0 THEN spoiled
                     ELSE [spoiled EXCEPT ![p] = @ \union batch[p]]
    BY <1>10 DEF copy_partial_batch
  <2>2. /\ UNCHANGED <<store, journal, todo, cache>> /\ pc[p] = "batch"
        /\ batch' = [batch EXCEPT ![p] = {}] /\ Goto(p, Onward(todo[p], {}))
    BY <1>10 DEF copy_partial_batch
  <2>3. pc'[p] \in Uploading \union {"uploaded"} /\ (pc'[p] = "uploaded" => todo[p] = {})
        /\ \A r \in Pods \ {p} : pc'[r] = pc[r]
    BY <2>2, OnwardLabels, OnwardEnds DEF Goto, Shape, Uploading
  <2>4. batch'[p] = {} /\ (\A r \in Pods \ {p} : batch'[r] = batch[r] /\ spoiled'[r] = spoiled[r])
    BY <2>1, <2>2 DEF Rest
  <2>5. Wanted(p) = ClosureOf(batch[p]) /\ batch[p] \subseteq Wanted(p)
    BY <2>2 DEF Wanted, ClosureOf
  <2>6. spoiled[p] \subseteq spoiled'[p] /\ batch[p] \subseteq cache \union spoiled'[p]
    BY <2>1, <2>5 DEF CopyEnds, Result, Rest
  <2>7. spoiled'[p] # {} => active # None \/ faults' < MaxFaults - 1
    <3>1. CASE rc = 0
      BY <1>0, <2>1, <3>1 DEF Result, WorkInv, Unspoiled
    <3>2. CASE Fault
      BY <1>0, <2>2, <3>2, NodeAssumption
         DEF Fault, WorkInv, Unspoiled, Uploading, Calm, Shape, NodeAssumption
    <3>3. CASE rc # 0 /\ ~Fault
      <4>1. ~(Wanted(p) \subseteq present)
        BY <2>1, <3>3 DEF CopyEnds
      <4>2. active = None => Wanted(p) \subseteq present
        BY <2>5 DEF WorkInv, Unspoiled, Closed, ClosureOf
      <4> QED BY <4>1, <4>2
    <3> QED BY <3>1, <3>2, <3>3
  <2>8. ASSUME NEW r \in Pods PROVE Covered(r)'
    BY <2>2, <2>3, <2>4, <2>6, <2>8 DEF WorkInv, Covered, Uploading
  <2>9. ASSUME NEW r \in Pods PROVE Unspoiled(r)'
    BY <1>0, <2>2, <2>3, <2>4, <2>7, <2>9
       DEF WorkInv, Unspoiled, store, Uploading, Calm, Shape
  <2> QED BY <2>2, <2>8, <2>9 DEF WorkInv, store, Closed
<1>11. ASSUME NEW p \in Pods, Push(p) PROVE WorkInv'
  <2>1. PICK rc, tee \in {0, 1} :
       /\ CopyEnds(p, rc, tee)
       /\ Goto(p, IF rc = 0 /\ tee = 0 THEN "succeeded" ELSE "failed")
    BY <1>11 DEF Push
  <2>2. UNCHANGED <<store, own, cache>> /\ pc[p] = "pushing"
    BY <1>11 DEF Push
  <2>3. CASE rc = 0 /\ tee = 0
    <3>1. Closure(p) \subseteq cache
      BY <2>1, <2>2, <2>3 DEF CopyEnds, Wanted, Closure
    <3>2. pc'[p] = "succeeded" /\ \A r \in Pods \ {p} : pc'[r] = pc[r]
      BY <2>1, <2>3 DEF Goto, Shape
    <3>3. ASSUME NEW r \in Pods PROVE Covered(r)'
      BY <2>2, <3>1, <3>2, <3>3 DEF WorkInv, Covered, own, upload, Uploading, Closure, ClosureOf
    <3>4. ASSUME NEW r \in Pods PROVE Unspoiled(r)'
      BY <1>0, <2>2, <3>2, <3>4 DEF WorkInv, Unspoiled, store, own, upload, Uploading, Calm
    <3> QED BY <2>2, <3>3, <3>4 DEF WorkInv, store, Closed
  <2>4. CASE ~(rc = 0 /\ tee = 0)
    BY <1>0, <2>1, <2>2, <2>4, WorkElsewhere DEF store, own, Uploading, Closed
  <2> QED BY <2>3, <2>4
<1> QED
  BY <1>1, <1>2, <1>3, <1>4, <1>5, <1>6, <1>7, <1>8, <1>9, <1>10, <1>11 DEF Next, PodStep, Build

(* What a build pod has built is in the cache when it ends, or reported as *)
(* not uploaded, and nothing is reported as long as no pod has collected   *)
(* garbage and only the build fails, for any number of pods, outputs and   *)
(* batches (nix-build.sh:46-57, 109-165, 183-224).                         *)
THEOREM BuiltWorkIsKept == Spec => []WorkIsKept
<1>1. Shape /\ FlockInv /\ Rest /\ WorkInv /\ [Next]_vars => (Rest /\ WorkInv)'
  BY RestStep, WorkStep
<1>2. WorkInv => WorkIsKept
  BY DEF WorkInv, Covered, Unspoiled, WorkIsKept, Pods
<1> QED BY <1>1, <1>2, StoreInvariance, RestInit, WorkInit, PTL DEF Spec
=============================================================================
