------------------------ MODULE ArtifactStore_proofs ------------------------
(***************************************************************************)
(* Proofs about ArtifactStore, for any workflows, ttls and bounds and any  *)
(* number of launches and sweeps side by side.                             *)
(***************************************************************************)
EXTENDS ArtifactStore, TLAPS

-----------------------------------------------------------------------------
(* The inductive invariant.                                                *)

Shape ==
  /\ now \in Nat
  /\ stage = [j \in Jobs |-> stage[j]] /\ controller = [j \in Jobs |-> controller[j]]
  /\ objects = [j \in Jobs |-> objects[j]] /\ late = [j \in Jobs |-> late[j]]
  /\ markedAt \in [Jobs -> Int] /\ secret \in [Jobs -> Int]
  /\ sweep = [c \in Jobs |-> sweep[c]]

\* Before the marker is written there is no more than the sentinel.
Reserved ==
  \A j \in Jobs :
     /\ markedAt[j] = Never =>
          /\ objects[j] \subseteq {".sentinel"} /\ controller[j] = "none"
          /\ secret[j] = Never
          /\ stage[j] \notin {"assets", "secret", "create", "join", "launched"}
     /\ stage[j] \in {"idle", "sentinel", "marker"} => markedAt[j] = Never

\* A marker carries its workflow's expiry date, also once a sweep has read it,
\* and a sweep reads none whose date is to come.
RealMarker(m) == m[2] \in Jobs /\ markedAt[m[2]] # Never /\ m[1] = Expiry(m[2])

Dated ==
  /\ \A m \in markers : RealMarker(m)
  /\ \A c \in Jobs : \A m \in sweep[c].todo \union DOMAIN sweep[c].listing :
       RealMarker(m) /\ m[1] <= sweep[c].day
  /\ \A c \in Jobs : sweep[c].day \in Int /\ sweep[c].day <= Today

\* Without a marker there is only what came late.
Covered ==
  \A j \in Jobs : markedAt[j] # Never /\ ~Marked(j) => objects[j] \subseteq late[j]

\* What a sweep has not listed came late, and so did all that is left once it
\* has deleted what it listed.
ListedOrLate ==
  \A c \in Jobs : \A m \in DOMAIN sweep[c].listing :
     /\ objects[m[2]] \subseteq sweep[c].listing[m] \union late[m[2]]
     /\ sweep[c].step = "unmark" => objects[m[2]] \subseteq late[m[2]]

StoreInv == Shape /\ Reserved /\ Dated /\ Covered /\ ListedOrLate

LEMMA DivMonotone ==
  ASSUME NEW n \in Nat, NEW d \in Nat \ {0}
  PROVE  n \div d \in Nat /\ n \div d <= (n + 1) \div d
OBVIOUS

LEMMA StoreInit == Init => StoreInv
<1> SUFFICES ASSUME Init PROVE StoreInv
  OBVIOUS
<1> USE DEF Init, Idle, Thread, NoListing
<1>1. Shape
  <2>1. sweep = [c \in Jobs |-> sweep[c]]
    OBVIOUS
  <2>2. now \in Nat /\ markedAt \in [Jobs -> Int] /\ secret \in [Jobs -> Int]
    BY DEF Never
  <2>3. objects = [j \in Jobs |-> objects[j]] /\ late = [j \in Jobs |-> late[j]]
    OBVIOUS
  <2>4. stage = [j \in Jobs |-> stage[j]] /\ controller = [j \in Jobs |-> controller[j]]
    OBVIOUS
  <2> QED
    BY <2>1, <2>2, <2>3, <2>4 DEF Shape
<1>4. Reserved
  BY DEF Reserved, Never
<1>2. 0 \div TicksPerDay = 0
  BY StoreAssumption
<1>3. Dated
  BY <1>2 DEF Dated, Today
<1>5. Covered /\ ListedOrLate
  BY DEF Covered, ListedOrLate
<1> QED
  BY <1>1, <1>3, <1>4, <1>5 DEF StoreInv

\* What a Put disturbs.
LEMMA PutKeeps ==
  ASSUME StoreInv, NEW j \in Jobs, NEW o \in Objects, Put(j, o),
         UNCHANGED <<markers, markedAt, sweep>>
  PROVE  /\ objects' = [k \in Jobs |-> objects'[k]] /\ late' = [k \in Jobs |-> late'[k]]
         /\ Covered' /\ ListedOrLate'
<1> USE DEF StoreInv, Shape, Put
<1>1. objects' = [k \in Jobs |-> objects'[k]] /\ late' = [k \in Jobs |-> late'[k]]
  OBVIOUS
<1>2. Covered'
  BY DEF Covered, Marked
<1>3. ASSUME NEW c \in Jobs, NEW m \in DOMAIN sweep[c].listing
      PROVE  /\ objects'[m[2]] \subseteq sweep[c].listing[m] \union late'[m[2]]
             /\ sweep[c].step = "unmark" => objects'[m[2]] \subseteq late'[m[2]]
  <2>1. m[2] \in Jobs /\ markedAt[m[2]] # Never
    BY DEF Dated, RealMarker
  <2>2. /\ objects[m[2]] \subseteq sweep[c].listing[m] \union late[m[2]]
        /\ sweep[c].step = "unmark" => objects[m[2]] \subseteq late[m[2]]
    BY DEF ListedOrLate
  <2>3. CASE m[2] = j
    <3>1. BeingSwept(j)
      BY <2>3 DEF BeingSwept
    <3>2. late' = [late EXCEPT ![j] = @ \union {o}] /\ objects' = [objects EXCEPT ![j] = @ \union {o}]
      BY <2>1, <2>3, <3>1
    <3> QED
      BY <2>1, <2>2, <2>3, <3>2
  <2>4. CASE m[2] # j
    <3>1. late'[m[2]] = late[m[2]] /\ objects'[m[2]] = objects[m[2]]
      BY <2>1, <2>4
    <3> QED
      BY <2>2, <3>1
  <2> QED
    BY <2>3, <2>4
<1> QED
  BY <1>1, <1>2, <1>3 DEF ListedOrLate

\* What a change of one sweep's thread disturbs.
LEMMA ThreadKeepsDates ==
  ASSUME StoreInv, NEW c \in Jobs, NEW T, sweep' = [sweep EXCEPT ![c] = T],
         UNCHANGED <<now, markedAt>>, markers' \subseteq markers,
         T.day \in Int, T.day <= Today,
         \A m \in T.todo \union DOMAIN T.listing : RealMarker(m) /\ m[1] <= T.day
  PROVE  Dated' /\ sweep' = [k \in Jobs |-> sweep'[k]]
<1>1. \A m : RealMarker(m)' <=> RealMarker(m)
  BY DEF RealMarker, Expiry
<1>2. sweep'[c] = T /\ \A k \in Jobs \ {c} : sweep'[k] = sweep[k]
  BY DEF StoreInv, Shape
<1>3. Today' = Today
  BY DEF Today
<1>4. \A m \in markers' : RealMarker(m)'
  BY <1>1 DEF StoreInv, Dated
<1>5. \A k \in Jobs : \A m \in sweep'[k].todo \union DOMAIN sweep'[k].listing :
        RealMarker(m)' /\ m[1] <= sweep'[k].day
  BY <1>1, <1>2 DEF StoreInv, Dated
<1>6. \A k \in Jobs : sweep'[k].day \in Int /\ sweep'[k].day <= Today'
  BY <1>2, <1>3 DEF StoreInv, Dated
<1> QED
  BY <1>4, <1>5, <1>6 DEF Dated, StoreInv, Shape

\* A thread that starts, ends or has nothing listed disturbs no more.
LEMMA EmptyThreadKeeps ==
  ASSUME StoreInv, NEW c \in Jobs, NEW T, sweep' = [sweep EXCEPT ![c] = T],
         UNCHANGED <<objects, late, markers, markedAt>>, DOMAIN T.listing = {}
  PROVE  Covered' /\ ListedOrLate'
<1>1. sweep'[c] = T /\ \A k \in Jobs \ {c} : sweep'[k] = sweep[k]
  BY DEF StoreInv, Shape
<1>2. Covered'
  BY DEF StoreInv, Covered, Marked
<1>3. ListedOrLate'
  BY <1>1 DEF StoreInv, ListedOrLate
<1> QED
  BY <1>2, <1>3

LEMMA QuietKeeps ==
  ASSUME StoreInv, UNCHANGED <<objects, late, markers, markedAt, sweep>>
  PROVE  Covered' /\ ListedOrLate'
BY DEF StoreInv, Covered, Marked, ListedOrLate

LEMMA QuietKeepsDates ==
  ASSUME StoreInv, UNCHANGED <<now, markers, markedAt, sweep>>
  PROVE  Dated'
BY DEF StoreInv, Dated, RealMarker, Expiry, Today

LEMMA TodayIsInt == Shape => Today \in Int
BY StoreAssumption, DivMonotone DEF Shape, Today

\* The launch, one lemma per call.
LEMMA StartStep ==
  ASSUME StoreInv, NEW j \in Jobs, Start(j)
  PROVE  StoreInv'
<1> DEFINE T == Thread("markers", Today, {}, NoListing)
<1>1. /\ sweep' = [sweep EXCEPT ![j] = T] /\ T.day = Today /\ T.todo = {} /\ DOMAIN T.listing = {}
      /\ UNCHANGED <<now, objects, late, markers, markedAt, cluster, faults>>
  BY DEF Start, SweepGoes, Thread, NoListing, bucket
<1>2. Dated' /\ sweep' = [k \in Jobs |-> sweep'[k]]
  <2> HIDE DEF T
  <2>1. T.day \in Int /\ T.day <= Today
    BY <1>1, TodayIsInt DEF StoreInv
  <2>2. \A m \in T.todo \union DOMAIN T.listing : RealMarker(m) /\ m[1] <= T.day
    BY <1>1
  <2> QED
    BY <1>1, <2>1, <2>2, ThreadKeepsDates
<1>3. Covered' /\ ListedOrLate'
  <2> HIDE DEF T
  <2> QED
    BY <1>1, EmptyThreadKeeps
<1>4. stage' \in {[stage EXCEPT ![j] = "sentinel"], [stage EXCEPT ![j] = "raised"]}
  BY DEF Start, Goto
<1>5. Shape'
  BY <1>1, <1>2, <1>4 DEF StoreInv, Shape, cluster
<1>6. Reserved'
  BY <1>1, <1>4 DEF Start, StoreInv, Shape, Reserved, cluster
<1> QED
  BY <1>2, <1>3, <1>5, <1>6 DEF StoreInv

LEMMA UploadStep ==
  ASSUME StoreInv, NEW j \in Jobs, Upload(j)
  PROVE  StoreInv'
<1> DEFINE o == Uploads[stage[j]]
<1> DOMAIN Uploads = {"sentinel", "assets"}
  BY DEF Uploads
<1>1. \/ stage[j] = "sentinel" /\ o = ".sentinel" /\ stage' = [stage EXCEPT ![j] = "marker"]
      \/ stage[j] = "assets" /\ o = "assets.tar.gz" /\ stage' = [stage EXCEPT ![j] = "secret"]
  <2>1. stage[j] = "sentinel" \/ stage[j] = "assets"
    BY DEF Upload
  <2>2. stage' = [stage EXCEPT ![j] = After[stage[j]]]
    BY DEF Upload, Goto
  <2>3. CASE stage[j] = "sentinel"
    BY <2>2, <2>3 DEF Uploads, After
  <2>4. CASE stage[j] = "assets"
    BY <2>2, <2>4 DEF Uploads, After
  <2> QED
    BY <2>1, <2>3, <2>4
<1>2. o \in Objects
  BY <1>1 DEF Objects
<1>3. Put(j, o) /\ UNCHANGED <<now, markers, markedAt, sweep, cluster, faults>>
  BY DEF Upload
<1> HIDE DEF o
<1>4. /\ objects' = [k \in Jobs |-> objects'[k]] /\ late' = [k \in Jobs |-> late'[k]]
      /\ Covered' /\ ListedOrLate'
  BY <1>2, <1>3, PutKeeps
<1>5. Dated'
  BY <1>3, QuietKeepsDates
<1>6. Shape'
  BY <1>1, <1>3, <1>4 DEF StoreInv, Shape, cluster
<1>7. objects' = [objects EXCEPT ![j] = @ \union {o}]
  BY <1>3 DEF Put
<1>8. Reserved'
  BY <1>1, <1>3, <1>7 DEF StoreInv, Shape, Reserved, cluster
<1> QED
  BY <1>4, <1>5, <1>6, <1>8 DEF StoreInv

LEMMA MarkerStep ==
  ASSUME StoreInv, NEW j \in Jobs, write_ttl_marker(j)
  PROVE  StoreInv'
<1> DEFINE new == <<(now + Ttl[j]) \div TicksPerDay, j>>
<1> USE DEF StoreInv, Shape
<1>1. /\ stage[j] = "marker" /\ stage' = [stage EXCEPT ![j] = "assets"]
      /\ markedAt' = [markedAt EXCEPT ![j] = now] /\ markers' = markers \union {new}
      /\ UNCHANGED <<now, objects, late, sweep, cluster, faults>>
  BY DEF write_ttl_marker, Goto
<1>2. markedAt[j] = Never /\ now # Never /\ now \in Int
  BY <1>1 DEF Reserved, Never
<1>3. \A m : RealMarker(m) => RealMarker(m)'
  BY <1>1, <1>2 DEF RealMarker, Expiry
<1>4. RealMarker(new)'
  BY <1>1, <1>2 DEF RealMarker, Expiry
<1>5. Dated'
  <2>1. \A m \in markers' : RealMarker(m)'
    BY <1>1, <1>3, <1>4 DEF Dated
  <2> QED
    BY <1>1, <1>3, <2>1 DEF Dated, Today
<1>6. Shape'
  BY <1>1, <1>2 DEF cluster
<1>7. Reserved'
  BY <1>1, <1>2 DEF Reserved, cluster
<1>8. Covered'
  <2>1. new[2] = j /\ new \in markers'
    BY <1>1
  <2>2. Marked(j)'
    BY <2>1 DEF Marked
  <2>3. \A k \in Jobs \ {j} : markedAt'[k] = markedAt[k] /\ (Marked(k) => Marked(k)')
    BY <1>1 DEF Marked
  <2> QED
    BY <1>1, <2>2, <2>3 DEF Covered
<1>9. ListedOrLate'
  BY <1>1 DEF ListedOrLate
<1> QED
  BY <1>5, <1>6, <1>7, <1>8, <1>9

\* The calls of the launch that touch neither the bucket nor the sweeps, and
\* the end of a workflow.
ClusterStep(j) ==
  \/ CheckFails(j) \/ _create_secrets(j) \/ CreateController(j) \/ Join(j)
  \/ Raise(j) \/ Finish(j) \/ Delete(j)

LEMMA ClusterStepKeeps ==
  ASSUME StoreInv, NEW j \in Jobs, ClusterStep(j)
  PROVE  StoreInv'
<1>1. UNCHANGED <<now, objects, late, markers, markedAt, sweep>>
  BY DEF ClusterStep, CheckFails, _create_secrets, CreateController, Join, Raise, Finish, Delete, bucket
<1>2. Dated' /\ Covered' /\ ListedOrLate'
  BY <1>1, QuietKeeps, QuietKeepsDates
<1> USE DEF StoreInv, Shape, Goto, Never
<1>3. CASE CheckFails(j)
  <2>1. Shape' /\ Reserved'
    BY <1>1, <1>3 DEF CheckFails, Reserved, cluster
  <2> QED
    BY <1>2, <2>1
<1>4. CASE _create_secrets(j)
  <2>1. PICK kept \in SUBSET Stale :
          secret' = [k \in Jobs |-> IF k \in Stale \ kept THEN Never
                                   ELSE IF k = j /\ j \in HasSecret THEN now ELSE secret[k]]
    BY <1>4 DEF _create_secrets
  <2>2. /\ stage[j] = "secret" /\ stage' = [stage EXCEPT ![j] = "create"]
        /\ UNCHANGED controller
    BY <1>4 DEF _create_secrets
  <2>3. Shape'
    BY <1>1, <2>1, <2>2
  <2>4. markedAt[j] # Never
    BY <2>2 DEF Reserved
  <2>5. \A k \in Jobs : markedAt[k] = Never => secret'[k] = Never
    BY <2>1, <2>4 DEF Reserved
  <2>6. Reserved'
    BY <1>1, <2>2, <2>4, <2>5 DEF Reserved
  <2> QED
    BY <1>2, <2>3, <2>6
<1>5. CASE CreateController(j)
  <2>1. /\ stage[j] = "create" /\ controller' = [controller EXCEPT ![j] = "running"]
        /\ stage' \in {[stage EXCEPT ![j] = "join"], [stage EXCEPT ![j] = "raised"]}
        /\ UNCHANGED secret
    BY <1>5 DEF CreateController
  <2>2. Shape' /\ Reserved'
    BY <1>1, <2>1 DEF Reserved
  <2> QED
    BY <1>2, <2>2
<1>6. CASE Join(j)
  <2>1. Shape' /\ Reserved'
    BY <1>1, <1>6 DEF Join, Reserved, cluster
  <2> QED
    BY <1>2, <2>1
<1>7. CASE Raise(j)
  <2>1. Shape' /\ Reserved'
    BY <1>1, <1>7 DEF Raise, Reserved, cluster
  <2> QED
    BY <1>2, <2>1
<1>8. CASE Finish(j)
  <2>1. Shape' /\ Reserved'
    BY <1>1, <1>8 DEF Finish, Reserved
  <2> QED
    BY <1>2, <2>1
<1>9. CASE Delete(j)
  <2>1. /\ stage[j] = "launched" /\ UNCHANGED stage
        /\ controller' \in {[controller EXCEPT ![j] = "gone"], [controller EXCEPT ![j] = "condemned"]}
        /\ secret' \in {secret, [secret EXCEPT ![j] = Never]}
    BY <1>9 DEF Delete
  <2>2. Shape' /\ Reserved'
    BY <1>1, <2>1 DEF Reserved
  <2> QED
    BY <1>2, <2>2
<1> QED
  BY <1>3, <1>4, <1>5, <1>6, <1>7, <1>8, <1>9 DEF ClusterStep

LEMMA TickStep ==
  ASSUME StoreInv, Tick
  PROVE  StoreInv'
<1>1. now' = now + 1 /\ UNCHANGED <<stage, objects, late, markers, markedAt, sweep, cluster, faults>>
  BY DEF Tick, bucket
<1>2. Today \in Int /\ Today' \in Int /\ Today <= Today'
  BY <1>1, StoreAssumption, DivMonotone DEF StoreInv, Shape, Today
<1>3. Dated'
  BY <1>1, <1>2 DEF StoreInv, Dated, RealMarker, Expiry
<1>4. Covered' /\ ListedOrLate'
  BY <1>1, QuietKeeps
<1>5. Shape' /\ Reserved'
  BY <1>1 DEF StoreInv, Shape, Reserved, cluster
<1> QED
  BY <1>3, <1>4, <1>5 DEF StoreInv

LEMMA PodStep ==
  ASSUME StoreInv, NEW j \in Jobs, PodWrites(j)
  PROVE  StoreInv'
<1>1. /\ controller[j] \in {"running", "condemned"} /\ Put(j, "status.json")
      /\ UNCHANGED <<now, stage, markers, markedAt, sweep, cluster, faults>>
  BY DEF PodWrites
<1>2. "status.json" \in Objects
  BY DEF Objects
<1>3. /\ objects' = [k \in Jobs |-> objects'[k]] /\ late' = [k \in Jobs |-> late'[k]]
      /\ Covered' /\ ListedOrLate'
  BY <1>1, <1>2, PutKeeps
<1>4. Dated'
  BY <1>1, QuietKeepsDates
<1>5. objects' = [objects EXCEPT ![j] = @ \union {"status.json"}]
  BY <1>1 DEF Put
<1>6. Shape' /\ Reserved'
  BY <1>1, <1>3, <1>5 DEF StoreInv, Shape, Reserved, cluster
<1> QED
  BY <1>3, <1>4, <1>6 DEF StoreInv

\* A sweep that stops, or is stopped with its launch.
LEMMA DoneKeeps ==
  ASSUME StoreInv, NEW c \in Jobs, SweepGoes(c, Done),
         UNCHANGED <<now, objects, late, markers, markedAt>>
  PROVE  /\ Dated' /\ Covered' /\ ListedOrLate'
         /\ sweep' = [k \in Jobs |-> sweep'[k]]
<1>1. /\ Done.day = 0 /\ Done.todo = {} /\ DOMAIN Done.listing = {}
      /\ sweep' = [sweep EXCEPT ![c] = Done]
  BY DEF Done, Thread, NoListing, SweepGoes
<1>2. Done.day \in Int /\ Done.day <= Today
  BY <1>1, StoreAssumption, DivMonotone DEF StoreInv, Shape, Today
<1>3. \A m \in Done.todo \union DOMAIN Done.listing : RealMarker(m) /\ m[1] <= Done.day
  BY <1>1
<1>4. Dated' /\ sweep' = [k \in Jobs |-> sweep'[k]]
  BY <1>1, <1>2, <1>3, ThreadKeepsDates
<1>5. Covered' /\ ListedOrLate'
  BY <1>1, EmptyThreadKeeps
<1> QED
  BY <1>4, <1>5

LEMMA KillStep ==
  ASSUME StoreInv, NEW j \in Jobs, Kill(j) \/ SweepRaises(j)
  PROVE  StoreInv'
<1>1. /\ SweepGoes(j, Done) /\ UNCHANGED <<now, objects, late, markers, markedAt, cluster>>
      /\ stage' \in {stage, [stage EXCEPT ![j] = "killed"]}
  BY DEF Kill, SweepRaises, SweepGoes, Goto, bucket
<1>2. Dated' /\ Covered' /\ ListedOrLate' /\ sweep' = [k \in Jobs |-> sweep'[k]]
  BY <1>1, DoneKeeps
<1>3. Shape' /\ Reserved'
  BY <1>1, <1>2 DEF StoreInv, Shape, Reserved, cluster
<1> QED
  BY <1>2, <1>3 DEF StoreInv

LEMMA CollectStep ==
  ASSUME StoreInv, NEW c \in Jobs, _collect_expired_jobs(c)
  PROVE  StoreInv'
<1> DEFINE expired == {m \in markers : m[1] <= sweep[c].day}
           T == Thread("list", sweep[c].day, expired, NoListing)
<1>1. /\ SweepGoes(c, Done) \/ SweepGoes(c, T)
      /\ UNCHANGED <<now, stage, objects, late, markers, markedAt, cluster>>
  BY DEF _collect_expired_jobs, SweepGoes, bucket
<1>2. CASE SweepGoes(c, Done)
  <2>1. Dated' /\ Covered' /\ ListedOrLate' /\ sweep' = [k \in Jobs |-> sweep'[k]]
    BY <1>1, <1>2, DoneKeeps
  <2>2. Shape' /\ Reserved'
    BY <1>1, <2>1 DEF StoreInv, Shape, Reserved, cluster
  <2> QED
    BY <2>1, <2>2 DEF StoreInv
<1>3. CASE SweepGoes(c, T)
  <2>1. /\ sweep' = [sweep EXCEPT ![c] = T] /\ T.day = sweep[c].day /\ T.todo = expired
        /\ DOMAIN T.listing = {}
    BY <1>3 DEF SweepGoes, Thread, NoListing
  <2> HIDE DEF T
  <2>2. T.day \in Int /\ T.day <= Today
    BY <2>1 DEF StoreInv, Dated
  <2>3. \A m \in T.todo \union DOMAIN T.listing : RealMarker(m) /\ m[1] <= T.day
    BY <2>1 DEF StoreInv, Dated
  <2>4. Dated' /\ sweep' = [k \in Jobs |-> sweep'[k]]
    BY <1>1, <2>1, <2>2, <2>3, ThreadKeepsDates
  <2>5. Covered' /\ ListedOrLate'
    BY <1>1, <2>1, EmptyThreadKeeps
  <2>6. Shape' /\ Reserved'
    BY <1>1, <2>4 DEF StoreInv, Shape, Reserved, cluster
  <2> QED
    BY <2>4, <2>5, <2>6 DEF StoreInv
<1> QED
  BY <1>1, <1>2, <1>3

LEMMA ListStep ==
  ASSUME StoreInv, NEW c \in Jobs, ListArtifacts(c)
  PROVE  StoreInv'
<1>1. PICK m \in sweep[c].todo :
        \E listing \in {Add(c, m, objects[m[2]]), sweep[c].listing} : Further(c, m, listing)
  BY DEF ListArtifacts
<1>2. PICK listing \in {Add(c, m, objects[m[2]]), sweep[c].listing} : Further(c, m, listing)
  BY <1>1
<1> DEFINE step == IF sweep[c].todo \ {m} = {} THEN "delete" ELSE "list"
           T == Thread(step, sweep[c].day, sweep[c].todo \ {m}, listing)
<1>3. UNCHANGED <<now, stage, objects, late, markers, markedAt, cluster>>
  BY DEF ListArtifacts, bucket
<1>4. /\ sweep' = [sweep EXCEPT ![c] = T] /\ T.day = sweep[c].day
      /\ T.todo \subseteq sweep[c].todo /\ T.listing = listing /\ T.step # "unmark"
  BY <1>2 DEF Further, SweepGoes, Thread
<1> HIDE DEF T, step
<1>5. /\ DOMAIN listing \subseteq DOMAIN sweep[c].listing \union {m}
      /\ \A n \in DOMAIN listing : listing[n] = objects[n[2]]
                                   \/ (n \in DOMAIN sweep[c].listing /\ listing[n] = sweep[c].listing[n])
  <2>1. CASE listing = sweep[c].listing
    BY <2>1
  <2>2. CASE listing = Add(c, m, objects[m[2]])
    <3>1. /\ DOMAIN listing = DOMAIN sweep[c].listing \union {m}
          /\ \A n \in DOMAIN sweep[c].listing \union {m} :
               listing[n] = IF n = m THEN objects[m[2]] ELSE sweep[c].listing[n]
      BY <2>2 DEF Add
    <3>2. ASSUME NEW n \in DOMAIN listing
          PROVE  listing[n] = objects[n[2]]
                 \/ (n \in DOMAIN sweep[c].listing /\ listing[n] = sweep[c].listing[n])
      <4>1. CASE n = m
        BY <3>1, <4>1
      <4>2. CASE n # m
        <5>1. n \in DOMAIN sweep[c].listing /\ n \in DOMAIN sweep[c].listing \union {m}
          BY <3>1, <4>2
        <5> QED
          BY <3>1, <4>2, <5>1
      <4> QED
        BY <4>1, <4>2
    <3>3. DOMAIN listing \subseteq DOMAIN sweep[c].listing \union {m}
      BY <3>1
    <3> QED
      BY <3>2, <3>3
  <2> QED
    BY <1>2, <2>1, <2>2
<1>6. Dated' /\ sweep' = [k \in Jobs |-> sweep'[k]]
  <2>1. T.day \in Int /\ T.day <= Today
    BY <1>4 DEF StoreInv, Dated
  <2>2. \A n \in T.todo \union DOMAIN T.listing : RealMarker(n) /\ n[1] <= T.day
    BY <1>1, <1>4, <1>5 DEF StoreInv, Dated
  <2> QED
    BY <1>3, <1>4, <2>1, <2>2, ThreadKeepsDates
<1>7. sweep'[c] = T /\ \A k \in Jobs \ {c} : sweep'[k] = sweep[k]
  BY <1>4 DEF StoreInv, Shape
<1>8. ListedOrLate'
  <2>1. ASSUME NEW n \in DOMAIN T.listing
        PROVE  objects[n[2]] \subseteq T.listing[n] \union late[n[2]]
    BY <1>4, <1>5 DEF StoreInv, ListedOrLate
  <2>2. ASSUME NEW k \in Jobs, NEW n \in DOMAIN sweep'[k].listing
        PROVE  /\ objects'[n[2]] \subseteq sweep'[k].listing[n] \union late'[n[2]]
               /\ sweep'[k].step = "unmark" => objects'[n[2]] \subseteq late'[n[2]]
    <3>1. CASE k = c
      BY <1>3, <1>4, <1>7, <2>1, <3>1
    <3>2. CASE k # c
      <4>1. sweep'[k] = sweep[k]
        BY <1>7, <3>2
      <4> QED
        BY <1>3, <4>1 DEF StoreInv, ListedOrLate
    <3> QED
      BY <3>1, <3>2
  <2> QED
    BY <2>2 DEF ListedOrLate
<1>9. Covered'
  BY <1>3 DEF StoreInv, Covered, Marked
<1>10. Shape' /\ Reserved'
  BY <1>3, <1>6 DEF StoreInv, Shape, Reserved, cluster
<1> QED
  BY <1>6, <1>8, <1>9, <1>10 DEF StoreInv

\* What is deleted was listed under a marker whose date has come.
LEMMA DeletedWasDue ==
  ASSUME StoreInv, NEW c \in Jobs, NEW j \in Jobs, NEW o, <<j, o>> \in all_artifacts(c)
  PROVE  markedAt[j] # Never /\ Expiry(j) <= Today
<1>1. PICK m \in DOMAIN sweep[c].listing : <<j, o>> \in {m[2]} \X sweep[c].listing[m]
  BY DEF all_artifacts
<1>2. m[2] = j
  BY <1>1
<1>3. /\ markedAt[j] # Never /\ m[1] = Expiry(j) /\ m[1] <= sweep[c].day
      /\ sweep[c].day <= Today /\ sweep[c].day \in Int
  BY <1>2 DEF StoreInv, Dated, RealMarker
<1>4. Expiry(j) \in Int /\ Today \in Int
  BY StoreAssumption, TodayIsInt DEF StoreInv, Shape, Expiry
<1> QED
  BY <1>3, <1>4

LEMMA DeleteStep ==
  ASSUME StoreInv, NEW c \in Jobs, DeleteArtifacts(c)
  PROVE  StoreInv'
<1>1. PICK failed \in SUBSET all_artifacts(c) :
        LET deleted == all_artifacts(c) \ failed
            all == sweep[c].listing
            gone == {m \in DOMAIN all : ({m[2]} \X all[m]) \cap failed = {}}
        IN  /\ objects' = [j \in Jobs |-> {o \in objects[j] : <<j, o>> \notin deleted}]
            /\ late' = [j \in Jobs |-> {o \in late[j] : <<j, o>> \notin deleted}]
            /\ \/ SweepGoes(c, Thread("unmark", sweep[c].day, {}, Restrict(all, gone)))
               \/ SweepGoes(c, Done)
  BY DEF DeleteArtifacts
<1> DEFINE deleted == all_artifacts(c) \ failed
           gone == {m \in DOMAIN sweep[c].listing : ({m[2]} \X sweep[c].listing[m]) \cap failed = {}}
           U == Thread("unmark", sweep[c].day, {}, Restrict(sweep[c].listing, gone))
           T == IF sweep'[c] = Done THEN Done ELSE U
<1>2. /\ objects' = [j \in Jobs |-> {o \in objects[j] : <<j, o>> \notin deleted}]
      /\ late' = [j \in Jobs |-> {o \in late[j] : <<j, o>> \notin deleted}]
      /\ SweepGoes(c, U) \/ SweepGoes(c, Done)
  BY <1>1
<1>3. UNCHANGED <<now, stage, markers, markedAt, cluster>>
  BY DEF DeleteArtifacts
<1>4. /\ U.day = sweep[c].day /\ U.todo = {} /\ U.step = "unmark"
      /\ U.listing = [m \in gone |-> sweep[c].listing[m]]
      /\ Done.day = 0 /\ Done.todo = {} /\ DOMAIN Done.listing = {} /\ Done.step = "done"
  BY DEF Thread, Restrict, Done, NoListing
<1>5. PICK V \in {U, Done} : sweep' = [sweep EXCEPT ![c] = V]
  BY <1>2 DEF SweepGoes
<1>6. gone \subseteq DOMAIN sweep[c].listing
  OBVIOUS
<1>7. \A m \in gone : \A o \in sweep[c].listing[m] : <<m[2], o>> \in deleted
  <2>1. ASSUME NEW m \in gone, NEW o \in sweep[c].listing[m]
        PROVE  <<m[2], o>> \in deleted
    <3>1. <<m[2], o>> \in {m[2]} \X sweep[c].listing[m] /\ m \in DOMAIN sweep[c].listing
      OBVIOUS
    <3>2. <<m[2], o>> \in all_artifacts(c) /\ <<m[2], o>> \notin failed
      BY <3>1 DEF all_artifacts
    <3> QED
      BY <3>2
  <2> QED
    BY <2>1
<1> HIDE DEF deleted, gone, U
<1>8. Dated' /\ sweep' = [k \in Jobs |-> sweep'[k]]
  <2>1. V.day \in Int /\ V.day <= Today
    BY <1>4, StoreAssumption, DivMonotone DEF StoreInv, Shape, Dated, Today
  <2>2. \A m \in V.todo \union DOMAIN V.listing : RealMarker(m) /\ m[1] <= V.day
    BY <1>4, <1>6 DEF StoreInv, Dated
  <2> QED
    BY <1>3, <1>5, <2>1, <2>2, ThreadKeepsDates
<1>9. sweep'[c] = V /\ \A k \in Jobs \ {c} : sweep'[k] = sweep[k]
  BY <1>5 DEF StoreInv, Shape
<1>10. ListedOrLate'
  <2>1. ASSUME NEW m \in gone
        PROVE  objects'[m[2]] \subseteq late'[m[2]]
    <3>1. m \in DOMAIN sweep[c].listing
      BY <1>6
    <3>2. m[2] \in Jobs /\ objects[m[2]] \subseteq sweep[c].listing[m] \union late[m[2]]
      BY <3>1 DEF StoreInv, Dated, RealMarker, ListedOrLate
    <3> QED
      BY <1>2, <1>7, <3>2
  <2>2. ASSUME NEW k \in Jobs \ {c}, NEW m \in DOMAIN sweep[k].listing
        PROVE  /\ objects'[m[2]] \subseteq sweep[k].listing[m] \union late'[m[2]]
               /\ sweep[k].step = "unmark" => objects'[m[2]] \subseteq late'[m[2]]
    <3>1. /\ m[2] \in Jobs /\ objects[m[2]] \subseteq sweep[k].listing[m] \union late[m[2]]
          /\ sweep[k].step = "unmark" => objects[m[2]] \subseteq late[m[2]]
      BY DEF StoreInv, Dated, RealMarker, ListedOrLate
    <3> QED
      BY <1>2, <3>1
  <2>3. ASSUME NEW k \in Jobs, NEW m \in DOMAIN sweep'[k].listing
        PROVE  /\ objects'[m[2]] \subseteq sweep'[k].listing[m] \union late'[m[2]]
               /\ sweep'[k].step = "unmark" => objects'[m[2]] \subseteq late'[m[2]]
    <3>1. CASE k = c
      <4>1. m \in gone
        BY <1>4, <1>5, <1>9, <3>1
      <4> QED
        BY <2>1, <4>1
    <3>2. CASE k # c
      <4>1. sweep'[k] = sweep[k]
        BY <1>9, <3>2
      <4> QED
        BY <2>2, <3>2, <4>1
    <3> QED
      BY <3>1, <3>2
  <2> QED
    BY <2>3 DEF ListedOrLate
<1>11. Covered'
  BY <1>2, <1>3 DEF StoreInv, Covered, Marked
<1>12. Shape' /\ Reserved'
  <2>1. \A j \in Jobs : objects'[j] \subseteq objects[j]
    BY <1>2
  <2>2. objects' = [j \in Jobs |-> objects'[j]] /\ late' = [j \in Jobs |-> late'[j]]
    BY <1>2
  <2> QED
    BY <1>3, <1>8, <2>1, <2>2 DEF StoreInv, Shape, Reserved, cluster
<1> QED
  BY <1>8, <1>10, <1>11, <1>12 DEF StoreInv

LEMMA UnmarkStep ==
  ASSUME StoreInv, NEW c \in Jobs, DeleteMarkers(c)
  PROVE  StoreInv'
<1>1. /\ sweep[c].step = "unmark" /\ SweepGoes(c, Done)
      /\ UNCHANGED <<now, stage, objects, markedAt, late, cluster>>
      /\ markers' \subseteq markers /\ markers \ markers' \subseteq DOMAIN sweep[c].listing
  BY DEF DeleteMarkers
<1>2. /\ Done.day = 0 /\ Done.todo = {} /\ DOMAIN Done.listing = {}
      /\ sweep' = [sweep EXCEPT ![c] = Done]
  BY <1>1 DEF Done, Thread, NoListing, SweepGoes
<1>3. Dated' /\ sweep' = [k \in Jobs |-> sweep'[k]]
  <2>1. Done.day \in Int /\ Done.day <= Today
    BY <1>2, StoreAssumption, DivMonotone DEF StoreInv, Shape, Today
  <2>2. \A m \in Done.todo \union DOMAIN Done.listing : RealMarker(m) /\ m[1] <= Done.day
    BY <1>2
  <2> QED
    BY <1>1, <1>2, <2>1, <2>2, ThreadKeepsDates
<1>4. sweep'[c] = Done /\ \A k \in Jobs \ {c} : sweep'[k] = sweep[k]
  BY <1>2 DEF StoreInv, Shape
<1>5. ListedOrLate'
  BY <1>1, <1>2, <1>4 DEF StoreInv, ListedOrLate
<1>6. Covered'
  <2>1. ASSUME NEW j \in Jobs, markedAt[j] # Never, ~Marked(j)'
        PROVE  objects[j] \subseteq late[j]
    <3>1. CASE Marked(j)
      <4>1. PICK m \in markers : m[2] = j
        BY <3>1 DEF Marked
      <4>2. m \in DOMAIN sweep[c].listing
        BY <1>1, <2>1, <4>1 DEF Marked
      <4> QED
        BY <1>1, <4>1, <4>2 DEF StoreInv, ListedOrLate
    <3>2. CASE ~Marked(j)
      BY <2>1, <3>2 DEF StoreInv, Covered
    <3> QED
      BY <3>1, <3>2
  <2> QED
    BY <1>1, <2>1 DEF Covered
<1>7. Shape' /\ Reserved'
  BY <1>1, <1>3 DEF StoreInv, Shape, Reserved, cluster
<1> QED
  BY <1>3, <1>5, <1>6, <1>7 DEF StoreInv

LEMMA StoreStep == StoreInv /\ [Next]_vars => StoreInv'
<1> SUFFICES ASSUME StoreInv, [Next]_vars PROVE StoreInv'
  OBVIOUS
<1>1. CASE Tick
  BY <1>1, TickStep
<1>2. ASSUME NEW j \in Jobs,
             Start(j) \/ LaunchStep(j) \/ Raise(j) \/ Kill(j) \/ SweepStep(j)
             \/ SweepRaises(j) \/ PodWrites(j) \/ Finish(j) \/ Delete(j)
      PROVE  StoreInv'
  <2>1. CASE Start(j)
    BY <2>1, StartStep
  <2>2. CASE Upload(j)
    BY <2>2, UploadStep
  <2>3. CASE write_ttl_marker(j)
    BY <2>3, MarkerStep
  <2>4. CASE ClusterStep(j)
    BY <2>4, ClusterStepKeeps
  <2>5. CASE Kill(j) \/ SweepRaises(j)
    BY <2>5, KillStep
  <2>6. CASE PodWrites(j)
    BY <2>6, PodStep
  <2>7. CASE _collect_expired_jobs(j)
    BY <2>7, CollectStep
  <2>8. CASE ListArtifacts(j)
    BY <2>8, ListStep
  <2>9. CASE DeleteArtifacts(j)
    BY <2>9, DeleteStep
  <2>10. CASE DeleteMarkers(j)
    BY <2>10, UnmarkStep
  <2> QED
    BY <1>2, <2>1, <2>2, <2>3, <2>4, <2>5, <2>6, <2>7, <2>8, <2>9, <2>10
    DEF LaunchStep, SweepStep, ClusterStep
<1>3. CASE UNCHANGED vars
  <2>1. UNCHANGED <<now, stage, objects, late, markers, markedAt, sweep, secret, controller>>
    BY <1>3 DEF vars, bucket, cluster
  <2>2. Dated' /\ Covered' /\ ListedOrLate'
    BY <2>1, QuietKeeps, QuietKeepsDates
  <2>3. Shape' /\ Reserved'
    BY <2>1 DEF StoreInv, Shape, Reserved
  <2> QED
    BY <2>2, <2>3 DEF StoreInv
<1> QED
  BY <1>1, <1>2, <1>3 DEF Next

THEOREM StoreInvariance == Spec => []StoreInv
<1> QED
  BY StoreInit, StoreStep, PTL DEF Spec

-----------------------------------------------------------------------------
(* The theorems.                                                           *)

\* However many sweeps and launches overlap, fail or are killed, no artifact is
\* left out of reach of a sweep (ttl.py:76-108).
THEOREM NothingIsOrphaned == Spec => []NothingOrphaned
<1>1. StoreInv => NothingOrphaned
  BY DEF StoreInv, Reserved, Covered, NothingOrphaned
<1> QED
  BY <1>1, StoreInvariance, PTL

\* No sweep deletes an artifact before the date of its workflow's ttl
\* (ttl.py:62-74).
THEOREM NothingIsDeletedEarly == Spec => DeletedOnlyWhenExpired
<1> DEFINE Early == \A j \in Jobs : objects[j] \ objects'[j] # {} =>
                      markedAt[j] # Never /\ Expiry(j) <= Today
<1>1. StoreInv /\ [Next]_vars => [Early]_vars
  <2> SUFFICES ASSUME StoreInv, Next, NEW j \in Jobs, NEW o \in objects[j], o \notin objects'[j]
               PROVE  markedAt[j] # Never /\ Expiry(j) <= Today
    OBVIOUS
  <2>1. CASE \E c \in Jobs : DeleteArtifacts(c)
    <3>1. PICK c \in Jobs : DeleteArtifacts(c)
      BY <2>1
    <3>2. <<j, o>> \in all_artifacts(c)
      BY <3>1 DEF DeleteArtifacts
    <3> QED
      BY <3>2, DeletedWasDue
  <2>2. CASE \E k \in Jobs : Upload(k) \/ PodWrites(k)
    BY <2>2 DEF Upload, PodWrites, Put, StoreInv, Shape
  <2>3. CASE UNCHANGED objects
    BY <2>3
  <2> QED
    BY <2>1, <2>2, <2>3
    DEF Next, LaunchStep, SweepStep, Tick, Start, write_ttl_marker, CheckFails, _create_secrets,
        CreateController, Join, Raise, Kill, SweepRaises, _collect_expired_jobs, ListArtifacts,
        DeleteMarkers, Finish, Delete, bucket
<1> QED
  BY <1>1, StoreInvariance, PTL DEF Spec, DeletedOnlyWhenExpired

-----------------------------------------------------------------------------
(* A controller has what it needs.                                         *)

BeforeCreate == {"idle", "sentinel", "marker", "assets", "secret", "create"}

HasAssets(j) == "assets.tar.gz" \in objects[j] \/ Expiry(j) <= Today
HasItsSecret(j) == j \in HasSecret => secret[j] # Never \/ now - markedAt[j] > SecretMaxAge

\* The launch has supplied what each stage after it needs, and a Secret is no
\* older than the marker.
Supplied ==
  \A j \in Jobs :
     /\ markedAt[j] <= now
     /\ secret[j] # Never => markedAt[j] <= secret[j]
     /\ stage[j] \in BeforeCreate => controller[j] = "none"
     /\ stage[j] \in BeforeCreate \ {"create"} => secret[j] = Never
     /\ stage[j] \in {"secret", "create"} \/ controller[j] = "running" => HasAssets(j)
     /\ stage[j] = "create" \/ controller[j] = "running" => HasItsSecret(j)

LEMMA SuppliedInit == Init => Supplied
BY DEF Init, Supplied, BeforeCreate, Never

\* Time only makes artifacts expire and Secrets old.
LEMMA TickSupplies ==
  ASSUME StoreInv, Supplied, Tick
  PROVE  Supplied'
<1>1. now' = now + 1 /\ UNCHANGED <<stage, objects, markedAt, secret, controller>>
  BY DEF Tick, bucket, cluster
<1>2. Today <= Today' /\ Today \in Int /\ Today' \in Int
  BY <1>1, StoreAssumption, DivMonotone, TodayIsInt DEF StoreInv, Shape, Today
<1>3. ASSUME NEW j \in Jobs
      PROVE  /\ HasAssets(j) => HasAssets(j)'
             /\ HasItsSecret(j) => HasItsSecret(j)'
  <2>1. markedAt[j] \in Int /\ now \in Int /\ SecretMaxAge \in Int /\ Ttl[j] \in Int
    BY StoreAssumption DEF StoreInv, Shape
  <2>2. Expiry(j) \in Int /\ Expiry(j)' = Expiry(j)
    BY <1>1, <2>1, StoreAssumption DEF Expiry
  <2>3. HasAssets(j) => HasAssets(j)'
    BY <1>1, <1>2, <2>2 DEF HasAssets
  <2>4. HasItsSecret(j) => HasItsSecret(j)'
    BY <1>1, <2>1 DEF HasItsSecret
  <2> QED
    BY <2>3, <2>4
<1>4. \A j \in Jobs : markedAt[j] <= now'
  BY <1>1 DEF StoreInv, Shape, Supplied
<1> QED
  BY <1>1, <1>3, <1>4 DEF Supplied

\* Without a tick and with the markers' times as they are, an artifact that is
\* missed has expired.
LEMMA AssetsKept ==
  ASSUME UNCHANGED <<now, markedAt>>, NEW j \in Jobs, HasAssets(j),
         "assets.tar.gz" \in objects[j] => "assets.tar.gz" \in objects'[j] \/ Expiry(j) <= Today
  PROVE  HasAssets(j)'
BY DEF HasAssets, Expiry, Today

\* The upload of the assets, and the pods' uploads.
LEMMA PutSupplies ==
  ASSUME StoreInv, Supplied, NEW j \in Jobs, Upload(j) \/ PodWrites(j)
  PROVE  Supplied'
<1>1. /\ UNCHANGED <<now, markedAt, secret, controller>>
      /\ \E o \in Objects : objects' = [objects EXCEPT ![j] = @ \union {o}]
  BY DEF Upload, PodWrites, Put, cluster, Uploads, Objects
<1>2. \A k \in Jobs : objects[k] \subseteq objects'[k]
  BY <1>1 DEF StoreInv, Shape
<1>3. \A k \in Jobs : HasAssets(k) => HasAssets(k)'
  BY <1>1, <1>2, AssetsKept
<1>4. \A k \in Jobs : HasItsSecret(k) => HasItsSecret(k)'
  BY <1>1 DEF HasItsSecret
<1>5. CASE PodWrites(j)
  <2>1. UNCHANGED stage
    BY <1>5 DEF PodWrites
  <2> QED
    BY <1>1, <1>3, <1>4, <2>1 DEF Supplied
<1>6. CASE Upload(j)
  <2>1. /\ stage[j] \in DOMAIN Uploads /\ stage' = [stage EXCEPT ![j] = After[stage[j]]]
        /\ objects' = [objects EXCEPT ![j] = @ \union {Uploads[stage[j]]}]
    BY <1>6 DEF Upload, Goto, Put
  <2>2. DOMAIN Uploads = {"sentinel", "assets"}
    BY DEF Uploads
  <2>3. /\ After["sentinel"] = "marker" /\ After["assets"] = "secret"
        /\ Uploads["assets"] = "assets.tar.gz"
    BY DEF After, Uploads
  <2>4. /\ stage'[j] = After[stage[j]] /\ Uploads[stage[j]] \in objects'[j]
        /\ \A k \in Jobs \ {j} : stage'[k] = stage[k]
    BY <2>1 DEF StoreInv, Shape
  <2>5. stage[j] \in {"sentinel", "assets"}
    BY <2>1, <2>2
  <2>6. /\ stage'[j] \in {"marker", "secret"}
        /\ stage'[j] = "secret" => "assets.tar.gz" \in objects'[j]
        /\ \A k \in Jobs \ {j} : stage'[k] = stage[k]
    BY <2>3, <2>4, <2>5
  <2>7. stage'[j] = "secret" => HasAssets(j)'
    BY <2>6 DEF HasAssets
  <2>8. /\ markedAt'[j] <= now' /\ secret'[j] = Never /\ controller'[j] = "none"
    BY <1>1, <2>5 DEF Supplied, BeforeCreate
  <2> QED
    BY <1>1, <1>3, <1>4, <2>6, <2>7, <2>8 DEF Supplied
<1> QED
  BY <1>5, <1>6

LEMMA MarkerSupplies ==
  ASSUME StoreInv, Supplied, NEW j \in Jobs, write_ttl_marker(j)
  PROVE  Supplied'
<1>1. /\ stage[j] = "marker" /\ stage' = [stage EXCEPT ![j] = "assets"]
      /\ markedAt' = [markedAt EXCEPT ![j] = now]
      /\ UNCHANGED <<now, objects, secret, controller>>
  BY DEF write_ttl_marker, Goto, cluster
<1>2. /\ stage'[j] = "assets" /\ markedAt'[j] = now /\ now \in Int
      /\ \A k \in Jobs \ {j} : stage'[k] = stage[k] /\ markedAt'[k] = markedAt[k]
  BY <1>1 DEF StoreInv, Shape
<1>3. secret[j] = Never /\ controller[j] = "none"
  BY <1>1 DEF Supplied, BeforeCreate
<1>4. \A k \in Jobs \ {j} : /\ HasAssets(k) => HasAssets(k)'
                            /\ HasItsSecret(k) => HasItsSecret(k)'
  BY <1>1, <1>2 DEF HasAssets, HasItsSecret, Expiry, Today
<1>5. markedAt'[j] <= now'
  BY <1>1, <1>2
<1> QED
  BY <1>1, <1>2, <1>3, <1>4, <1>5 DEF Supplied

\* The Secret of the launch is created, and others are deleted by their age.
LEMMA SecretsSupply ==
  ASSUME StoreInv, Supplied, NEW j \in Jobs, _create_secrets(j)
  PROVE  Supplied'
<1>1. PICK kept \in SUBSET Stale :
        secret' = [k \in Jobs |-> IF k \in Stale \ kept THEN Never
                                ELSE IF k = j /\ j \in HasSecret THEN now ELSE secret[k]]
  BY DEF _create_secrets
<1>2. /\ stage[j] = "secret" /\ stage' = [stage EXCEPT ![j] = "create"]
      /\ UNCHANGED <<now, objects, markedAt, controller>>
  BY DEF _create_secrets, Goto, bucket
<1>3. stage'[j] = "create" /\ \A k \in Jobs \ {j} : stage'[k] = stage[k]
  BY <1>2 DEF StoreInv, Shape
<1>4. /\ secret[j] = Never /\ controller[j] = "none" /\ HasAssets(j) /\ j \notin Stale
  BY <1>2 DEF Supplied, BeforeCreate, Stale
<1>5. secret'[j] = IF j \in HasSecret THEN now ELSE Never
  BY <1>1, <1>4
<1>6. now \in Int /\ now # Never /\ SecretMaxAge \in Int
  BY StoreAssumption DEF StoreInv, Shape, Never
<1>7. HasItsSecret(j)' /\ (secret'[j] # Never => markedAt'[j] <= secret'[j])
  BY <1>2, <1>5, <1>6 DEF HasItsSecret, Supplied
<1>8. ASSUME NEW k \in Jobs \ {j}
      PROVE  /\ secret'[k] # Never => markedAt[k] <= secret'[k]
             /\ secret[k] = Never => secret'[k] = Never
             /\ HasItsSecret(k) => HasItsSecret(k)'
  <2>1. CASE k \in Stale \ kept
    <3>1. secret'[k] = Never
      BY <1>1, <2>1
    <3>2. /\ secret[k] < now - SecretMaxAge /\ markedAt[k] <= secret[k]
          /\ secret[k] \in Int /\ markedAt[k] \in Int
      BY <2>1 DEF Stale, Supplied, StoreInv, Shape
    <3>3. now' - markedAt'[k] > SecretMaxAge
      BY <1>2, <1>6, <3>2
    <3>4. HasItsSecret(k)'
      BY <3>3 DEF HasItsSecret
    <3> QED
      BY <3>1, <3>4
  <2>2. CASE k \notin Stale \ kept
    <3>1. secret'[k] = secret[k]
      BY <1>1, <2>2
    <3> QED
      BY <1>2, <3>1 DEF HasItsSecret, Supplied
  <2> QED
    BY <2>1, <2>2
<1>9. \A k \in Jobs : HasAssets(k) => HasAssets(k)'
  BY <1>2, AssetsKept
<1> QED
  BY <1>2, <1>3, <1>4, <1>7, <1>8, <1>9 DEF Supplied, BeforeCreate

\* What a sweep deletes has expired.
LEMMA DeleteSupplies ==
  ASSUME StoreInv, Supplied, NEW c \in Jobs, DeleteArtifacts(c)
  PROVE  Supplied'
<1>1. UNCHANGED <<now, stage, markedAt, secret, controller>>
  BY DEF DeleteArtifacts, cluster
<1>2. ASSUME NEW j \in Jobs, NEW o \in objects[j]
      PROVE  o \in objects'[j] \/ Expiry(j) <= Today
  <2>1. o \in objects'[j] \/ <<j, o>> \in all_artifacts(c)
    BY DEF DeleteArtifacts
  <2> QED
    BY <2>1, DeletedWasDue
<1>3. \A j \in Jobs : HasAssets(j) => HasAssets(j)'
  BY <1>1, <1>2, AssetsKept
<1>4. \A j \in Jobs : HasItsSecret(j) => HasItsSecret(j)'
  BY <1>1 DEF HasItsSecret
<1> QED
  BY <1>1, <1>3, <1>4 DEF Supplied

\* The controller is created with all it needs.
LEMMA CreateSupplies ==
  ASSUME StoreInv, Supplied, NEW j \in Jobs, CreateController(j)
  PROVE  Supplied'
<1>1. /\ stage[j] = "create" /\ \E s \in {"join", "raised"} : stage' = [stage EXCEPT ![j] = s]
      /\ controller' = [controller EXCEPT ![j] = "running"]
      /\ UNCHANGED <<now, objects, markedAt, secret>>
  BY DEF CreateController, Goto, bucket
<1>2. /\ stage'[j] \in {"join", "raised"} /\ controller'[j] = "running"
      /\ \A k \in Jobs \ {j} : stage'[k] = stage[k] /\ controller'[k] = controller[k]
  BY <1>1 DEF StoreInv, Shape
<1>3. \A k \in Jobs : /\ HasAssets(k) => HasAssets(k)'
                      /\ HasItsSecret(k) => HasItsSecret(k)'
  BY <1>1, AssetsKept DEF HasItsSecret
<1>4. HasAssets(j)' /\ HasItsSecret(j)'
  BY <1>1, <1>3 DEF Supplied
<1> QED
  BY <1>1, <1>2, <1>3, <1>4 DEF Supplied, BeforeCreate

\* A workflow ends or is deleted, and nothing else changes.
LEMMA EndSupplies ==
  ASSUME StoreInv, Supplied, NEW j \in Jobs, Finish(j) \/ Delete(j)
  PROVE  Supplied'
<1>1. /\ UNCHANGED <<now, objects, markedAt, stage>>
      /\ controller[j] # "none"
      /\ \E s \in {"gone", "condemned"} : controller' = [controller EXCEPT ![j] = s]
      /\ secret' \in {secret, [secret EXCEPT ![j] = Never]}
  BY DEF Finish, Delete, bucket
<1>2. /\ controller'[j] \in {"gone", "condemned"}
      /\ secret'[j] \in {secret[j], Never}
      /\ \A k \in Jobs \ {j} : secret'[k] = secret[k] /\ controller'[k] = controller[k]
  BY <1>1 DEF StoreInv, Shape
<1>3. stage[j] \notin BeforeCreate
  BY <1>1 DEF Supplied
<1>4. \A k \in Jobs : HasAssets(k) => HasAssets(k)'
  BY <1>1, AssetsKept
<1>5. \A k \in Jobs \ {j} : HasItsSecret(k) => HasItsSecret(k)'
  BY <1>1, <1>2 DEF HasItsSecret
<1> QED
  BY <1>1, <1>2, <1>3, <1>4, <1>5 DEF Supplied, BeforeCreate

\* A launch that starts, fails, is killed or joins its sweep, and the steps of
\* a sweep that delete no artifact.
LEMMA QuietSupplies ==
  ASSUME StoreInv, Supplied, NEW j \in Jobs,
         UNCHANGED <<now, objects, markedAt, secret, controller>>,
         \/ UNCHANGED stage
         \/ \E s \in {"raised", "killed", "launched"} : stage' = [stage EXCEPT ![j] = s]
         \/ stage[j] = "idle" /\ stage' = [stage EXCEPT ![j] = "sentinel"]
  PROVE  Supplied'
<1>1. /\ \A k \in Jobs \ {j} : stage'[k] = stage[k]
      /\ \/ stage'[j] = stage[j] \/ stage'[j] \in {"raised", "killed", "launched"}
         \/ (stage[j] = "idle" /\ stage'[j] = "sentinel")
  BY DEF StoreInv, Shape
<1>2. \A k \in Jobs : /\ HasAssets(k) => HasAssets(k)'
                      /\ HasItsSecret(k) => HasItsSecret(k)'
  BY AssetsKept DEF HasItsSecret
<1> QED
  BY <1>1, <1>2 DEF Supplied, BeforeCreate

LEMMA SuppliedStep == StoreInv /\ Supplied /\ [Next]_vars => Supplied'
<1> SUFFICES ASSUME StoreInv, Supplied, [Next]_vars PROVE Supplied'
  OBVIOUS
<1>1. CASE Tick
  BY <1>1, TickSupplies
<1>2. ASSUME NEW j \in Jobs,
             Start(j) \/ LaunchStep(j) \/ Raise(j) \/ Kill(j) \/ SweepStep(j)
             \/ SweepRaises(j) \/ PodWrites(j) \/ Finish(j) \/ Delete(j)
      PROVE  Supplied'
  <2>1. CASE Upload(j) \/ PodWrites(j)
    BY <2>1, PutSupplies
  <2>2. CASE write_ttl_marker(j)
    BY <2>2, MarkerSupplies
  <2>3. CASE _create_secrets(j)
    BY <2>3, SecretsSupply
  <2>4. CASE CreateController(j)
    BY <2>4, CreateSupplies
  <2>5. CASE DeleteArtifacts(j)
    BY <2>5, DeleteSupplies
  <2>6. CASE Finish(j) \/ Delete(j)
    BY <2>6, EndSupplies
  <2>7. CASE Start(j)
    <3>1. /\ UNCHANGED <<now, objects, markedAt, secret, controller>>
          /\ stage[j] = "idle"
          /\ stage' = [stage EXCEPT ![j] = "raised"] \/ stage' = [stage EXCEPT ![j] = "sentinel"]
      BY <2>7 DEF Start, Goto, bucket, cluster
    <3> QED
      BY <3>1, QuietSupplies
  <2>8. CASE CheckFails(j) \/ Join(j) \/ Raise(j) \/ Kill(j)
    <3>1. /\ UNCHANGED <<now, objects, markedAt, secret, controller>>
          /\ \E s \in {"raised", "killed", "launched"} : stage' = [stage EXCEPT ![j] = s]
      BY <2>8 DEF CheckFails, Join, Raise, Kill, Goto, bucket, cluster
    <3> QED
      BY <3>1, QuietSupplies
  <2>9. CASE _collect_expired_jobs(j) \/ ListArtifacts(j) \/ DeleteMarkers(j) \/ SweepRaises(j)
    <3>1. UNCHANGED <<now, stage, objects, markedAt, secret, controller>>
      BY <2>9 DEF _collect_expired_jobs, ListArtifacts, DeleteMarkers, SweepRaises, bucket, cluster
    <3> QED
      BY <3>1, QuietSupplies
  <2> QED
    BY <1>2, <2>1, <2>2, <2>3, <2>4, <2>5, <2>6, <2>7, <2>8, <2>9 DEF LaunchStep, SweepStep
<1>3. CASE UNCHANGED vars
  <2>1. UNCHANGED <<now, stage, objects, markedAt, secret, controller>>
    BY <1>3 DEF vars, bucket, cluster
  <2>2. \A k \in Jobs : /\ HasAssets(k) => HasAssets(k)'
                        /\ HasItsSecret(k) => HasItsSecret(k)'
    BY <2>1, AssetsKept DEF HasItsSecret
  <2> QED
    BY <2>1, <2>2 DEF Supplied
<1> QED
  BY <1>1, <1>2, <1>3 DEF Next

\* A controller that runs finds its assets and its Secret until they expire,
\* whatever other launches and sweeps do (launch_k8s_workflow.py:112-137,
\* 537-585).
THEOREM ControllersAreSupplied == Spec => []RunningHasWhatItNeeds
<1>1. Supplied => RunningHasWhatItNeeds
  BY DEF Supplied, HasAssets, HasItsSecret, RunningHasWhatItNeeds
<1> QED
  BY <1>1, SuppliedInit, SuppliedStep, StoreInvariance, PTL DEF Spec
-----------------------------------------------------------------------------
(* The types.                                                              *)

Dates == Nat \X Jobs

ClockOK ==
  /\ now \in 0..MaxClock /\ faults \in 0..MaxFaults
  /\ secret \in [Jobs -> 0..MaxClock \union {Never}]
  /\ markedAt \in [Jobs -> 0..MaxClock \union {Never}]
  /\ markers \subseteq Dates

PlacesOK ==
  /\ stage \in [Jobs -> Stages]
  /\ controller \in [Jobs -> {"none", "running", "condemned", "gone"}]

\* What came late is there.
ObjectsOK ==
  /\ objects \in [Jobs -> SUBSET Objects] /\ late \in [Jobs -> SUBSET Objects]
  /\ \A j \in Jobs : late[j] \subseteq objects[j]

ThreadOK(T) ==
  /\ T.step \in SweepSteps /\ T.day \in 0..MaxClock
  /\ T.todo \subseteq Dates /\ DOMAIN T.listing \subseteq Dates
  /\ \A m \in DOMAIN T.listing : T.listing[m] \subseteq Objects

SweepsOK == \A c \in Jobs : ThreadOK(sweep[c])

LEMMA NoLater ==
  ASSUME NEW n \in Nat, NEW d \in Nat \ {0}
  PROVE  n \div d \in 0..n
OBVIOUS

LEMMA ThreadIsOK ==
  ASSUME NEW step \in SweepSteps, NEW day \in 0..MaxClock, NEW todo \in SUBSET Dates, NEW listing,
         DOMAIN listing \subseteq Dates, \A m \in DOMAIN listing : listing[m] \subseteq Objects
  PROVE  ThreadOK(Thread(step, day, todo, listing))
BY DEF ThreadOK, Thread

LEMMA EmptyIsOK ==
  ASSUME NEW step \in SweepSteps, NEW day \in 0..MaxClock, NEW todo \in SUBSET Dates
  PROVE  ThreadOK(Thread(step, day, todo, NoListing))
BY DEF ThreadOK, Thread, NoListing

LEMMA DoneIsOK == ThreadOK(Done)
BY StoreAssumption DEF StoreAssumption, ThreadOK, Thread, Done, NoListing, SweepSteps

LEMMA OneSweep ==
  ASSUME Shape, SweepsOK, NEW c \in Jobs, NEW T, sweep' = [sweep EXCEPT ![c] = T], ThreadOK(T)
  PROVE  SweepsOK'
<1>1. sweep'[c] = T /\ \A k \in Jobs \ {c} : sweep'[k] = sweep[k]
  BY DEF Shape
<1> SUFFICES ASSUME NEW k \in Jobs PROVE ThreadOK(sweep'[k])
  BY Zenon DEF SweepsOK, ThreadOK
<1>2. CASE k = c
  BY <1>1, <1>2
<1>3. CASE k # c
  <2>1. sweep'[k] = sweep[k]
    BY <1>1, <1>3
  <2> QED BY <2>1 DEF SweepsOK
<1> QED BY <1>2, <1>3

LEMMA TypesInit == Init => ClockOK /\ PlacesOK /\ ObjectsOK /\ SweepsOK
<1> SUFFICES ASSUME Init PROVE ClockOK /\ PlacesOK /\ ObjectsOK /\ SweepsOK
  OBVIOUS
<1>1. ClockOK
  BY StoreAssumption DEF Init, ClockOK, StoreAssumption, Dates
<1>2. PlacesOK /\ ObjectsOK
  BY DEF Init, PlacesOK, ObjectsOK, Stages
<1>3. SweepsOK
  <2>1. ThreadOK(Idle)
    BY StoreAssumption DEF StoreAssumption, ThreadOK, Thread, Idle, NoListing, SweepSteps
  <2> QED BY <2>1 DEF Init, SweepsOK
<1> QED BY <1>1, <1>2, <1>3

LEMMA ClockStep == ASSUME ClockOK, [Next]_vars PROVE ClockOK'
<1>0. /\ MaxClock \in Nat /\ MaxFaults \in Nat /\ TicksPerDay \in Nat \ {0} /\ Ttl \in [Jobs -> Nat]
      /\ Never \notin 0..MaxClock
  BY StoreAssumption DEF StoreAssumption, Never
<1>1. faults' = faults \/ (faults > 0 /\ faults' = faults - 1)
  BY Zenon DEF Next, LaunchStep, SweepStep, vars, Fault, Tick, Start, Upload, write_ttl_marker,
     CheckFails, _create_secrets, CreateController, Join, Raise, Kill, SweepRaises,
     _collect_expired_jobs, ListArtifacts, DeleteArtifacts, DeleteMarkers, PodWrites, Finish, Delete
<1>2. faults' \in 0..MaxFaults
  BY <1>0, <1>1 DEF ClockOK
<1>3. CASE Tick
  BY <1>0, <1>2, <1>3 DEF Tick, bucket, cluster, ClockOK
<1>4. ASSUME NEW j \in Jobs, write_ttl_marker(j) PROVE ClockOK'
  <2>1. /\ markedAt' = [markedAt EXCEPT ![j] = now]
        /\ markers' = markers \union {<<(now + Ttl[j]) \div TicksPerDay, j>>}
        /\ UNCHANGED <<now, secret>>
    BY <1>4 DEF write_ttl_marker, cluster
  <2>2. (now + Ttl[j]) \div TicksPerDay \in Nat
    <3>1. now + Ttl[j] \in Nat
      BY <1>0 DEF ClockOK
    <3> QED BY <1>0, <3>1, NoLater
  <2>3. markers' \subseteq Dates
    BY <2>1, <2>2 DEF ClockOK, Dates
  <2>4. markedAt' \in [Jobs -> 0..MaxClock \union {Never}]
    BY <2>1 DEF ClockOK
  <2> QED BY <1>2, <2>1, <2>3, <2>4 DEF ClockOK
<1>5. ASSUME NEW j \in Jobs, _create_secrets(j) PROVE ClockOK'
  <2>1. PICK kept \in SUBSET Stale :
          secret' = [k \in Jobs |-> IF k \in Stale \ kept THEN Never
                                  ELSE IF k = j /\ j \in HasSecret THEN now ELSE secret[k]]
    BY <1>5 DEF _create_secrets
  <2>2. UNCHANGED <<now, markedAt, markers>>
    BY <1>5 DEF _create_secrets, bucket
  <2>3. secret' \in [Jobs -> 0..MaxClock \union {Never}]
    BY <2>1 DEF ClockOK
  <2> QED BY <1>2, <2>2, <2>3 DEF ClockOK
<1>6. ASSUME NEW j \in Jobs, Delete(j) PROVE ClockOK'
  <2>1. UNCHANGED <<now, markedAt, markers>> /\ secret' \in {secret, [secret EXCEPT ![j] = Never]}
    BY <1>6 DEF Delete, bucket
  <2>2. secret' \in [Jobs -> 0..MaxClock \union {Never}]
    BY <2>1 DEF ClockOK
  <2> QED BY <1>2, <2>1, <2>2 DEF ClockOK
<1>7. ASSUME NEW j \in Jobs, DeleteMarkers(j) PROVE ClockOK'
  <2>1. UNCHANGED <<now, markedAt, secret>> /\ markers' \subseteq markers
    BY <1>7 DEF DeleteMarkers, cluster
  <2> QED BY <1>2, <2>1 DEF ClockOK
<1>8. CASE UNCHANGED <<now, markedAt, markers, secret>>
  BY <1>2, <1>8 DEF ClockOK
<1>9. CASE UNCHANGED vars
  BY <1>8, <1>9 DEF vars, bucket, cluster
<1>10. ASSUME NEW j \in Jobs, Start(j) \/ Upload(j) \/ CheckFails(j) \/ CreateController(j)
                \/ Join(j) \/ Raise(j) \/ Kill(j) \/ SweepRaises(j) \/ _collect_expired_jobs(j)
                \/ ListArtifacts(j) \/ DeleteArtifacts(j) \/ PodWrites(j) \/ Finish(j)
       PROVE  ClockOK'
  <2>1. UNCHANGED <<now, markedAt, markers, secret>>
    BY <1>10, Zenon DEF Start, Upload, CheckFails, CreateController, Join, Raise, Kill, SweepRaises,
       _collect_expired_jobs, ListArtifacts, DeleteArtifacts, PodWrites, Finish, bucket, cluster
  <2> QED BY <1>8, <2>1
<1> QED BY <1>3, <1>4, <1>5, <1>6, <1>7, <1>9, <1>10, Zenon DEF Next, LaunchStep, SweepStep

LEMMA PlacesStep == ASSUME PlacesOK, [Next]_vars PROVE PlacesOK'
<1>1. CASE UNCHANGED stage /\ UNCHANGED controller
  BY <1>1 DEF PlacesOK
<1>2. ASSUME NEW j \in Jobs, NEW s \in Stages, Goto(j, s), UNCHANGED controller PROVE PlacesOK'
  BY <1>2 DEF PlacesOK, Goto
<1>3. ASSUME NEW j \in Jobs, NEW s \in {"running", "condemned", "gone"},
             controller' = [controller EXCEPT ![j] = s], UNCHANGED stage
      PROVE  PlacesOK'
  BY <1>3 DEF PlacesOK
<1>4. CASE UNCHANGED vars \/ Tick
  BY <1>1, <1>4 DEF vars, Tick, cluster
<1>5. ASSUME NEW j \in Jobs, Start(j) \/ Upload(j) \/ write_ttl_marker(j) \/ CheckFails(j)
               \/ _create_secrets(j) \/ Join(j) \/ Raise(j) \/ Kill(j)
      PROVE  PlacesOK'
  <2>1. UNCHANGED controller
    BY <1>5, Zenon DEF Start, Upload, write_ttl_marker, CheckFails, _create_secrets, Join, Raise,
       Kill, cluster
  <2>2. \E s \in Stages : Goto(j, s)
    <3>1. CASE Upload(j)
      <4>1. Goto(j, After[stage[j]]) /\ stage[j] \in {"sentinel", "assets"}
        BY <3>1 DEF Upload, Uploads
      <4>2. After[stage[j]] \in Stages
        BY <4>1 DEF After, Stages
      <4> QED BY <4>1, <4>2
    <3>2. CASE ~Upload(j)
      <4>1. {"sentinel", "raised", "assets", "create", "launched", "killed"} \subseteq Stages
        BY DEF Stages
      <4> QED BY <1>5, <3>2, <4>1
              DEF Start, write_ttl_marker, CheckFails, _create_secrets, Join, Raise, Kill
    <3> QED BY <3>1, <3>2
  <2> QED BY <1>2, <2>1, <2>2
<1>6. ASSUME NEW j \in Jobs, CreateController(j) PROVE PlacesOK'
  <2>1. controller' = [controller EXCEPT ![j] = "running"] /\ \E s \in {"join", "raised"} : Goto(j, s)
    BY <1>6 DEF CreateController
  <2> QED BY <2>1 DEF PlacesOK, Goto, Stages
<1>7. ASSUME NEW j \in Jobs, Finish(j) \/ Delete(j) PROVE PlacesOK'
  <2>1. UNCHANGED stage
    BY <1>7, Zenon DEF Finish, Delete
  <2>2. \E s \in {"gone", "condemned"} : controller' = [controller EXCEPT ![j] = s]
    BY <1>7 DEF Finish, Delete
  <2> QED BY <1>3, <2>1, <2>2
<1>8. ASSUME NEW j \in Jobs, SweepStep(j) \/ SweepRaises(j) \/ PodWrites(j) PROVE PlacesOK'
  <2>1. UNCHANGED stage /\ UNCHANGED controller
    BY <1>8, Zenon DEF SweepStep, SweepRaises, PodWrites, _collect_expired_jobs, ListArtifacts,
       DeleteArtifacts, DeleteMarkers, cluster
  <2> QED BY <1>1, <2>1
<1> QED BY <1>4, <1>5, <1>6, <1>7, <1>8, Zenon DEF Next, LaunchStep

LEMMA ObjectsStep == ASSUME ObjectsOK, [Next]_vars PROVE ObjectsOK'
<1>1. CASE UNCHANGED objects /\ UNCHANGED late
  BY <1>1 DEF ObjectsOK
<1>2. ASSUME NEW j \in Jobs, NEW o \in Objects, Put(j, o) PROVE ObjectsOK'
  <2>1. /\ objects' = [objects EXCEPT ![j] = @ \union {o}]
        /\ late' \in {[late EXCEPT ![j] = @ \union {o}], [late EXCEPT ![j] = @ \ {o}]}
    BY <1>2 DEF Put
  <2> QED BY <2>1 DEF ObjectsOK
<1>3. ASSUME NEW j \in Jobs, Upload(j) PROVE ObjectsOK'
  <2>1. Uploads[stage[j]] \in Objects /\ Put(j, Uploads[stage[j]])
    BY <1>3 DEF Upload, Uploads, Objects
  <2> QED BY <1>2, <2>1
<1>4. ASSUME NEW j \in Jobs, PodWrites(j) PROVE ObjectsOK'
  <2>1. "status.json" \in Objects /\ Put(j, "status.json")
    BY <1>4 DEF PodWrites, Objects
  <2> QED BY <1>2, <2>1
<1>5. ASSUME NEW c \in Jobs, DeleteArtifacts(c) PROVE ObjectsOK'
  <2>1. PICK failed \in SUBSET all_artifacts(c) :
          /\ objects' = [j \in Jobs |-> {o \in objects[j] : <<j, o>> \notin all_artifacts(c) \ failed}]
          /\ late' = [j \in Jobs |-> {o \in late[j] : <<j, o>> \notin all_artifacts(c) \ failed}]
    BY <1>5 DEF DeleteArtifacts
  <2> QED BY <2>1 DEF ObjectsOK
<1>6. CASE UNCHANGED vars \/ Tick
  BY <1>1, <1>6, Zenon DEF vars, Tick, bucket
<1>7. ASSUME NEW j \in Jobs, Start(j) \/ write_ttl_marker(j) \/ CheckFails(j) \/ _create_secrets(j)
               \/ CreateController(j) \/ Join(j) \/ Raise(j) \/ Kill(j) \/ SweepRaises(j)
               \/ _collect_expired_jobs(j) \/ ListArtifacts(j) \/ DeleteMarkers(j) \/ Finish(j)
               \/ Delete(j)
      PROVE  ObjectsOK'
  <2>1. UNCHANGED objects /\ UNCHANGED late
    BY <1>7, Zenon DEF Start, write_ttl_marker, CheckFails, _create_secrets, CreateController, Join,
       Raise, Kill, SweepRaises, _collect_expired_jobs, ListArtifacts, DeleteMarkers, Finish, Delete,
       bucket
  <2> QED BY <1>1, <2>1
<1> QED BY <1>3, <1>4, <1>5, <1>6, <1>7, Zenon DEF Next, LaunchStep, SweepStep

LEMMA SweepsStep == ASSUME Shape, ClockOK, ObjectsOK, SweepsOK, [Next]_vars PROVE SweepsOK'
<1>0. "markers" \in SweepSteps /\ "list" \in SweepSteps /\ "delete" \in SweepSteps
      /\ "unmark" \in SweepSteps
  BY DEF SweepSteps
<1>1. CASE UNCHANGED sweep
  BY <1>1, Zenon DEF SweepsOK, ThreadOK
<1>2. ASSUME NEW c \in Jobs, SweepGoes(c, Done) PROVE SweepsOK'
  BY <1>2, OneSweep, DoneIsOK DEF SweepGoes
<1>3. ASSUME NEW c \in Jobs, Start(c) PROVE SweepsOK'
  <2>1. Today \in 0..MaxClock
    <3>1. now \in Nat /\ TicksPerDay \in Nat \ {0} /\ MaxClock \in Nat /\ now <= MaxClock
      BY StoreAssumption DEF StoreAssumption, ClockOK
    <3>2. Today \in 0..now
      BY <3>1, NoLater DEF Today
    <3> QED BY <3>1, <3>2
  <2>2. ThreadOK(Thread("markers", Today, {}, NoListing))
    BY <1>0, <2>1, EmptyIsOK
  <2> QED BY <1>3, <2>2, OneSweep DEF Start, SweepGoes
<1>4. ASSUME NEW c \in Jobs, _collect_expired_jobs(c) PROVE SweepsOK'
  <2> DEFINE expired == {m \in markers : m[1] <= sweep[c].day}
  <2>1. SweepGoes(c, Done) \/ SweepGoes(c, Thread("list", sweep[c].day, expired, NoListing))
    BY <1>4 DEF _collect_expired_jobs
  <2>2. ThreadOK(Thread("list", sweep[c].day, expired, NoListing))
    <3>1. sweep[c].day \in 0..MaxClock /\ expired \in SUBSET Dates
      BY DEF SweepsOK, ThreadOK, ClockOK
    <3> QED BY <1>0, <3>1, EmptyIsOK
  <2> HIDE DEF expired
  <2> QED BY <1>2, <2>1, <2>2, OneSweep DEF SweepGoes
<1>5. ASSUME NEW c \in Jobs, ListArtifacts(c) PROVE SweepsOK'
  <2>1. PICK m \in sweep[c].todo :
          \E listing \in {Add(c, m, objects[m[2]]), sweep[c].listing} : Further(c, m, listing)
    BY <1>5 DEF ListArtifacts
  <2>2. PICK listing \in {Add(c, m, objects[m[2]]), sweep[c].listing} : Further(c, m, listing)
    BY <2>1
  <2>3. m \in Dates /\ m[2] \in Jobs /\ objects[m[2]] \subseteq Objects
    BY DEF SweepsOK, ThreadOK, Dates, ObjectsOK
  <2>4. DOMAIN listing \subseteq Dates /\ \A n \in DOMAIN listing : listing[n] \subseteq Objects
    <3>1. /\ DOMAIN sweep[c].listing \subseteq Dates
          /\ \A n \in DOMAIN sweep[c].listing : sweep[c].listing[n] \subseteq Objects
      BY DEF SweepsOK, ThreadOK
    <3>2. CASE listing = Add(c, m, objects[m[2]])
      BY <2>3, <3>1, <3>2 DEF Add
    <3> QED BY <2>2, <3>1, <3>2
  <2> DEFINE step == IF sweep[c].todo \ {m} = {} THEN "delete" ELSE "list"
             T == Thread(step, sweep[c].day, sweep[c].todo \ {m}, listing)
  <2>5. ThreadOK(T)
    <3>1. sweep[c].day \in 0..MaxClock /\ sweep[c].todo \ {m} \in SUBSET Dates /\ step \in SweepSteps
      BY <1>0 DEF SweepsOK, ThreadOK
    <3> HIDE DEF step
    <3> QED BY <2>4, <3>1, ThreadIsOK
  <2>6. sweep' = [sweep EXCEPT ![c] = T]
    BY <2>2 DEF Further, SweepGoes
  <2> HIDE DEF T
  <2> QED BY <2>5, <2>6, OneSweep
<1>6. ASSUME NEW c \in Jobs, DeleteArtifacts(c) PROVE SweepsOK'
  <2>1. CASE SweepGoes(c, Done)
    BY <1>2, <2>1
  <2>2. CASE ~SweepGoes(c, Done)
    <3> DEFINE all == sweep[c].listing
    <3>1. \E gone \in SUBSET DOMAIN all :
            SweepGoes(c, Thread("unmark", sweep[c].day, {}, Restrict(all, gone)))
      BY <1>6, <2>2 DEF DeleteArtifacts
    <3>2. PICK gone \in SUBSET DOMAIN all :
            SweepGoes(c, Thread("unmark", sweep[c].day, {}, Restrict(all, gone)))
      BY <3>1
    <3>3. /\ DOMAIN Restrict(all, gone) \subseteq Dates
          /\ \A m \in DOMAIN Restrict(all, gone) : Restrict(all, gone)[m] \subseteq Objects
      BY DEF Restrict, SweepsOK, ThreadOK
    <3>4. sweep[c].day \in 0..MaxClock /\ {} \in SUBSET Dates
      BY DEF SweepsOK, ThreadOK
    <3>5. ThreadOK(Thread("unmark", sweep[c].day, {}, Restrict(all, gone)))
      BY <1>0, <3>3, <3>4, ThreadIsOK
    <3> QED BY <3>2, <3>5, OneSweep DEF SweepGoes
  <2> QED BY <2>1, <2>2
<1>7. ASSUME NEW c \in Jobs, DeleteMarkers(c) \/ SweepRaises(c) \/ Kill(c) PROVE SweepsOK'
  BY <1>2, <1>7 DEF DeleteMarkers, SweepRaises, Kill, SweepGoes
<1>8. CASE UNCHANGED vars \/ Tick
  BY <1>1, <1>8, Zenon DEF vars, Tick
<1>9. ASSUME NEW j \in Jobs, LaunchStep(j) \/ Raise(j) \/ PodWrites(j) \/ Finish(j) \/ Delete(j)
      PROVE  SweepsOK'
  <2>1. UNCHANGED sweep
    BY <1>9, Zenon DEF LaunchStep, Upload, write_ttl_marker, CheckFails, _create_secrets,
       CreateController, Join, Raise, PodWrites, Finish, Delete
  <2> QED BY <1>1, <2>1
<1> QED BY <1>3, <1>4, <1>5, <1>6, <1>7, <1>8, <1>9, Zenon DEF Next, SweepStep

\* Every reachable state is well typed; in it, what came late is there, and no
\* sweep lists what no workflow uploads, or looks at a day to come.
THEOREM StoreTypes == Spec => []TypeOK
<1>1. StoreInv /\ ClockOK /\ PlacesOK /\ ObjectsOK /\ SweepsOK /\ [Next]_vars
        => (ClockOK /\ PlacesOK /\ ObjectsOK /\ SweepsOK)'
  BY ClockStep, PlacesStep, ObjectsStep, SweepsStep DEF StoreInv
<1>2. ClockOK /\ PlacesOK /\ ObjectsOK /\ SweepsOK => TypeOK
  BY Zenon DEF ClockOK, PlacesOK, ObjectsOK, SweepsOK, ThreadOK, Dates, TypeOK
<1> QED
  BY <1>1, <1>2, TypesInit, StoreInvariance, PTL DEF Spec
=============================================================================
