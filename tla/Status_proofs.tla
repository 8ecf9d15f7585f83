------------------------------ MODULE Status_proofs ------------------------------
(***************************************************************************)
(* Proofs about the two ways a status leaves the cluster: the watcher      *)
(* behind wait(), for any number of failures in a row that give up, of     *)
(* failures, expiries and saves; and, at the end, the archive's copy, for  *)
(* any number of versions, failures and crashes.  The two share no state.  *)
(***************************************************************************)
EXTENDS StatusWatcher, StatusShipper, TLAPS

Contents == UNION {Values[k] : k \in Kinds}

\* What the proofs need of the types.
Shape ==
  /\ hist \in [Kinds -> Seq(Contents)]
  /\ cache \in [Kinds -> Nat] /\ rv \in [Kinds -> Nat] /\ pos \in [Kinds -> Nat]
  /\ thread \in [Kinds -> ThreadStates]

\* A cache holds a version that exists; a stream has at most to repeat it; and
\* the version to resume from is no older, but between the two halves of an
\* event.
CacheInv ==
  /\ \A k \in Kinds :
       /\ cache[k] <= Len(hist[k])
       /\ thread[k] = "stream" => cache[k] <= pos[k] + 1
       /\ thread[k] = "notify" => cache[k] <= pos[k]
       /\ rv[k] # 0 /\ thread[k] \notin {"notify", "ended"} => cache[k] <= rv[k]
  /\ pc = "seedJob" => cache["job"] = 0
  /\ pc \in {"seedJob", "seedPhases"} =>
       cache["phases"] = 0 /\ \A k \in Kinds : thread[k] = "none"

-----------------------------------------------------------------------------
LEMMA CacheInit == Init => Shape /\ CacheInv
<1> SUFFICES ASSUME Init PROVE Shape /\ CacheInv
  OBVIOUS
<1>1. hist \in [Kinds -> Seq(Contents)]
  <2>1. "PENDING" \in Contents
    BY DEF Contents, Kinds, Values, JobStates
  <2> QED BY <2>1 DEF Init, Kinds
<1>a. \A k \in Kinds : Len(hist[k]) \in Nat
  BY <1>1
<1>2. CacheInv
  BY <1>a DEF Init, CacheInv, Kinds
<1> QED BY <1>1, <1>2 DEF Init, Shape, Kinds, ThreadStates

\* A new version of an object takes nothing away.
LEMMA StoreKeeps ==
  ASSUME Shape, CacheInv, NEW k \in Kinds, NEW v \in Values[k], Store(k, v), OnlyCluster
  PROVE  Shape' /\ CacheInv'
<1>0. v \in Contents
  BY DEF Contents
<1>1. /\ hist' \in [Kinds -> Seq(Contents)]
      /\ \A j \in Kinds : Len(hist[j]) <= Len(hist'[j])
  BY <1>0 DEF Shape, Store
<1>2. UNCHANGED <<cache, rv, pos, thread, pc>>
  BY DEF OnlyCluster, watchVars, consumerVars
<1>3. \A j \in Kinds : cache[j] <= Len(hist'[j])
  BY <1>1, <1>2 DEF CacheInv, Shape
<1> QED BY <1>1, <1>2, <1>3 DEF Shape, CacheInv

LEMMA ClusterKeeps == ASSUME Shape, CacheInv, ClusterStep PROVE Shape' /\ CacheInv'
<1> USE DEF Kinds, Values
<1>1. CASE JobStarts
  BY <1>1, StoreKeeps DEF JobStarts, JobStates
<1>2. CASE JobEnds
  BY <1>2, StoreKeeps DEF JobEnds, JobStates
<1>3. ASSUME NEW v \in PhasesStates, PhasesSaved(v) PROVE Shape' /\ CacheInv'
  BY <1>3, StoreKeeps DEF PhasesSaved
<1>4. ASSUME NEW k \in Kinds, Deleted(k) PROVE Shape' /\ CacheInv'
  BY <1>4, StoreKeeps DEF Deleted
<1> QED BY <1>1, <1>2, <1>3, <1>4 DEF ClusterStep

LEMMA ThreadKeeps ==
  ASSUME Shape, CacheInv, NEW k \in Kinds, ThreadStep(k) \/ StreamFails(k) \/ Expired(k)
  PROVE  Shape' /\ CacheInv' /\ (cache'[k] # 0 => cache'[k] >= cache[k])
         /\ \A j \in Kinds \ {k} : cache'[j] = cache[j]
<1> USE DEF threadUnchanged, ThreadTo, StreamTo, consumerVars, ThreadStates
<1>0. UNCHANGED <<hist, pc>>
  BY Zenon DEF ThreadStep, Open, Apply, Notify, StreamEnds, Escalate, ThreadEnds, StreamFails, Expired
<1>l. Len(hist[k]) \in Nat
  BY DEF Shape
<1>1. CASE Open(k)
  <2>1. UNCHANGED <<cache, rv>> /\ thread' = [thread EXCEPT ![k] = "stream"]
    BY <1>1 DEF Open
  <2> DEFINE n == IF rv[k] # 0 THEN rv[k] ELSE IF Exists(k) THEN Len(hist[k]) - 1 ELSE Len(hist[k])
  <2>2. pos' = [pos EXCEPT ![k] = n]
    BY <1>1 DEF Open
  <2>3. Exists(k) => Len(hist[k]) # 0
    BY DEF Exists, Shape
  <2>4. n \in Nat /\ cache[k] <= n + 1 /\ (rv[k] # 0 => cache[k] <= rv[k])
    BY <1>1, <1>l, <2>3 DEF Open, Shape, CacheInv
  <2> HIDE DEF n
  <2>5. pc \notin {"seedJob", "seedPhases"}
    BY <1>1 DEF Open, CacheInv
  <2> QED BY <1>0, <2>1, <2>2, <2>4, <2>5 DEF Shape, CacheInv
<1>2. CASE Apply(k)
  BY <1>0, <1>l, <1>2 DEF Apply, Shape, CacheInv
<1>3. CASE Notify(k)
  BY <1>0, <1>3 DEF Notify, Shape, CacheInv
<1>4. CASE StreamEnds(k)
  BY <1>0, <1>4 DEF StreamEnds, Shape, CacheInv
<1>5. CASE Escalate(k)
  <2>1. /\ thread[k] = "escalate" /\ thread' = [thread EXCEPT ![k] = "idle"]
        /\ UNCHANGED <<cache, rv, pos>>
    BY <1>5 DEF Escalate
  <2> QED BY <1>0, <2>1 DEF Shape, CacheInv
<1>8. CASE ThreadEnds(k)
  BY <1>0, <1>8 DEF ThreadEnds, Shape, CacheInv
<1>6. CASE StreamFails(k)
  <2>1. PICK t \in {"escalate", "idle"} : thread' = [thread EXCEPT ![k] = t]
    BY <1>6 DEF StreamFails
  <2>2. thread[k] = "stream" /\ UNCHANGED <<cache, rv>> /\ pos' = [pos EXCEPT ![k] = 0]
    BY <1>6 DEF StreamFails
  <2> QED BY <1>0, <2>1, <2>2 DEF Shape, CacheInv
<1>7. CASE Expired(k)
  BY <1>0, <1>7 DEF Expired, Shape, CacheInv
<1> QED BY <1>1, <1>2, <1>3, <1>4, <1>5, <1>6, <1>7, <1>8 DEF ThreadStep

\* Without the seeds, the consumer leaves the caches alone; leaving the `with`
\* block ends both threads.
LEMMA ConsumerKeeps ==
  ASSUME Shape, CacheInv, Look \/ Woken \/ RaiseIfFatal \/ Read \/ ReadJob \/ ReadPhases
  PROVE  Shape' /\ CacheInv' /\ UNCHANGED cache
<1>1. UNCHANGED <<hist, cache, rv>>
  BY Zenon DEF Look, Woken, RaiseIfFatal, Read, ReadJob, ReadPhases, consumerUnchanged
<1>2. \/ thread' = [k \in Kinds |-> "ended"] /\ pos' = [k \in Kinds |-> 0]
      \/ UNCHANGED <<thread, pos>>
  BY Zenon DEF Look, Woken, RaiseIfFatal, Read, ReadJob, ReadPhases, ExitWith
<1>3. pc' \notin {"seedJob", "seedPhases"}
  BY DEF Look, Woken, RaiseIfFatal, Read, ReadJob, ReadPhases
<1>4. CASE UNCHANGED <<thread, pos>>
  BY <1>1, <1>3, <1>4 DEF Shape, CacheInv
<1>5. CASE thread' = [k \in Kinds |-> "ended"] /\ pos' = [k \in Kinds |-> 0]
  BY <1>1, <1>3, <1>5 DEF Shape, CacheInv, ThreadStates
<1> QED BY <1>1, <1>2, <1>4, <1>5

LEMMA SeedKeeps ==
  ASSUME Shape, CacheInv, NEW k \in Kinds, Seed(k) \/ SeedFails(k)
  PROVE  /\ Shape' /\ CacheInv'
         /\ \A j \in Kinds : cache'[j] # 0 => cache'[j] >= cache[j]
<1>1. CASE SeedFails(k)
  <2>1. UNCHANGED <<hist, cache, rv, pos, thread>> /\ (pc' = "raised" \/ pc' = pc)
    BY <1>1 DEF SeedFails, watchVars
  <2> QED BY <2>1 DEF Shape, CacheInv
<1>2. CASE Seed(k)
  <2> DEFINE seen == IF Exists(k) THEN Len(hist[k]) ELSE 0
  <2>1. seen \in Nat /\ seen <= Len(hist[k])
    BY DEF Shape
  <2>2. cache' = [cache EXCEPT ![k] = seen] /\ rv' = [rv EXCEPT ![k] = seen]
    BY <1>2 DEF Seed
  <2> HIDE DEF seen
  <2>3. CASE k = "job"
    <3>1. pc = "seedJob" /\ pc' = "seedPhases" /\ UNCHANGED <<hist, pos, thread>>
      BY <1>2, <2>3 DEF Seed, Seeding
    <3> QED BY <2>1, <2>2, <2>3, <3>1 DEF Shape, CacheInv, Kinds
  <2>4. CASE k = "phases"
    <3>1. /\ pc = "seedPhases" /\ pc' = "raise?" /\ UNCHANGED <<hist, pos>>
          /\ thread' = [j \in Kinds |-> "idle"]
      BY <1>2, <2>4 DEF Seed, Seeding
    <3> QED BY <2>1, <2>2, <2>4, <3>1 DEF Shape, CacheInv, Kinds, ThreadStates
  <2> QED BY <2>3, <2>4 DEF Kinds
<1> QED BY <1>1, <1>2

LEMMA CacheStep ==
  ASSUME Shape, CacheInv, [Next]_vars
  PROVE  /\ Shape' /\ CacheInv'
         /\ \A k \in Kinds : cache'[k] # 0 => cache'[k] >= cache[k]
<1>0. ASSUME UNCHANGED cache PROVE \A k \in Kinds : cache'[k] # 0 => cache'[k] >= cache[k]
  BY <1>0 DEF Shape
<1>1. CASE UNCHANGED vars
  <2>1. UNCHANGED <<hist, cache, rv, pos, thread, pc>>
    BY <1>1 DEF vars, clusterVars, watchVars, consumerVars
  <2> QED BY <2>1, <1>0 DEF Shape, CacheInv
<1>2. CASE ClusterStep
  <2>1. UNCHANGED cache
    BY <1>2 DEF ClusterStep, JobStarts, JobEnds, PhasesSaved, Deleted, OnlyCluster, watchVars
  <2> QED BY <1>2, <2>1, <1>0, ClusterKeeps
<1>3. ASSUME NEW k \in Kinds, ThreadStep(k) \/ StreamFails(k) \/ Expired(k)
      PROVE  /\ Shape' /\ CacheInv'
             /\ \A j \in Kinds : cache'[j] # 0 => cache'[j] >= cache[j]
  <2>1. /\ Shape' /\ CacheInv' /\ (cache'[k] # 0 => cache'[k] >= cache[k])
        /\ \A j \in Kinds \ {k} : cache'[j] = cache[j]
    BY <1>3, ThreadKeeps
  <2>2. \A j \in Kinds : cache[j] \in Nat
    BY DEF Shape
  <2>3. ASSUME NEW j \in Kinds, cache'[j] # 0 PROVE cache'[j] >= cache[j]
    <3>1. CASE j = k
      BY <2>1, <2>3, <3>1
    <3>2. CASE j # k
      BY <2>1, <2>2, <3>2
    <3> QED BY <3>1, <3>2
  <2> QED BY <2>1, <2>3
<1>4. CASE Consumer
  <2>1. CASE \E k \in Kinds : Seed(k)
    BY <2>1, SeedKeeps
  <2> QED BY <1>4, <2>1, <1>0, ConsumerKeeps DEF Consumer
<1>5. ASSUME NEW k \in Kinds, SeedFails(k)
      PROVE  /\ Shape' /\ CacheInv'
             /\ \A j \in Kinds : cache'[j] # 0 => cache'[j] >= cache[j]
  BY <1>5, SeedKeeps
<1> QED BY <1>1, <1>2, <1>3, <1>4, <1>5 DEF Next, WatchFault

\* A cached object is never replaced by an older version of itself, however
\* often the streams break, resume and start from a list (_apply_event,
\* _run_watch), for any number of failures and versions.
THEOREM TheCacheNeverGoesBack == FairSpec => CacheNeverGoesBack
<1>1. Shape /\ CacheInv /\ [Next]_vars =>
        [\A k \in Kinds : cache'[k] # 0 => cache'[k] >= cache[k]]_vars
  BY CacheStep
<1>2. Shape /\ CacheInv /\ [Next]_vars => (Shape /\ CacheInv)'
  BY CacheStep
<1> QED BY <1>1, <1>2, CacheInit, PTL DEF FairSpec, Spec, CacheNeverGoesBack

-----------------------------------------------------------------------------
(* WaiterIsWoken.                                                          *)

\* Some watch thread is about to do this.
About(what) == \E k \in Kinds : thread[k] = what

\* Since its last look at the failure, and then at the caches, the consumer has
\* been woken for whatever has changed, or will be.
WakeInv ==
  /\ pc \in {"look", "wait"} /\ dirty => changed \/ About("notify")
  /\ pc \in {"read", "look", "wait"} /\ fatal => changed \/ About("escalate")

\* A step of one thread leaves what the others are about to do.
LEMMA OthersStay ==
  ASSUME Shape, NEW k \in Kinds, NEW t, thread' = [thread EXCEPT ![k] = t],
         NEW what, thread[k] # what
  PROVE  About(what) => About(what)'
  BY DEF Shape, About

LEMMA ThisOneIs ==
  ASSUME Shape, NEW k \in Kinds, NEW t, thread' = [thread EXCEPT ![k] = t]
  PROVE  About(t)'
  BY DEF Shape, About

LEMMA ThreadWakes ==
  ASSUME Shape, WakeInv, NEW k \in Kinds, ThreadStep(k) \/ StreamFails(k) \/ Expired(k)
  PROVE  WakeInv'
<1>0. pc' = pc
  BY Zenon DEF ThreadStep, Open, Apply, Notify, StreamEnds, Escalate, ThreadEnds, StreamFails,
               Expired, threadUnchanged, consumerVars
<1>1. CASE Open(k) \/ StreamEnds(k) \/ ThreadEnds(k)
  <2>1. /\ thread[k] \in {"idle", "stream"}
        /\ UNCHANGED <<fatal, changed, dirty>>
    BY <1>1, Zenon DEF Open, StreamEnds, ThreadEnds, StreamTo, sharedVars
  <2>2. PICK t \in {"stream", "idle", "ended"} : thread' = [thread EXCEPT ![k] = t]
    BY <1>1, Zenon DEF Open, StreamEnds, ThreadEnds, StreamTo, ThreadTo
  <2>3. thread[k] # "notify" /\ thread[k] # "escalate"
    BY <2>1
  <2>4. (About("notify") => About("notify")') /\ (About("escalate") => About("escalate")')
    BY <2>2, <2>3, OthersStay
  <2> QED BY <1>0, <2>1, <2>4, Zenon DEF WakeInv
<1>2. CASE Apply(k)
  <2>1. /\ thread[k] = "stream" /\ thread' = [thread EXCEPT ![k] = "notify"]
        /\ UNCHANGED <<fatal, changed>>
    BY <1>2, Zenon DEF Apply, ThreadTo
  <2>2. thread[k] # "escalate"
    BY <2>1
  <2>3. About("notify")' /\ (About("escalate") => About("escalate")')
    BY <2>1, <2>2, OthersStay, ThisOneIs
  <2> QED BY <1>0, <2>1, <2>3, Zenon DEF WakeInv
<1>3. CASE Notify(k) \/ Escalate(k)
  <2>1. changed'
    BY <1>3, Zenon DEF Notify, Escalate
  <2> QED BY <2>1, Zenon DEF WakeInv
<1>4. CASE StreamFails(k)
  <2>1. thread[k] = "stream" /\ UNCHANGED <<changed, dirty>>
    BY <1>4, Zenon DEF StreamFails
  <2>2. PICK t \in {"escalate", "idle"} :
          thread' = [thread EXCEPT ![k] = t] /\ (fatal' /\ ~fatal => t = "escalate")
    BY <1>4, Zenon DEF StreamFails, StreamTo, ThreadTo
  <2>3. thread[k] # "notify" /\ thread[k] # "escalate"
    BY <2>1
  <2>4. (About("notify") => About("notify")') /\ (About("escalate") => About("escalate")')
    BY <2>2, <2>3, OthersStay
  <2>5. fatal' /\ ~fatal => About("escalate")'
    BY <2>2, ThisOneIs, Zenon
  <2> QED BY <1>0, <2>1, <2>4, <2>5, Zenon DEF WakeInv
<1>5. CASE Expired(k)
  <2>1. UNCHANGED <<thread, fatal, changed, dirty>>
    BY <1>5, Zenon DEF Expired, sharedVars
  <2> QED BY <1>0, <2>1, Zenon DEF WakeInv, About
<1> QED BY <1>1, <1>2, <1>3, <1>4, <1>5, Zenon DEF ThreadStep

LEMMA ConsumerWakes ==
  ASSUME WakeInv, Look \/ Woken \/ RaiseIfFatal \/ Read \/ ReadJob \/ ReadPhases
  PROVE  WakeInv'
<1> USE DEF consumerUnchanged, ExitWith
<1>1. CASE Look
  <2>1. pc = "look" /\ UNCHANGED <<fatal, changed, dirty>>
    BY <1>1, Zenon DEF Look
  <2>2. pc' \in {"readJob", "returned"} \/ (pc' = "wait" /\ UNCHANGED thread)
    BY <1>1 DEF Look
  <2>3. CASE pc' \in {"readJob", "returned"}
    BY <2>3 DEF WakeInv
  <2>4. CASE pc' = "wait" /\ UNCHANGED thread
    BY <2>1, <2>4, Zenon DEF WakeInv, About
  <2> QED BY <2>2, <2>3, <2>4
<1>2. CASE Woken
  <2>1. pc' = "raise?"
    BY <1>2, Zenon DEF Woken
  <2> QED BY <2>1 DEF WakeInv
<1>3. CASE RaiseIfFatal
  <2>1. fatal' = fatal /\ pc' = IF fatal THEN "raised" ELSE "read"
    BY <1>3, Zenon DEF RaiseIfFatal
  <2>2. CASE fatal
    <3>1. pc' = "raised"
      BY <2>1, <2>2, Zenon
    <3> QED BY <3>1 DEF WakeInv
  <2>3. CASE ~fatal
    <3>1. pc' = "read" /\ ~fatal'
      BY <2>1, <2>3, Zenon
    <3>2. pc' \notin {"look", "wait"}
      BY <3>1
    <3> QED BY <3>1, <3>2, Zenon DEF WakeInv
  <2> QED BY <2>2, <2>3
<1>4. CASE Read
  <2>1. pc = "read" /\ pc' = "look" /\ dirty' = FALSE /\ UNCHANGED <<fatal, changed, thread>>
    BY <1>4, Zenon DEF Read
  <2> QED BY <2>1, Zenon DEF WakeInv, About
<1>5. CASE ReadJob
  <2>1. pc' \in {"readPhases", "returned"}
    BY <1>5, Zenon DEF ReadJob
  <2> QED BY <2>1 DEF WakeInv
<1>6. CASE ReadPhases
  <2>1. pc' = "returned"
    BY <1>6, Zenon DEF ReadPhases
  <2> QED BY <2>1 DEF WakeInv
<1> QED BY <1>1, <1>2, <1>3, <1>4, <1>5, <1>6

LEMMA WakeStep == ASSUME Shape, WakeInv, [Next]_vars PROVE WakeInv'
<1>1. CASE UNCHANGED vars \/ ClusterStep
  <2>1. UNCHANGED <<thread, fatal, changed, dirty, pc>>
    BY <1>1, Zenon DEF vars, clusterVars, watchVars, sharedVars, consumerVars, ClusterStep,
                       JobStarts, JobEnds, PhasesSaved, Deleted, OnlyCluster
  <2> QED BY <2>1, Zenon DEF WakeInv, About
<1>2. ASSUME NEW k \in Kinds, ThreadStep(k) \/ StreamFails(k) \/ Expired(k) PROVE WakeInv'
  BY <1>2, ThreadWakes
<1>3. ASSUME NEW k \in Kinds, Seed(k) PROVE WakeInv'
  <2>1. pc' \in {"seedPhases", "raise?"}
    BY <1>3, Zenon DEF Seed
  <2> QED BY <2>1 DEF WakeInv
<1>4. ASSUME NEW k \in Kinds, SeedFails(k) PROVE WakeInv'
  <2>1. pc \in {"seedJob", "seedPhases"}
    BY <1>4 DEF SeedFails, Seeding
  <2>2. pc' = "raised" \/ pc' = pc
    BY <1>4, Zenon DEF SeedFails
  <2> QED BY <2>1, <2>2 DEF WakeInv
<1> QED BY <1>1, <1>2, <1>3, <1>4, ConsumerWakes, Zenon DEF Next, WatchFault, Consumer

\* The consumer never sleeps on news, in whatever order the two threads and the
\* consumer take their steps (wait_for_update, _apply_event, _on_fatal_logged),
\* for any number of failures, expiries and saves.
THEOREM TheWaiterIsWoken == FairSpec => []WaiterIsWoken
<1>1. Init => WakeInv
  BY DEF Init, WakeInv
<1>2. WakeInv => WaiterIsWoken
  <2> SUFFICES ASSUME WakeInv, pc = "wait", dirty \/ fatal
               PROVE  changed \/ \E k \in Kinds : thread[k] \in {"notify", "escalate"}
    BY Zenon DEF WaiterIsWoken
  <2>1. changed \/ About("notify") \/ About("escalate")
    BY Zenon DEF WakeInv
  <2> QED BY <2>1, Zenon DEF About
<1>3. Shape /\ CacheInv /\ [Next]_vars => (Shape /\ CacheInv)'
  BY CacheStep
<1>4. Shape /\ WakeInv /\ [Next]_vars => WakeInv'
  BY WakeStep
<1> QED BY <1>1, <1>2, <1>3, <1>4, CacheInit, PTL DEF FairSpec, Spec

-----------------------------------------------------------------------------
(* BadNewsIsTrue.                                                          *)

BadPhases == {"failed", "canceled"}

\* The controller's JobSet starts, ends and may be deleted at any time.
JobStory ==
  /\ Len(hist["job"]) \in 1..4 /\ hist["job"][1] = "PENDING"
  /\ Len(hist["job"]) >= 2 => hist["job"][2] \in {"RUNNING", Gone}
  /\ Len(hist["job"]) >= 3 => hist["job"][2] = "RUNNING"
                              /\ hist["job"][3] \in {"Completed", "Failed", Gone}
  /\ Len(hist["job"]) >= 4 => hist["job"][3] # Gone /\ hist["job"][4] = Gone

\* The phases get no better, and are gone only after the JobSet.
PhasesStory ==
  /\ \A i \in 1..Len(hist["phases"]) :
       hist["phases"][i] = Gone => i = Len(hist["phases"]) /\ i > 1 /\ Now("job") = Gone
  /\ \A i, j \in 1..Len(hist["phases"]) :
       i <= j /\ hist["phases"][i] \in BadPhases
         => hist["phases"][j] \in BadPhases \union {Gone}

Ended(st) == Len(hist["job"]) >= 3 /\ hist["job"][3] = st
BadSeen == \E i \in 1..Len(hist["phases"]) : hist["phases"][i] \in BadPhases

\* What a status found in the caches, or read, says of the histories.
TrueOf(status) ==
  /\ status \in {"FAILED", "CANCELED"} => Ended("Completed") /\ BadSeen
  /\ status = "ERROR" => Ended("Failed")

NewsInv ==
  /\ TrueOf(latest) /\ TrueOf(result)
  /\ result = "UNKNOWN" => Now("job") = Gone
  /\ pc = "readPhases" => Ended("Completed")

LEMMA StoreEffect ==
  ASSUME Shape, NEW k \in Kinds, NEW v \in Values[k], Store(k, v)
  PROVE  /\ Len(hist[k]) \in Nat /\ Len(hist'[k]) = Len(hist[k]) + 1
         /\ \A i \in 1..Len(hist[k]) : hist'[k][i] = hist[k][i]
         /\ hist'[k][Len(hist[k]) + 1] = v
         /\ \A j \in Kinds \ {k} : hist'[j] = hist[j]
<1>1. v \in Contents /\ hist[k] \in Seq(Contents) /\ hist'[k] = Append(hist[k], v)
  BY DEF Contents, Shape, Store
<1>2. \A j \in Kinds \ {k} : hist'[j] = hist[j]
  BY DEF Shape, Store
<1> QED BY <1>1, <1>2

\* What the cluster does to the histories.
Grows(k, v) ==
  /\ Store(k, v)
  /\ k = "job" => \/ v = "RUNNING" /\ Now("job") = "PENDING"
                  \/ v \in {"Completed", "Failed"} /\ Now("job") = "RUNNING"
                  \/ v = Gone /\ Now("job") # Gone
  /\ k = "phases" => \/ /\ v \in PhasesStates /\ Now("job") = "RUNNING"
                        /\ hist["phases"] # <<>> /\ Now("phases") # "clear" => v # "clear"
                     \/ v = Gone /\ Exists("phases") /\ Now("job") = Gone

LEMMA HistoryStep ==
  ASSUME Shape, JobStory, [Next]_vars
  PROVE  \/ hist' = hist
         \/ /\ \E k \in Kinds : \E v \in Values[k] : Grows(k, v)
            /\ pc \notin {"returned", "raised"} /\ UNCHANGED <<thread, latest, pc, result>>
<1>1. CASE UNCHANGED vars \/ Consumer \/ WatchFault \/ \E k \in Kinds : ThreadStep(k)
  BY <1>1, Zenon DEF vars, clusterVars, Consumer, WatchFault, ThreadStep, Seed, Look, Woken,
     RaiseIfFatal, Read, ReadJob, ReadPhases, consumerUnchanged, SeedFails, StreamFails,
     Expired, Open, Apply, Notify, StreamEnds, Escalate, ThreadEnds, threadUnchanged
<1>2. CASE ClusterStep
  <2>1. OnlyCluster
    BY <1>2, Zenon DEF ClusterStep, JobStarts, JobEnds, PhasesSaved, Deleted
  <2>2. pc \notin {"returned", "raised"} /\ UNCHANGED <<thread, latest, pc, result>>
    BY <2>1 DEF OnlyCluster, watchVars, consumerVars
  <2>3. CASE JobStarts
    BY <2>2, <2>3 DEF JobStarts, Grows, Kinds, Values, JobStates
  <2>4. CASE JobEnds
    BY <2>2, <2>4 DEF JobEnds, Grows, Kinds, Values, JobStates
  <2>5. ASSUME NEW v \in PhasesStates, PhasesSaved(v)
        PROVE  Grows("phases", v) /\ v \in Values["phases"]
    BY <2>5 DEF PhasesSaved, Grows, Kinds, Values
  <2>6. ASSUME NEW k \in Kinds, Deleted(k)
        PROVE  Grows(k, Gone) /\ Gone \in Values[k]
    <3>1. hist["job"] # <<>>
      BY DEF JobStory
    <3> QED BY <2>6, <3>1 DEF Deleted, Exists, Grows, Kinds, Values
  <2> QED BY <1>2, <2>2, <2>3, <2>4, <2>5, <2>6 DEF ClusterStep, Kinds
<1> QED BY <1>1, <1>2 DEF Next

LEMMA StoryStep ==
  ASSUME Shape, JobStory, PhasesStory, [Next]_vars
  PROVE  /\ JobStory' /\ PhasesStory'
         /\ \A st : Ended(st) => Ended(st)'
         /\ BadSeen => BadSeen'
         /\ Now("job") = Gone => Now("job")' = Gone
<1>1. CASE hist' = hist
  BY <1>1 DEF JobStory, PhasesStory, Ended, BadSeen, Now
<1>2. ASSUME NEW v \in Values["job"], Grows("job", v)
      PROVE  /\ JobStory' /\ PhasesStory'
             /\ \A st : Ended(st) => Ended(st)'
             /\ BadSeen => BadSeen'
             /\ Now("job") = Gone => Now("job")' = Gone
  <2>1. /\ Len(hist["job"]) \in Nat /\ Len(hist'["job"]) = Len(hist["job"]) + 1
        /\ \A i \in 1..Len(hist["job"]) : hist'["job"][i] = hist["job"][i]
        /\ hist'["job"][Len(hist["job"]) + 1] = v
        /\ hist'["phases"] = hist["phases"]
    BY <1>2, StoreEffect DEF Grows, Kinds
  <2>2. Now("job") # Gone
    BY <1>2, WatcherAssumption DEF Grows, WatcherAssumption, JobStates
  <2>3. JobStory'
    <3> DEFINE n == Len(hist["job"])
    <3>1. hist["job"][n] # Gone
      BY <2>2 DEF Now
    <3>2. /\ n \in 1..3 /\ hist["job"][1] = "PENDING"
          /\ n >= 2 => hist["job"][2] = "RUNNING"
          /\ n = 3 => hist["job"][3] \in {"Completed", "Failed"}
      <4>1. n \in 1..4 /\ (n = 4 => hist["job"][4] = Gone)
        BY DEF JobStory
      <4>2. n \in 1..3
        BY <3>1, <4>1
      <4>3. n >= 2 => hist["job"][2] = "RUNNING"
        BY <3>1, <4>2 DEF JobStory
      <4>4. n = 3 => hist["job"][3] \in {"Completed", "Failed"}
        BY <3>1 DEF JobStory
      <4> QED BY <4>2, <4>3, <4>4 DEF JobStory
    <3>3. /\ n = 1 => v \in {"RUNNING", Gone}
          /\ n = 2 => v \in {"Completed", "Failed", Gone}
          /\ n = 3 => v = Gone
      BY <1>2, <3>2 DEF Grows, Now
    <3>4. /\ Len(hist'["job"]) = n + 1 /\ hist'["job"][n + 1] = v
          /\ \A i \in 1..n : hist'["job"][i] = hist["job"][i]
      BY <2>1
    <3> HIDE DEF n
    <3>5. CASE n = 1
      BY <3>2, <3>3, <3>4, <3>5 DEF JobStory
    <3>6. CASE n = 2
      BY <3>2, <3>3, <3>4, <3>6 DEF JobStory
    <3>7. CASE n = 3
      BY <3>2, <3>3, <3>4, <3>7, WatcherAssumption DEF JobStory, WatcherAssumption, JobStates
    <3> QED BY <3>2, <3>5, <3>6, <3>7
  <2>4. PhasesStory'
    BY <2>1, <2>2 DEF PhasesStory
  <2> QED BY <2>1, <2>2, <2>3, <2>4 DEF Ended, BadSeen
<1>3. ASSUME NEW v \in Values["phases"], Grows("phases", v)
      PROVE  /\ JobStory' /\ PhasesStory'
             /\ \A st : Ended(st) => Ended(st)'
             /\ BadSeen => BadSeen'
             /\ Now("job") = Gone => Now("job")' = Gone
  <2>1. /\ Len(hist["phases"]) \in Nat /\ Len(hist'["phases"]) = Len(hist["phases"]) + 1
        /\ \A i \in 1..Len(hist["phases"]) : hist'["phases"][i] = hist["phases"][i]
        /\ hist'["phases"][Len(hist["phases"]) + 1] = v
        /\ hist'["job"] = hist["job"]
    BY <1>3, StoreEffect DEF Grows, Kinds
  <2>2. \A i \in 1..Len(hist["phases"]) : hist["phases"][i] # Gone
    <3> SUFFICES ASSUME NEW i \in 1..Len(hist["phases"]), hist["phases"][i] = Gone PROVE FALSE
      OBVIOUS
    <3>1. i = Len(hist["phases"]) /\ Now("job") = Gone /\ Now("phases") = Gone
      BY DEF PhasesStory, Now
    <3> QED BY <1>3, <3>1, WatcherAssumption DEF Grows, Exists, WatcherAssumption, JobStates
  <2>3. \A i \in 1..Len(hist["phases"]) : hist["phases"][i] \in BadPhases =>
          v \in BadPhases \union {Gone}
    <3> SUFFICES ASSUME NEW i \in 1..Len(hist["phases"]), hist["phases"][i] \in BadPhases, v # Gone
                 PROVE  v \in BadPhases
      OBVIOUS
    <3>1. Now("phases") \in BadPhases /\ hist["phases"] # <<>>
      BY <2>1, <2>2 DEF PhasesStory, Now
    <3> QED BY <1>3, <3>1 DEF Grows, BadPhases, PhasesStates
  <2>4. v = Gone => Len(hist["phases"]) >= 1 /\ Now("job")' = Gone
    <3>1. hist["phases"] \in Seq(Contents)
      BY DEF Shape, Kinds
    <3> QED BY <1>3, <2>1, <3>1, WatcherAssumption DEF Grows, Exists, Now, WatcherAssumption
  <2>5. PhasesStory'
    <3>1. \A i \in 1..Len(hist'["phases"]) :
            hist'["phases"][i] = Gone => i = Len(hist'["phases"]) /\ i > 1 /\ Now("job")' = Gone
      BY <2>1, <2>2, <2>4
    <3>2. \A i, j \in 1..Len(hist'["phases"]) :
            i <= j /\ hist'["phases"][i] \in BadPhases
              => hist'["phases"][j] \in BadPhases \union {Gone}
      BY <2>1, <2>3 DEF PhasesStory
    <3> QED BY <3>1, <3>2 DEF PhasesStory
  <2> QED BY <2>1, <2>5 DEF JobStory, Ended, BadSeen, Now
<1> QED BY <1>1, <1>2, <1>3, HistoryStep DEF Kinds

\* A projection of the caches tells what is in the histories.
LEMMA ProjectionIsTrue ==
  ASSUME JobStory, NEW c \in [Kinds -> Nat], \A k \in Kinds : c[k] <= Len(hist[k])
  PROVE  TrueOf(Projection(c))
<1> DEFINE j == Held("job", c["job"])
           p == Held("phases", c["phases"])
<1>1. /\ j \in JobStates \union {Gone}
      /\ j \in {"Completed", "Failed"} => Ended(j)
  BY WatcherAssumption DEF Held, JobStory, Ended, Kinds, WatcherAssumption, JobStates
<1>2. p \in BadPhases => BadSeen
  BY WatcherAssumption DEF Held, BadSeen, Kinds, BadPhases, WatcherAssumption, PhasesStates
<1> HIDE DEF j, p
<1>3. StatusOf(j, p) \in {"FAILED", "CANCELED"} => j = "Completed" /\ p \in BadPhases
  BY <1>1 DEF StatusOf, BadPhases, JobStates
<1>4. StatusOf(j, p) = "ERROR" => j = "Failed"
  BY DEF StatusOf
<1> QED BY <1>1, <1>2, <1>3, <1>4 DEF TrueOf, Projection, j, p

LEMMA NewsStep ==
  ASSUME Shape, CacheInv, Shape', CacheInv', JobStory, PhasesStory, NewsInv, [Next]_vars
  PROVE  NewsInv'
<1>0. /\ JobStory' /\ PhasesStory'
      /\ \A st : Ended(st) => Ended(st)'
      /\ BadSeen => BadSeen'
      /\ Now("job") = Gone => Now("job")' = Gone
  BY StoryStep
<1>a. \A status : TrueOf(status) => TrueOf(status)'
  BY <1>0 DEF TrueOf
<1>b. ASSUME UNCHANGED <<latest, result>>, pc' = "readPhases" => pc = "readPhases"
      PROVE  NewsInv'
  <2>1. TrueOf(latest)' /\ TrueOf(result)'
    BY <1>a, <1>b DEF NewsInv
  <2> QED BY <1>0, <1>b, <2>1 DEF NewsInv
<1>1. CASE UNCHANGED vars \/ ClusterStep
  <2>1. UNCHANGED <<latest, pc, result>>
    BY <1>1, Zenon DEF vars, consumerVars, ClusterStep, JobStarts, JobEnds, PhasesSaved,
                       Deleted, OnlyCluster
  <2> QED BY <1>b, <2>1
<1>2. ASSUME NEW k \in Kinds, ThreadStep(k) \/ StreamFails(k) \/ Expired(k) PROVE NewsInv'
  <2>1. UNCHANGED <<latest, pc, result>>
    BY <1>2, Zenon DEF ThreadStep, Open, Apply, Notify, StreamEnds, Escalate, ThreadEnds,
                       StreamFails, Expired, threadUnchanged, consumerVars
  <2> QED BY <1>b, <2>1
<1>3. ASSUME NEW k \in Kinds, SeedFails(k) PROVE NewsInv'
  <2>1. UNCHANGED <<latest, result>> /\ pc' \in {"raised", pc}
    BY <1>3, Zenon DEF SeedFails
  <2> QED BY <1>b, <2>1
<1>4. ASSUME NEW k \in Kinds, Seed(k) PROVE NewsInv'
  <2>1. UNCHANGED <<hist, result>> /\ pc' \in {"seedPhases", "raise?"}
    BY <1>4, Zenon DEF Seed
  <2>2. latest' = latest \/ latest' = Projection(cache')
    BY <1>4, Zenon DEF Seed
  <2>3. JobStory /\ cache' \in [Kinds -> Nat] /\ \A j \in Kinds : cache'[j] <= Len(hist[j])
    BY <2>1 DEF Shape, CacheInv
  <2>4. TrueOf(Projection(cache'))
    BY <2>3, ProjectionIsTrue
  <2>5. TrueOf(latest') /\ TrueOf(result)
    BY <2>2, <2>4 DEF NewsInv
  <2> QED BY <1>0, <1>a, <2>1, <2>5 DEF NewsInv, TrueOf, Ended, BadSeen
<1>5. CASE Look
  <2>1. pc' # "readPhases" /\ latest' = latest /\ hist' = hist
    BY <1>5 DEF Look, consumerUnchanged
  <2>2. result' = result \/ (result' = latest /\ latest \in Finished)
    BY <1>5 DEF Look
  <2>3. TrueOf(result') /\ (result' = "UNKNOWN" => Now("job") = Gone)
    BY <2>2 DEF NewsInv, Finished
  <2> QED BY <2>1, <2>3 DEF NewsInv, TrueOf, Ended, BadSeen, Now
<1>6. CASE Woken \/ RaiseIfFatal
  <2>1. UNCHANGED <<latest, result>> /\ pc' \in {"raise?", "raised", "read"}
    BY <1>6, Zenon DEF Woken, RaiseIfFatal
  <2> QED BY <1>b, <2>1
<1>7. CASE Read
  <2>1. UNCHANGED <<hist, result>> /\ pc' = "look" /\ latest' \in {latest, Projection(cache)}
    BY <1>7, Zenon DEF Read, consumerUnchanged
  <2>2. TrueOf(Projection(cache))
    BY ProjectionIsTrue DEF Shape, CacheInv
  <2>3. TrueOf(latest')
    BY <2>1, <2>2 DEF NewsInv
  <2> QED BY <2>1, <2>3 DEF NewsInv, TrueOf, Ended, BadSeen, Now
<1>8. CASE ReadJob
  <2>1. UNCHANGED <<hist, latest>> /\ hist["job"] # <<>> /\ Len(hist["job"]) \in 1..4
    BY <1>8 DEF ReadJob, consumerUnchanged, JobStory
  <2>2. CASE Exists("job") /\ Now("job") = "Completed"
    <3>1. pc' = "readPhases" /\ result' = result
      BY <1>8, <2>2 DEF ReadJob
    <3>2. Ended("Completed")
      BY <2>1, <2>2, WatcherAssumption DEF Now, JobStory, Ended, WatcherAssumption, JobStates
    <3> QED BY <2>1, <3>1, <3>2 DEF NewsInv, TrueOf, Ended, BadSeen, Now
  <2>3. CASE Exists("job") /\ Now("job") # "Completed"
    <3>1. pc' = "returned" /\ result' = StatusOf(Now("job"), Gone)
      BY <1>8, <2>3 DEF ReadJob
    <3>2. Now("job") \in {"PENDING", "RUNNING", "Failed"}
      BY <2>1, <2>3 DEF Exists, Now, JobStory
    <3>3. Now("job") = "Failed" => Ended("Failed")
      BY <2>1, WatcherAssumption DEF Now, JobStory, Ended, WatcherAssumption, JobStates
    <3>4. TrueOf(result') /\ result' # "UNKNOWN"
      BY <3>1, <3>2, <3>3, WatcherAssumption DEF TrueOf, StatusOf, WatcherAssumption, JobStates
    <3> QED BY <2>1, <3>1, <3>4 DEF NewsInv, TrueOf, Ended, BadSeen, Now
  <2>4. CASE ~Exists("job")
    <3>1. pc' = "returned" /\ result' = "UNKNOWN" /\ Now("job") = Gone
      BY <1>8, <2>1, <2>4 DEF ReadJob, Exists
    <3> QED BY <2>1, <3>1 DEF NewsInv, TrueOf, Ended, BadSeen, Now
  <2> QED BY <2>2, <2>3, <2>4
<1>9. CASE ReadPhases
  <2> DEFINE p == IF Exists("phases") THEN Now("phases") ELSE Gone
  <2>1. UNCHANGED <<hist, latest>> /\ pc = "readPhases" /\ pc' = "returned"
        /\ result' = StatusOf("Completed", p)
    BY <1>9 DEF ReadPhases, consumerUnchanged
  <2>2. p \in BadPhases => BadSeen
    <3> SUFFICES ASSUME p \in BadPhases PROVE BadSeen
      OBVIOUS
    <3>1. p # Gone
      BY WatcherAssumption DEF WatcherAssumption, BadPhases, PhasesStates
    <3>2. hist["phases"] # <<>> /\ Now("phases") \in BadPhases /\ hist["phases"] \in Seq(Contents)
      BY <3>1 DEF Exists, Shape, Kinds
    <3> QED BY <3>2 DEF BadSeen, Now
  <2> HIDE DEF p
  <2>3. /\ result' \in {"FAILED", "CANCELED"} => p \in BadPhases
        /\ result' \in {"FAILED", "CANCELED", "SUCCEEDED"}
    BY <2>1, WatcherAssumption DEF StatusOf, BadPhases, WatcherAssumption, JobStates
  <2>4. Ended("Completed")
    BY <2>1 DEF NewsInv
  <2>5. TrueOf(result')
    BY <2>2, <2>3, <2>4 DEF TrueOf
  <2> QED BY <2>1, <2>3, <2>5 DEF NewsInv, TrueOf, Ended, BadSeen, Now
<1> QED BY <1>1, <1>2, <1>3, <1>4, <1>5, <1>6, <1>7, <1>8, <1>9, Zenon
        DEF Next, WatchFault, Consumer

\* What the histories make of a workflow with such an end.
LEMMA OutcomeOfBad ==
  ASSUME Shape, PhasesStory
  PROVE  /\ Ended("Completed") /\ BadSeen => Outcome \in {"FAILED", "CANCELED"}
         /\ Ended("Failed") => Outcome = "ERROR"
<1> DEFINE h == hist["phases"]
<1>0. h \in Seq(Contents) /\ \A b \in BadPhases : b # Gone
  BY WatcherAssumption DEF Shape, Kinds, WatcherAssumption, BadPhases, PhasesStates
<1>1. ASSUME Ended("Completed"), BadSeen PROVE Outcome \in {"FAILED", "CANCELED"}
  <2>1. PICK i \in 1..Len(h) : h[i] \in BadPhases
    BY <1>1 DEF BadSeen
  <2>2. h # <<>> /\ Len(h) \in Nat
    BY <1>0, <2>1
  <2> DEFINE last == IF Exists("phases") THEN Now("phases") ELSE h[Len(h) - 1]
  <2>3. last \in BadPhases
    <3>1. CASE Exists("phases")
      BY <2>1, <2>2, <3>1 DEF PhasesStory, Exists, Now
    <3>2. CASE ~Exists("phases")
      <4>1. h[Len(h)] = Gone /\ Len(h) > 1
        BY <2>2, <3>2 DEF PhasesStory, Exists, Now
      <4>2. i # Len(h)
        BY <1>0, <2>1, <4>1
      <4>3. i <= Len(h) - 1 /\ Len(h) - 1 \in 1..Len(h)
        BY <2>1, <2>2, <4>1, <4>2
      <4>4. h[Len(h) - 1] \in BadPhases \union {Gone} /\ h[Len(h) - 1] # Gone
        BY <2>1, <2>2, <4>3 DEF PhasesStory
      <4> QED BY <3>2, <4>4
    <3> QED BY <3>1, <3>2
  <2>4. Outcome = StatusOf("Completed", last)
    BY <1>1, <2>2 DEF Outcome, Ended
  <2> HIDE DEF last
  <2> QED BY <1>0, <2>3, <2>4, WatcherAssumption
          DEF StatusOf, BadPhases, WatcherAssumption, JobStates
<1>2. ASSUME Ended("Failed") PROVE Outcome = "ERROR"
  BY <1>2, WatcherAssumption DEF Outcome, Ended, StatusOf, WatcherAssumption, JobStates
<1> QED BY <1>1, <1>2

LEMMA StoryInit == Init => JobStory /\ PhasesStory /\ NewsInv
<1> SUFFICES ASSUME Init PROVE JobStory /\ PhasesStory /\ NewsInv
  OBVIOUS
<1>1. hist["job"] = <<"PENDING">> /\ hist["phases"] = <<>>
  BY DEF Init, Kinds
<1>2. latest = "None" /\ result = "None" /\ pc # "readPhases"
  BY DEF Init
<1> QED BY <1>1, <1>2 DEF JobStory, PhasesStory, NewsInv, TrueOf

\* wait() and get_status() call a workflow failed or canceled only if a step
\* was, ERROR only if the controller's JobSet failed, and UNKNOWN only if it is
\* gone, whatever the streams lose, repeat or list again.
THEOREM BadNewsHolds == FairSpec => []BadNewsIsTrue
<1>1. Shape /\ PhasesStory /\ NewsInv => BadNewsIsTrue
  BY OutcomeOfBad DEF NewsInv, TrueOf, BadNewsIsTrue
<1>2. Shape /\ CacheInv /\ [Next]_vars => (Shape /\ CacheInv)'
  BY CacheStep
<1>3. Shape /\ JobStory /\ PhasesStory /\ [Next]_vars => (JobStory /\ PhasesStory)'
  BY StoryStep
<1>4. Shape /\ CacheInv /\ Shape' /\ CacheInv' /\ JobStory /\ PhasesStory /\ NewsInv
        /\ [Next]_vars => NewsInv'
  BY NewsStep
<1> QED BY <1>1, <1>2, <1>3, <1>4, CacheInit, StoryInit, PTL DEF FairSpec, Spec

-----------------------------------------------------------------------------
(* PollIsTrue.                                                             *)

\* Whoever watches has its threads; a poll has none, and the cluster does not
\* matter any more once it has returned.
PollInv ==
  /\ pc \in {"raise?", "read", "look", "wait"} => ~Polled
  /\ PollIsTrue

LEMMA ReadIsTrue ==
  ASSUME Shape, Ended("Completed"), ReadPhases, result' = "SUCCEEDED"
  PROVE  Outcome' = "SUCCEEDED" \/ (hist'["phases"] # <<>> /\ Now("phases")' = Gone)
<1> DEFINE p == IF Exists("phases") THEN Now("phases") ELSE Gone
           last == IF hist["phases"] = <<>> THEN Gone
                   ELSE IF Exists("phases") THEN Now("phases")
                   ELSE hist["phases"][Len(hist["phases"]) - 1]
<1>1. hist' = hist /\ StatusOf("Completed", p) = "SUCCEEDED"
  BY DEF ReadPhases, consumerUnchanged
<1>2. Outcome = StatusOf("Completed", last)
  BY DEF Outcome, Ended
<1>3. Outcome' = Outcome /\ Now("phases")' = Now("phases")
  BY <1>1 DEF Outcome, StatusOf, Exists, Now
<1>4. last = p \/ (hist["phases"] # <<>> /\ Now("phases") = Gone)
  BY DEF Exists
<1> HIDE DEF p, last
<1> QED BY <1>1, <1>2, <1>3, <1>4

LEMMA PollStep ==
  ASSUME Shape, CacheInv, JobStory, NewsInv, PollInv, [Next]_vars
  PROVE  PollInv'
<1>a. ASSUME UNCHANGED <<hist, result, pc>>, Polled' => Polled PROVE PollInv'
  BY <1>a DEF PollInv, PollIsTrue, Outcome, Exists, Now
<1>b. ASSUME pc' \notin {"raise?", "read", "look", "wait", "returned"} PROVE PollInv'
  BY <1>b DEF PollInv, PollIsTrue
<1>c. ASSUME ~Polled' PROVE PollInv'
  BY <1>c DEF PollInv, PollIsTrue
<1>1. CASE UNCHANGED vars
  <2>1. UNCHANGED <<hist, thread, pc, result>>
    BY <1>1 DEF vars, clusterVars, watchVars, consumerVars
  <2> QED BY <1>a, <2>1 DEF Polled
<1>2. CASE ClusterStep
  <2>1. pc \notin {"returned", "raised"} /\ UNCHANGED <<thread, pc>>
    BY <1>2, Zenon DEF consumerVars, watchVars, ClusterStep, JobStarts, JobEnds, PhasesSaved,
                       Deleted, OnlyCluster
  <2> QED BY <2>1 DEF PollInv, PollIsTrue, Polled
<1>3. ASSUME NEW k \in Kinds, ThreadStep(k) \/ StreamFails(k) \/ Expired(k) PROVE PollInv'
  <2>1. CASE Expired(k)
    <3>1. UNCHANGED <<hist, result, pc, thread>>
      BY <2>1, Zenon DEF Expired, threadUnchanged, consumerVars
    <3> QED BY <1>a, <3>1 DEF Polled
  <2>2. CASE ThreadStep(k) \/ StreamFails(k)
    <3>1. PICK t \in {"stream", "notify", "idle", "escalate", "ended"} :
            thread' = [thread EXCEPT ![k] = t]
      BY <2>2, Zenon DEF ThreadStep, Open, Apply, Notify, StreamEnds, Escalate, ThreadEnds,
                         StreamFails, StreamTo, ThreadTo
    <3> QED BY <1>c, <3>1 DEF Shape, Polled
  <2> QED BY <1>3, <2>1, <2>2
<1>4. ASSUME NEW k \in Kinds, SeedFails(k) PROVE PollInv'
  <2>1. pc \in {"seedJob", "seedPhases"} /\ pc' \in {"raised", pc}
    BY <1>4 DEF SeedFails, Seeding
  <2> QED BY <1>b, <2>1
<1>5. ASSUME NEW k \in Kinds, Seed(k) PROVE PollInv'
  <2>1. pc' = "seedPhases" \/ thread' = [j \in Kinds |-> "idle"]
    BY <1>5, Zenon DEF Seed
  <2> QED BY <1>b, <1>c, <2>1 DEF Polled, Kinds
<1>6. CASE Look
  <2>1. pc = "look" /\ (pc' = "readJob" \/ ~Polled')
    <3>1. \/ pc' = "readJob"
          \/ thread' = [k \in Kinds |-> "ended"]
          \/ thread' = thread
      BY <1>6 DEF Look, ExitWith
    <3>2. pc = "look" /\ ~Polled
      BY <1>6 DEF Look, PollInv
    <3> QED BY <3>1, <3>2 DEF Polled, Kinds
  <2> QED BY <1>b, <1>c, <2>1
<1>7. CASE Woken \/ RaiseIfFatal \/ Read
  <2>1. thread' = [k \in Kinds |-> "ended"] \/ thread' = thread
    BY <1>7, Zenon DEF Woken, RaiseIfFatal, Read, ExitWith
  <2>2. pc \in {"wait", "raise?", "read"}
    BY <1>7 DEF Woken, RaiseIfFatal, Read
  <2>3. ~Polled'
    BY <2>1, <2>2 DEF PollInv, Polled, Kinds
  <2> QED BY <1>c, <2>3
<1>8. CASE ReadJob
  <2>1. CASE Exists("job") /\ Now("job") = "Completed"
    BY <1>8, <1>b, <2>1 DEF ReadJob
  <2>2. CASE ~(Exists("job") /\ Now("job") = "Completed")
    <3>1. pc' = "returned"
          /\ result' = IF Exists("job") THEN StatusOf(Now("job"), Gone) ELSE "UNKNOWN"
      BY <1>8, <2>2 DEF ReadJob
    <3>2. Exists("job") => Now("job") \in {"PENDING", "RUNNING", "Failed"}
      BY <2>2 DEF Exists, Now, JobStory
    <3>3. result' # "SUCCEEDED"
      BY <3>1, <3>2 DEF StatusOf
    <3> QED BY <3>1, <3>3 DEF PollInv, PollIsTrue
  <2> QED BY <2>1, <2>2
<1>9. CASE ReadPhases
  <2>1. pc = "readPhases" /\ pc' = "returned"
    BY <1>9 DEF ReadPhases
  <2>2. Ended("Completed")
    BY <2>1 DEF NewsInv
  <2> QED BY <1>9, <2>1, <2>2, ReadIsTrue DEF PollInv, PollIsTrue
<1> QED BY <1>1, <1>2, <1>3, <1>4, <1>5, <1>6, <1>7, <1>8, <1>9, Zenon
        DEF Next, WatchFault, Consumer

\* A single get_status() calls a workflow succeeded only if it is, unless its
\* ConfigMap is deleted between the two reads: it reads the JobSet first, and
\* the phases of a completed one do not change (get_workflow_job_status).
THEOREM PollHolds == FairSpec => []PollIsTrue
<1>1. Init => PollInv
  BY DEF Init, PollInv, PollIsTrue
<1>2. PollInv => PollIsTrue
  BY DEF PollInv
<1>3. Shape /\ CacheInv /\ [Next]_vars => (Shape /\ CacheInv)'
  BY CacheStep
<1>4. Shape /\ JobStory /\ PhasesStory /\ [Next]_vars => (JobStory /\ PhasesStory)'
  BY StoryStep
<1>5. Shape /\ CacheInv /\ Shape' /\ CacheInv' /\ JobStory /\ PhasesStory /\ NewsInv
        /\ [Next]_vars => NewsInv'
  BY NewsStep
<1>6. Shape /\ CacheInv /\ JobStory /\ NewsInv /\ PollInv /\ [Next]_vars => PollInv'
  BY PollStep
<1> QED BY <1>1, <1>2, <1>3, <1>4, <1>5, <1>6, CacheInit, StoryInit, PTL DEF FairSpec, Spec

-----------------------------------------------------------------------------
(* The types of the watcher.                                               *)

\* A cache holds no version of an object that is one of its deletion.
HoldsOf(c, h) ==
  \A k \in Kinds : c[k] \in {0} \union {v \in 1..Len(h[k]) : h[k][v] # Gone}

VersionsOK == (\A k \in Kinds : hist[k] \in Seq(Values[k])) /\ HoldsOf(cache, hist)

\* A count at its limit has been fatal.
CountsOK ==
  /\ attempts \in [Kinds -> 0..MaxAttempts]
  /\ fatal \/ \A k \in Kinds : attempts[k] # MaxAttempts
  /\ failures \in 0..MaxFailures /\ expiries \in 0..MaxExpiries

FlagsOK == {fatal, stop, changed, dirty} \subseteq BOOLEAN

WordsOK == latest \in Statuses /\ result \in Statuses /\ pc \in ConsumerStates

LEMMA StatusIsOne == \A j, p : StatusOf(j, p) \in Statuses
BY DEF StatusOf, Statuses

LEMMA VersionsStep == ASSUME Shape, VersionsOK, [Next]_vars PROVE VersionsOK'
<1>0. \A k \in Kinds : Len(hist[k]) \in Nat
  BY DEF Shape
<1>1. CASE UNCHANGED <<hist, cache>>
  BY <1>1 DEF VersionsOK, HoldsOf
<1>2. ASSUME NEW k \in Kinds, NEW v \in Values[k], Store(k, v), UNCHANGED cache
      PROVE  VersionsOK'
  <2>1. /\ Len(hist'[k]) = Len(hist[k]) + 1
        /\ \A i \in 1..Len(hist[k]) : hist'[k][i] = hist[k][i]
        /\ \A j \in Kinds \ {k} : hist'[j] = hist[j]
    BY <1>2, StoreEffect
  <2>2. \A j \in Kinds : hist'[j] \in Seq(Values[j])
    <3>1. hist'[k] = Append(hist[k], v) /\ hist[k] \in Seq(Values[k])
      BY <1>2 DEF Store, Shape, VersionsOK
    <3> QED BY <2>1, <3>1 DEF VersionsOK
  <2>3. HoldsOf(cache', hist')
    <3> SUFFICES ASSUME NEW j \in Kinds
                 PROVE  cache[j] \in {0} \union {i \in 1..Len(hist'[j]) : hist'[j][i] # Gone}
      BY <1>2 DEF HoldsOf
    <3>1. cache[j] \in {0} \union {i \in 1..Len(hist[j]) : hist[j][i] # Gone}
      BY DEF VersionsOK, HoldsOf
    <3>2. CASE j = k
      BY <1>0, <2>1, <3>1, <3>2
    <3>3. CASE j # k
      BY <2>1, <3>1, <3>3
    <3> QED BY <3>2, <3>3
  <2> QED BY <2>2, <2>3 DEF VersionsOK
<1>3. ASSUME NEW k \in Kinds, NEW v, UNCHANGED hist, cache' = [cache EXCEPT ![k] = v],
             v \in {0} \union {i \in 1..Len(hist[k]) : hist[k][i] # Gone}
      PROVE  VersionsOK'
  BY <1>3 DEF VersionsOK, HoldsOf, Shape
<1>4. CASE ClusterStep
  <2>1. UNCHANGED cache
    BY <1>4, Zenon DEF ClusterStep, JobStarts, JobEnds, PhasesSaved, Deleted, OnlyCluster, watchVars
  <2> USE DEF Kinds, Values, JobStates
  <2>2. CASE JobStarts
    BY <1>2, <2>1, <2>2 DEF JobStarts
  <2>3. CASE JobEnds
    BY <1>2, <2>1, <2>3 DEF JobEnds
  <2>4. ASSUME NEW v \in PhasesStates, PhasesSaved(v) PROVE VersionsOK'
    BY <1>2, <2>1, <2>4 DEF PhasesSaved
  <2>5. ASSUME NEW k \in Kinds, Deleted(k) PROVE VersionsOK'
    BY <1>2, <2>1, <2>5 DEF Deleted
  <2> QED BY <1>4, <2>2, <2>3, <2>4, <2>5 DEF ClusterStep
<1>5. ASSUME NEW k \in Kinds, ThreadStep(k) \/ StreamFails(k) \/ Expired(k) PROVE VersionsOK'
  <2>1. CASE Apply(k)
    <3> DEFINE v == pos[k] + 1
               held == IF hist[k][v] = Gone THEN 0 ELSE v
    <3>1. UNCHANGED hist /\ cache' = [cache EXCEPT ![k] = held] /\ pos[k] < Len(hist[k])
      BY <2>1 DEF Apply, threadUnchanged
    <3>2. held \in {0} \union {i \in 1..Len(hist[k]) : hist[k][i] # Gone}
      BY <1>0, <3>1 DEF Shape
    <3> HIDE DEF held
    <3> QED BY <1>3, <3>1, <3>2
  <2>2. CASE ~Apply(k)
    BY <1>1, <1>5, <2>2, Zenon DEF ThreadStep, Open, Notify, StreamEnds, Escalate, ThreadEnds,
       StreamFails, Expired, threadUnchanged
  <2> QED BY <2>1, <2>2
<1>6. ASSUME NEW k \in Kinds, Seed(k) PROVE VersionsOK'
  <2> DEFINE seen == IF Exists(k) THEN Len(hist[k]) ELSE 0
  <2>1. UNCHANGED hist /\ cache' = [cache EXCEPT ![k] = seen]
    BY <1>6 DEF Seed
  <2>2. seen \in {0} \union {i \in 1..Len(hist[k]) : hist[k][i] # Gone}
    <3>1. CASE Exists(k)
      <4>1. hist[k] \in Seq(Contents) /\ hist[k] # <<>> /\ hist[k][Len(hist[k])] # Gone
        BY <3>1 DEF Exists, Now, Shape
      <4> QED BY <3>1, <4>1
    <3> QED BY <3>1
  <2> HIDE DEF seen
  <2> QED BY <1>3, <2>1, <2>2
<1>7. CASE UNCHANGED vars \/ (\E k \in Kinds : SeedFails(k))
           \/ Look \/ Woken \/ RaiseIfFatal \/ Read \/ ReadJob \/ ReadPhases
  BY <1>1, <1>7, Zenon DEF vars, clusterVars, watchVars, SeedFails, Look, Woken, RaiseIfFatal,
     Read, ReadJob, ReadPhases, consumerUnchanged
<1> QED BY <1>4, <1>5, <1>6, <1>7, Zenon DEF Next, Consumer, WatchFault

\* _record_failure counts up to the limit once, and then no more.
LEMMA FailureCounts ==
  ASSUME CountsOK, FlagsOK, NEW k \in Kinds, RecordFailure(k), expiries' = expiries
  PROVE  CountsOK' /\ fatal' \in BOOLEAN /\ stop' \in BOOLEAN
<1>0. MaxAttempts \in Nat \ {0} /\ MaxFailures \in Nat
  BY WatcherAssumption DEF WatcherAssumption
<1>1. failures' \in 0..MaxFailures /\ expiries' \in 0..MaxExpiries
  BY <1>0 DEF RecordFailure, CountsOK
<1>2. CASE fatal
  <2>1. UNCHANGED <<attempts, fatal, stop>>
    BY <1>2, Zenon DEF RecordFailure
  <2> QED BY <1>1, <1>2, <2>1, Zenon DEF CountsOK, FlagsOK
<1>3. CASE ~fatal
  <2> DEFINE last == attempts[k] + 1 >= MaxAttempts
  <2>1. /\ attempts' = [attempts EXCEPT ![k] = @ + 1]
        /\ fatal' = last /\ stop' = (stop \/ last)
    BY <1>3, Zenon DEF RecordFailure
  <2>2. attempts \in [Kinds -> 0..MaxAttempts] /\ \A j \in Kinds : attempts[j] # MaxAttempts
    BY <1>3, Zenon DEF CountsOK
  <2>3. attempts' \in [Kinds -> 0..MaxAttempts]
    BY <1>0, <2>1, <2>2
  <2>4. ~last => \A j \in Kinds : attempts'[j] # MaxAttempts
    BY <1>0, <2>1, <2>2
  <2>5. last \in BOOLEAN
    OBVIOUS
  <2> HIDE DEF last
  <2>6. fatal' \/ \A j \in Kinds : attempts'[j] # MaxAttempts
    BY <2>1, <2>4, Zenon
  <2>7. fatal' \in BOOLEAN /\ stop' \in BOOLEAN
    BY <2>1, <2>5
  <2> QED BY <1>1, <2>3, <2>6, <2>7, Zenon DEF CountsOK
<1> QED BY <1>2, <1>3

LEMMA SuccessCounts ==
  ASSUME CountsOK, NEW k \in Kinds, RecordSuccess(k), UNCHANGED <<fatal, failures, expiries>>
  PROVE  CountsOK'
<1>0. MaxAttempts \in Nat \ {0}
  BY WatcherAssumption DEF WatcherAssumption
<1>1. attempts' = [attempts EXCEPT ![k] = 0] /\ attempts \in [Kinds -> 0..MaxAttempts]
  BY Zenon DEF RecordSuccess, CountsOK
<1>2. attempts' \in [Kinds -> 0..MaxAttempts]
  BY <1>0, <1>1
<1>3. (\A j \in Kinds : attempts[j] # MaxAttempts) => \A j \in Kinds : attempts'[j] # MaxAttempts
  BY <1>0, <1>1
<1> QED BY <1>2, <1>3, Zenon DEF CountsOK

LEMMA CountsStep ==
  ASSUME CountsOK, FlagsOK, [Next]_vars
  PROVE  CountsOK' /\ FlagsOK'
<1>1. CASE UNCHANGED sharedVars /\ UNCHANGED <<failures, expiries>>
  BY <1>1, Zenon DEF CountsOK, FlagsOK, sharedVars
<1>2. CASE UNCHANGED vars \/ ClusterStep
  BY <1>1, <1>2, Zenon DEF vars, ClusterStep, JobStarts, JobEnds, PhasesSaved, Deleted, OnlyCluster
<1>3. ASSUME NEW k \in Kinds, Open(k) \/ ThreadEnds(k) PROVE CountsOK' /\ FlagsOK'
  BY <1>1, <1>3, Zenon DEF Open, ThreadEnds
<1>4. ASSUME NEW k \in Kinds, Apply(k) \/ Notify(k) \/ Escalate(k) PROVE CountsOK' /\ FlagsOK'
  <2>1. /\ UNCHANGED <<attempts, fatal, stop, failures, expiries>>
        /\ changed' \in {changed, TRUE} /\ dirty' \in {dirty, TRUE}
    BY <1>4, Zenon DEF Apply, Notify, Escalate
  <2>2. changed' \in BOOLEAN /\ dirty' \in BOOLEAN
    BY <2>1, Zenon DEF FlagsOK
  <2> QED BY <2>1, <2>2, Zenon DEF CountsOK, FlagsOK
<1>5. ASSUME NEW k \in Kinds, StreamEnds(k) \/ Seed(k) PROVE CountsOK' /\ FlagsOK'
  <2>1. RecordSuccess(k) /\ UNCHANGED <<fatal, stop, changed, dirty, failures, expiries>>
    BY <1>5, Zenon DEF StreamEnds, Seed
  <2> QED BY <2>1, SuccessCounts, Zenon DEF FlagsOK
<1>6. ASSUME NEW k \in Kinds, StreamFails(k) PROVE CountsOK' /\ FlagsOK'
  <2>1. RecordFailure(k) /\ UNCHANGED <<changed, dirty, expiries>>
    BY <1>6, Zenon DEF StreamFails
  <2>2. CountsOK' /\ fatal' \in BOOLEAN /\ stop' \in BOOLEAN
    BY <2>1, FailureCounts
  <2> QED BY <2>1, <2>2, Zenon DEF FlagsOK
<1>7. ASSUME NEW k \in Kinds, SeedFails(k) PROVE CountsOK' /\ FlagsOK'
  <2>1. RecordFailure(k) /\ UNCHANGED <<dirty, expiries>> /\ changed' = (changed \/ fatal')
    BY <1>7, Zenon DEF SeedFails
  <2>2. CountsOK' /\ fatal' \in BOOLEAN /\ stop' \in BOOLEAN
    BY <2>1, FailureCounts
  <2>3. changed' \in BOOLEAN
    BY <2>1
  <2> QED BY <2>1, <2>2, <2>3, Zenon DEF FlagsOK
<1>8. ASSUME NEW k \in Kinds, Expired(k) PROVE CountsOK' /\ FlagsOK'
  <2>1. /\ UNCHANGED <<attempts, fatal, stop, changed, dirty, failures>>
        /\ expiries < MaxExpiries /\ expiries' = expiries + 1
    BY <1>8, Zenon DEF Expired, sharedVars
  <2>2. expiries' \in 0..MaxExpiries
    BY <2>1, WatcherAssumption DEF CountsOK, WatcherAssumption
  <2> QED BY <2>1, <2>2, Zenon DEF CountsOK, FlagsOK
<1>9. CASE Look \/ Woken \/ RaiseIfFatal \/ Read \/ ReadJob \/ ReadPhases
  <2>1. /\ UNCHANGED <<attempts, fatal, failures, expiries>>
        /\ stop' \in {stop, TRUE} /\ changed' \in {changed, FALSE} /\ dirty' \in {dirty, FALSE}
    BY <1>9, Zenon DEF Look, Woken, RaiseIfFatal, Read, ReadJob, ReadPhases, ExitWith,
       consumerUnchanged
  <2>2. stop' \in BOOLEAN /\ changed' \in BOOLEAN /\ dirty' \in BOOLEAN
    BY <2>1, Zenon DEF FlagsOK
  <2> QED BY <2>1, <2>2, Zenon DEF CountsOK, FlagsOK
<1> QED BY <1>2, <1>3, <1>4, <1>5, <1>6, <1>7, <1>8, <1>9, Zenon
        DEF Next, ThreadStep, Consumer, WatchFault

LEMMA WordsStep == ASSUME WordsOK, [Next]_vars PROVE WordsOK'
<1>1. /\ latest' = latest \/ latest' \in Statuses
      /\ result' = result \/ result' = latest \/ result' \in Statuses
      /\ pc' = pc \/ pc' \in ConsumerStates
  <2>0. "UNKNOWN" \in Statuses
    BY DEF Statuses
  <2>1. CASE UNCHANGED vars \/ ClusterStep \/ \E k \in Kinds : ThreadStep(k) \/ StreamFails(k) \/ Expired(k)
    <3>1. UNCHANGED consumerVars
      BY <2>1, Zenon DEF vars, ClusterStep, JobStarts, JobEnds, PhasesSaved, Deleted, OnlyCluster,
         ThreadStep, Open, Apply, Notify, StreamEnds, Escalate, ThreadEnds, StreamFails, Expired,
         threadUnchanged
    <3> QED BY <3>1, Zenon DEF consumerVars
  <2>2. ASSUME NEW k \in Kinds, Seed(k) \/ SeedFails(k)
        PROVE  /\ latest' = latest \/ latest' \in Statuses
               /\ result' = result /\ (pc' = pc \/ pc' \in {"seedPhases", "raise?", "raised"})
    <3>1. CASE Seed(k)
      <4>1. pc' \in {"seedPhases", "raise?"} /\ result' = result
        BY <3>1, Zenon DEF Seed
      <4>2. latest' = latest \/ latest' = Projection(cache')
        BY <3>1, Zenon DEF Seed
      <4>3. Projection(cache') \in Statuses
        BY StatusIsOne DEF Projection
      <4> QED BY <4>1, <4>2, <4>3
    <3>2. CASE SeedFails(k)
      <4>1. UNCHANGED <<latest, result>> /\ (pc' = "raised" \/ pc' = pc)
        BY <3>2, Zenon DEF SeedFails
      <4> QED BY <4>1
    <3> QED BY <2>2, <3>1, <3>2
  <2>3. CASE Look \/ Woken \/ RaiseIfFatal
    <3>1. latest' = latest /\ result' \in {result, latest}
      BY <2>3, Zenon DEF Look, Woken, RaiseIfFatal
    <3>2. pc' \in {"readJob", "returned", "wait", "raise?", "raised", "read"}
      BY <2>3, Zenon DEF Look, Woken, RaiseIfFatal
    <3> QED BY <3>1, <3>2 DEF ConsumerStates
  <2>4. CASE Read
    BY <2>4, StatusIsOne DEF Read, Projection, ConsumerStates
  <2>5. CASE ReadJob \/ ReadPhases
    <3>1. latest' = latest /\ (result' = result \/ result' \in Statuses)
      BY <2>0, <2>5, StatusIsOne, Zenon DEF ReadJob, ReadPhases
    <3>2. pc' \in {"readPhases", "returned"}
      BY <2>5, Zenon DEF ReadJob, ReadPhases
    <3> QED BY <3>1, <3>2 DEF ConsumerStates
  <2>6. ASSUME NEW k \in Kinds, Seed(k) \/ SeedFails(k)
        PROVE  /\ latest' = latest \/ latest' \in Statuses
               /\ result' = result /\ (pc' = pc \/ pc' \in ConsumerStates)
    BY <2>2, <2>6 DEF ConsumerStates
  <2> QED BY <2>1, <2>3, <2>4, <2>5, <2>6, Zenon DEF Next, Consumer, WatchFault
<1> QED BY <1>1, Zenon DEF WordsOK

LEMMA WatcherParts ==
  Shape /\ VersionsOK /\ CountsOK /\ FlagsOK /\ WordsOK => TypeOK
<1> SUFFICES ASSUME Shape, VersionsOK, CountsOK, FlagsOK, WordsOK PROVE TypeOK
  OBVIOUS
<1>1. DOMAIN hist = Kinds /\ DOMAIN cache = Kinds
      /\ rv \in [Kinds -> Nat] /\ pos \in [Kinds -> Nat] /\ thread \in [Kinds -> ThreadStates]
  BY DEF Shape
<1> QED BY <1>1, Zenon DEF VersionsOK, HoldsOf, CountsOK, FlagsOK, WordsOK, TypeOK

LEMMA WatcherInit == Init => VersionsOK /\ CountsOK /\ FlagsOK /\ WordsOK
<1> SUFFICES ASSUME Init PROVE VersionsOK /\ CountsOK /\ FlagsOK /\ WordsOK
  OBVIOUS
<1>1. VersionsOK
  BY DEF Init, VersionsOK, HoldsOf, Kinds, Values, JobStates
<1>2. CountsOK
  BY WatcherAssumption DEF Init, CountsOK, WatcherAssumption
<1>3. FlagsOK /\ WordsOK
  BY DEF Init, FlagsOK, WordsOK, Statuses, ConsumerStates
<1> QED BY <1>1, <1>2, <1>3

\* Every reachable state is well typed; in it, no cache holds an object that is
\* deleted, and no count of failures passes _WATCH_MAX_ATTEMPTS: it is given up
\* at the first that gets there (_record_failure, _apply_event).
THEOREM WatcherTypes == Spec => []TypeOK
<1>1. Shape /\ CacheInv /\ [Next]_vars => (Shape /\ CacheInv)'
  BY CacheStep
<1>2. Shape /\ VersionsOK /\ [Next]_vars => VersionsOK'
  BY VersionsStep
<1>3. CountsOK /\ FlagsOK /\ [Next]_vars => (CountsOK /\ FlagsOK)'
  BY CountsStep
<1>4. WordsOK /\ [Next]_vars => WordsOK'
  BY WordsStep
<1> QED BY <1>1, <1>2, <1>3, <1>4, CacheInit, WatcherInit, WatcherParts, PTL DEF Spec

-----------------------------------------------------------------------------
(* The archive's copy (StatusShipper).                                     *)

\* _ship_lock: who is in an upload holds it.  The thread ends with its process.
Locked ==
  /\ main \in {"down", "exited"} => shipper = "none"
  /\ main = "upload" <=> lock = "main"
  /\ shipper = "upload" <=> lock = "shipper"

\* From the last write on, the document on disk is the last one; from the
\* upload at the exit on, every upload that may still end has read it.
LastIsOnItsWay ==
  ~unsure =>
    /\ main \in {"ship", "upload", "done"} => file = ver
    /\ main = "upload" => read["main"] = ver
    /\ main = "done" /\ lock = "shipper" => read["shipper"] = ver
    /\ main \in {"done", "exited"} => remote = ver

\* What is on disk or in an upload was written by this process, which has
\* put nothing newer.
InOrder ==
  /\ main = "down" => file = Absent
  /\ restored <= ver /\ shipped <= ver
  /\ file \in Versions => restored <= file /\ shipped <= file /\ file <= ver
  /\ \A t \in Threads : lock = t /\ read[t] \in Versions =>
       /\ restored <= read[t] /\ shipped <= read[t] /\ read[t] <= ver
       /\ file \in Versions => read[t] <= file

\* As long as nothing is lost, the ConfigMap holds what is in memory, and what
\* the archive has been given is what this process loaded, or has put itself.
Remembered ==
  ~lost => saved = ver /\ (newest <= restored \/ newest <= shipped)

\* ShipperTypeOK apart from the flags, which the provers treat differently.
Fields ==
  /\ ver \in Versions /\ saved \in Versions /\ restored \in Versions
  /\ file \in Documents /\ remote \in Documents /\ read \in [Threads -> Documents]
  /\ shipped \in 0..MaxVersions /\ newest \in 0..MaxVersions
  /\ lock \in Threads \union {Nobody}
  /\ main \in MainStates /\ shipper \in ShipperStates
  /\ passes \in 0..MaxPasses /\ faults \in 0..MaxFaults /\ crashes \in 0..MaxCrashes

Flags == event \in BOOLEAN /\ unsure \in BOOLEAN /\ lost \in BOOLEAN

ShipperInv == Fields /\ Locked /\ LastIsOnItsWay /\ InOrder /\ Remembered

-----------------------------------------------------------------------------
(* A step of any kind keeps the types. *)

LEMMA FieldsInit == ShipperInit => Fields
  BY ShipperAssumption DEF ShipperAssumption, ShipperInit, Fields, Versions, Documents,
     Threads, Absent, Torn, Nobody, MainStates, ShipperStates

LEMMA FieldsStep == Fields /\ [ShipperNext]_shipperVars => Fields'
<1> SUFFICES ASSUME Fields, [ShipperNext]_shipperVars PROVE Fields'
  OBVIOUS
<1> USE ShipperAssumption DEF ShipperAssumption, Fields, Versions, Documents, Threads, Absent, Torn, Nobody,
        MainStates, ShipperStates
<1>1. CASE Advance
  BY <1>1 DEF Advance, Fault, upload, phases
<1>2. CASE Persist
  BY <1>2 DEF Persist, _persist_status_file, Fault, phases, upload
<1>3. CASE flush_status
  BY <1>3 DEF flush_status, _persist_status_file, Fault, phases, upload
<1>4. CASE Signal \/ Finish \/ Exit \/ Wake
  BY <1>4 DEF Signal, Finish, Exit, Wake, phases, upload
<1>5. CASE ShipAtExit
  <2>1. CASE StartUpload("main") /\ main' = "upload" /\ UNCHANGED shipper
    BY <2>1 DEF StartUpload, TakeLock, Newer, phases
  <2>2. CASE EndUpload("main") /\ main' = "done" /\ UNCHANGED shipper
    BY <2>2 DEF EndUpload, Fault, Newer, phases
  <2> QED BY <1>5, <2>1, <2>2 DEF ShipAtExit
<1>6. CASE _shipper_loop
  <2>1. CASE shipper = "clear"
    BY <1>6, <2>1 DEF _shipper_loop, phases, upload
  <2>2. CASE StartUpload("shipper") /\ shipper' = "upload" /\ UNCHANGED main
    BY <2>2 DEF StartUpload, TakeLock, Newer, phases
  <2>3. CASE EndUpload("shipper") /\ shipper' = "wait" /\ UNCHANGED main
    BY <2>3 DEF EndUpload, Fault, Newer, phases
  <2> QED BY <1>6, <2>1, <2>2, <2>3 DEF _shipper_loop
<1>7. CASE Crash \/ Restart
  BY <1>7 DEF Crash, Restart, phases, Fault
<1>8. CASE UNCHANGED shipperVars
  BY <1>8 DEF shipperVars, phases, upload
<1> QED
  BY <1>1, <1>2, <1>3, <1>4, <1>5, <1>6, <1>7, <1>8
  DEF ShipperNext, MainThread, ShipperThread, Stopped

LEMMA FlagsStep == Flags /\ [ShipperNext]_shipperVars => Flags'
  BY Zenon DEF Flags, ShipperNext, Advance, MainThread, Persist, flush_status, _persist_status_file, Signal,
     Finish, Exit, ShipAtExit, StartUpload, EndUpload, ShipperThread, Wake, _shipper_loop,
     Crash, Restart, Stopped, shipperVars, upload, phases, Fault

(* The types hold in every reachable state: ShipperTypeOK for every bound. *)
THEOREM ShipperTypeCorrect == ShipperSpec => []ShipperTypeOK
<1>1. ShipperInit => Fields /\ Flags
  BY FieldsInit DEF ShipperInit, Flags
<1>2. Fields /\ Flags <=> ShipperTypeOK
  BY DEF Fields, Flags, ShipperTypeOK
<1> QED BY <1>1, <1>2, FieldsStep, FlagsStep, PTL DEF ShipperSpec

-----------------------------------------------------------------------------
(* _ship_lock keeps the two uploads apart. *)

LEMMA LockedStep == Fields /\ Locked /\ [ShipperNext]_shipperVars => Locked'
<1> SUFFICES ASSUME Fields /\ Locked, [ShipperNext]_shipperVars PROVE Locked'
  OBVIOUS
<1> USE DEF Fields, Locked, Threads, Nobody
<1>1. CASE Advance
  BY <1>1 DEF Advance, Fault, upload, phases
<1>2. CASE Persist
  BY <1>2 DEF Persist, _persist_status_file, Fault, phases, upload
<1>3. CASE flush_status
  BY <1>3 DEF flush_status, _persist_status_file, Fault, phases, upload
<1>4. CASE Signal
  BY <1>4 DEF Signal, phases, upload
<1>5. CASE Finish
  BY <1>5 DEF Finish, phases, upload
<1>6. CASE Exit
  BY <1>6 DEF Exit, phases
<1>7. CASE ShipAtExit
  <2>1. CASE main = "ship"
    BY <1>7, <2>1 DEF ShipAtExit, StartUpload, TakeLock, Newer, phases
  <2>2. CASE main = "upload"
    BY <1>7, <2>2 DEF ShipAtExit, EndUpload, Fault, Newer, phases
  <2> QED BY <1>7, <2>1, <2>2 DEF ShipAtExit
<1>8. CASE Wake
  BY <1>8 DEF Wake, phases, upload
<1>9. CASE _shipper_loop
  <2>1. CASE shipper = "clear"
    BY <1>9, <2>1 DEF _shipper_loop, phases, upload
  <2>2. CASE shipper = "ship"
    BY <1>9, <2>2 DEF _shipper_loop, StartUpload, TakeLock, Newer, phases
  <2>3. CASE shipper = "upload"
    BY <1>9, <2>3 DEF _shipper_loop, EndUpload, Fault, Newer, phases
  <2> QED BY <1>9, <2>1, <2>2, <2>3 DEF _shipper_loop
<1>10. CASE Crash
  BY <1>10 DEF Crash, phases
<1>11. CASE Restart
  BY <1>11 DEF Restart, Fault
<1>12. CASE UNCHANGED shipperVars
  BY <1>12 DEF shipperVars, phases, upload
<1> QED
  BY <1>1, <1>2, <1>3, <1>4, <1>5, <1>6, <1>7, <1>8, <1>9, <1>10, <1>11, <1>12
  DEF ShipperNext, MainThread, ShipperThread, Stopped

-----------------------------------------------------------------------------
(* The last document, from the write to the archive. *)

LEMMA LastStep ==
  Fields /\ Locked /\ LastIsOnItsWay /\ [ShipperNext]_shipperVars => LastIsOnItsWay'
<1> SUFFICES ASSUME Fields /\ Locked /\ LastIsOnItsWay, [ShipperNext]_shipperVars
             PROVE  LastIsOnItsWay'
  OBVIOUS
<1> USE DEF Fields, Locked, LastIsOnItsWay, Threads, Nobody
<1>1. CASE Advance
  BY <1>1 DEF Advance, Fault, upload, phases
<1>2. CASE Persist
  BY <1>2 DEF Persist, _persist_status_file, Fault, phases, upload
<1>3. CASE flush_status
  BY <1>3 DEF flush_status, _persist_status_file, Fault, phases, upload
<1>4. CASE Signal
  BY <1>4 DEF Signal, phases, upload
<1>5. CASE Finish
  BY <1>5 DEF Finish, phases, upload
<1>6. CASE Exit
  BY <1>6 DEF Exit, phases
<1>7. CASE ShipAtExit
  <2>1. CASE main = "ship"
    BY <1>7, <2>1 DEF ShipAtExit, StartUpload, TakeLock, Newer, phases
  <2>2. CASE main = "upload"
    BY <1>7, <2>2 DEF ShipAtExit, EndUpload, Fault, Newer, phases
  <2> QED BY <1>7, <2>1, <2>2 DEF ShipAtExit
<1>8. CASE Wake
  BY <1>8 DEF Wake, phases, upload
<1>9. CASE _shipper_loop
  <2>1. CASE shipper = "clear"
    BY <1>9, <2>1 DEF _shipper_loop, phases, upload
  <2>2. CASE shipper = "ship"
    BY <1>9, <2>2 DEF _shipper_loop, StartUpload, TakeLock, Newer, phases
  <2>3. CASE shipper = "upload"
    BY <1>9, <2>3 DEF _shipper_loop, EndUpload, Fault, Newer, phases
  <2> QED BY <1>9, <2>1, <2>2, <2>3 DEF _shipper_loop
<1>10. CASE Crash
  BY <1>10 DEF Crash, phases
<1>11. CASE Restart
  BY <1>11 DEF Restart, Fault
<1>12. CASE UNCHANGED shipperVars
  BY <1>12 DEF shipperVars, phases, upload
<1> QED
  BY <1>1, <1>2, <1>3, <1>4, <1>5, <1>6, <1>7, <1>8, <1>9, <1>10, <1>11, <1>12
  DEF ShipperNext, MainThread, ShipperThread, Stopped

-----------------------------------------------------------------------------
(* Uploads follow one another in the order of what they have read. *)

LEMMA OrderStep == Fields /\ Locked /\ InOrder /\ [ShipperNext]_shipperVars => InOrder'
<1> SUFFICES ASSUME Fields /\ Locked /\ InOrder, [ShipperNext]_shipperVars PROVE InOrder'
  OBVIOUS
<1> USE DEF Fields, Locked, InOrder, Threads, Nobody, Versions, Documents, Absent, Torn
<1>1. CASE Advance
  BY <1>1 DEF Advance, Fault, upload, phases
<1>2. CASE Persist
  BY <1>2 DEF Persist, _persist_status_file, Fault, phases, upload
<1>3. CASE flush_status
  BY <1>3 DEF flush_status, _persist_status_file, Fault, phases, upload
<1>4. CASE Signal
  BY <1>4 DEF Signal, phases, upload
<1>5. CASE Finish
  BY <1>5 DEF Finish, phases, upload
<1>6. CASE Exit
  BY <1>6 DEF Exit, phases
<1>7. CASE ShipAtExit
  <2>1. CASE main = "ship"
    BY <1>7, <2>1 DEF ShipAtExit, StartUpload, TakeLock, Newer, phases
  <2>2. CASE main = "upload"
    BY <1>7, <2>2 DEF ShipAtExit, EndUpload, Fault, Newer, phases
  <2> QED BY <1>7, <2>1, <2>2 DEF ShipAtExit
<1>8. CASE Wake
  BY <1>8 DEF Wake, phases, upload
<1>9. CASE _shipper_loop
  <2>1. CASE shipper = "clear"
    BY <1>9, <2>1 DEF _shipper_loop, phases, upload
  <2>2. CASE shipper = "ship"
    BY <1>9, <2>2 DEF _shipper_loop, StartUpload, TakeLock, Newer, phases
  <2>3. CASE shipper = "upload"
    BY <1>9, <2>3 DEF _shipper_loop, EndUpload, Fault, Newer, phases
  <2> QED BY <1>9, <2>1, <2>2, <2>3 DEF _shipper_loop
<1>10. CASE Crash
  BY <1>10 DEF Crash, phases
<1>11. CASE Restart
  BY <1>11 DEF Restart, Fault
<1>12. CASE UNCHANGED shipperVars
  BY <1>12 DEF shipperVars, phases, upload
<1> QED
  BY <1>1, <1>2, <1>3, <1>4, <1>5, <1>6, <1>7, <1>8, <1>9, <1>10, <1>11, <1>12
  DEF ShipperNext, MainThread, ShipperThread, Stopped

-----------------------------------------------------------------------------
(* What is saved and what is shipped, over the restarts. *)

LEMMA RememberedStep ==
  Fields /\ Locked /\ InOrder /\ Remembered /\ [ShipperNext]_shipperVars => Remembered'
<1> SUFFICES ASSUME Fields /\ Locked /\ InOrder /\ Remembered, [ShipperNext]_shipperVars
             PROVE  Remembered'
  OBVIOUS
<1> USE DEF Fields, Locked, InOrder, Remembered, Threads, Nobody, Versions, Documents, Absent, Torn
<1>1. CASE Advance
  BY <1>1 DEF Advance, Fault, upload, phases
<1>2. CASE Persist
  BY <1>2 DEF Persist, _persist_status_file, Fault, phases, upload
<1>3. CASE flush_status
  BY <1>3 DEF flush_status, _persist_status_file, Fault, phases, upload
<1>4. CASE Signal
  BY <1>4 DEF Signal, phases, upload
<1>5. CASE Finish
  BY <1>5 DEF Finish, phases, upload
<1>6. CASE Exit
  BY <1>6 DEF Exit, phases
<1>7. CASE ShipAtExit
  <2>1. CASE main = "ship"
    BY <1>7, <2>1 DEF ShipAtExit, StartUpload, TakeLock, Newer, phases
  <2>2. CASE main = "upload"
    BY <1>7, <2>2 DEF ShipAtExit, EndUpload, Fault, Newer, phases
  <2> QED BY <1>7, <2>1, <2>2 DEF ShipAtExit
<1>8. CASE Wake
  BY <1>8 DEF Wake, phases, upload
<1>9. CASE _shipper_loop
  <2>1. CASE shipper = "clear"
    BY <1>9, <2>1 DEF _shipper_loop, phases, upload
  <2>2. CASE shipper = "ship"
    BY <1>9, <2>2 DEF _shipper_loop, StartUpload, TakeLock, Newer, phases
  <2>3. CASE shipper = "upload"
    BY <1>9, <2>3 DEF _shipper_loop, EndUpload, Fault, Newer, phases
  <2> QED BY <1>9, <2>1, <2>2, <2>3 DEF _shipper_loop
<1>10. CASE Crash
  BY <1>10 DEF Crash, phases
<1>11. CASE Restart
  BY <1>11 DEF Restart, Fault
<1>12. CASE UNCHANGED shipperVars
  BY <1>12 DEF shipperVars, phases, upload
<1> QED
  BY <1>1, <1>2, <1>3, <1>4, <1>5, <1>6, <1>7, <1>8, <1>9, <1>10, <1>11, <1>12
  DEF ShipperNext, MainThread, ShipperThread, Stopped

LEMMA ShipperInvariance == ShipperSpec => []ShipperInv
<1>1. ShipperInit => ShipperInv
  BY FieldsInit, ShipperAssumption
  DEF ShipperInit, ShipperInv, Locked, LastIsOnItsWay, InOrder, Remembered, ShipperAssumption,
      Fields, Threads, Nobody, Versions, Absent
<1>2. ShipperInv /\ [ShipperNext]_shipperVars => ShipperInv'
  BY FieldsStep, LockedStep, LastStep, OrderStep, RememberedStep DEF ShipperInv
<1> QED BY <1>1, <1>2, PTL DEF ShipperSpec

(* For any number of versions, failures and crashes: the last document is  *)
(* the one in the archive when the controller has exited, unless the last  *)
(* write or upload failed.                                                 *)
THEOREM TheLastIsArchived == ShipperSpec => []FinalIsArchived
<1>1. ShipperInv => FinalIsArchived
  <2> SUFFICES ASSUME ShipperInv, main = "exited", ~unsure PROVE read_status_doc = ver
    BY DEF FinalIsArchived
  <2>1. remote = ver /\ ver \in Versions
    BY DEF ShipperInv, LastIsOnItsWay, Fields
  <2> QED BY <2>1 DEF read_status_doc
<1> QED BY <1>1, ShipperInvariance, PTL

(* Likewise the archive never goes back while a process lives, whatever it *)
(* has loaded, and not over a crash either until a save or a read of the   *)
(* phases has failed.  Only the end of an upload changes the archive, and  *)
(* its document is in order.                                               *)
THEOREM TheArchiveNeverGoesBack == ShipperSpec => ArchiveNeverGoesBack
<1> DEFINE Forward == remote' # remote /\ remote' \in Versions =>
                        /\ remote' >= shipped /\ remote' >= restored
                        /\ lost \/ remote' >= newest
<1>1. ShipperInv /\ [ShipperNext]_shipperVars => [Forward]_shipperVars
  <2> SUFFICES ASSUME ShipperInv, ShipperNext, remote' # remote, remote' \in Versions
               PROVE  Forward
    OBVIOUS
  <2>1. PICK t \in Threads : lock = t /\ remote' = read[t]
    BY DEF ShipperNext, Advance, MainThread, Persist, flush_status, _persist_status_file, Signal,
           Finish, Exit, ShipAtExit, StartUpload, EndUpload, ShipperThread, Wake, _shipper_loop,
           Crash, Restart, Stopped, shipperVars, phases, upload, Threads, ShipperInv, Locked
  <2>2. restored <= read[t] /\ shipped <= read[t]
    BY <2>1 DEF ShipperInv, InOrder
  <2>3. /\ read[t] \in Nat /\ restored \in Nat /\ shipped \in Nat /\ newest \in Nat
        /\ ~lost => newest <= restored \/ newest <= shipped
    BY <2>1, ShipperAssumption
    DEF ShipperInv, Fields, Remembered, Versions, ShipperAssumption
  <2>4. remote' >= shipped /\ remote' >= restored
    BY <2>1, <2>2, <2>3
  <2>5. ~lost => remote' >= newest
    BY <2>1, <2>2, <2>3
  <2> QED BY <2>4, <2>5
<1> QED BY <1>1, ShipperInvariance, PTL DEF ShipperSpec, ArchiveNeverGoesBack
===============================================================================
