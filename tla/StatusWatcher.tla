---------------------------- MODULE StatusWatcher ----------------------------
(***************************************************************************)
(* wait() on one workflow: K8sWorkflow.watch_controller_status consumes    *)
(* what a ReconnectingWatcher (watched_state.py) projects from its caches  *)
(* of the controller's JobSet and of the phases ConfigMap, each kept up to *)
(* date by a watch thread of its own.  The threads share the lock-guarded  *)
(* caches, the `changed` event and the `stop` event with the consumer.     *)
(* The consumer is either that, or a single get_status(), which reads the  *)
(* two objects one after the other; wait() falls back to it.               *)
(***************************************************************************)
EXTENDS Integers, Sequences, FiniteSets

CONSTANTS
  MaxAttempts,   \* _WATCH_MAX_ATTEMPTS: failures in a row before giving up
  MaxFailures,   \* bound on failed reads and broken streams
  MaxExpiries,   \* bound on 410 answers
  MaxSaves,      \* bound on versions of the phases ConfigMap
  Deletable,     \* the kinds of object that may be deleted
  Gone           \* stands for an object that does not exist

Kinds == {"job", "phases"}
JobStates == {"PENDING", "RUNNING", "Completed", "Failed"}
\* What a version of the phases ConfigMap says: whether a step is canceled in
\* it, or else failed.
PhasesStates == {"clear", "failed", "canceled"}

ASSUME WatcherAssumption ==
  /\ MaxAttempts \in Nat \ {0}
  /\ {MaxFailures, MaxExpiries, MaxSaves} \subseteq Nat
  /\ Deletable \subseteq Kinds
  /\ Gone \notin JobStates /\ Gone \notin PhasesStates

VARIABLES
  hist,       \* hist[k]: the versions of the object of kind k, oldest first
  cache,      \* _caches[k]: the version held, 0 for none
  rv,         \* resource_version of k's watch thread, 0 for ""
  pos,        \* how far the open stream of k has come, 0 if none is open
  thread,     \* what k's watch thread is doing
  attempts,   \* _attempts[k]
  fatal,      \* _fatal_error is set
  stop,       \* _stop
  changed,    \* _changed
  dirty,      \* _dirty
  latest,     \* _latest, the last projection
  pc,         \* what the consumer is doing
  result,     \* what wait() returns
  failures, expiries \* how often each has happened

clusterVars == <<hist>>
watchVars == <<cache, rv, pos, thread>>
sharedVars == <<attempts, fatal, stop, changed, dirty>>
consumerVars == <<latest, pc, result>>
vars == <<clusterVars, watchVars, sharedVars, consumerVars, failures, expiries>>

Values == [k \in Kinds |-> IF k = "job" THEN JobStates \union {Gone}
                                        ELSE PhasesStates \union {Gone}]
Statuses == {"None", "UNKNOWN", "PENDING", "RUNNING", "SUCCEEDED", "FAILED",
             "CANCELED", "ERROR"}
Finished == {"SUCCEEDED", "FAILED", "CANCELED", "ERROR"}
ThreadStates == {"none", "idle", "stream", "notify", "escalate", "ended"}
ConsumerStates == {"seedJob", "seedPhases", "look", "wait", "raise?",
                   "read", "readJob", "readPhases", "returned", "raised"}

Init ==
  /\ hist = [k \in Kinds |-> IF k = "job" THEN <<"PENDING">> ELSE <<>>]
  /\ cache = [k \in Kinds |-> 0] /\ rv = [k \in Kinds |-> 0]
  /\ pos = [k \in Kinds |-> 0] /\ thread = [k \in Kinds |-> "none"]
  /\ attempts = [k \in Kinds |-> 0]
  /\ fatal = FALSE /\ stop = FALSE /\ changed = FALSE /\ dirty = FALSE
  /\ latest = "None" /\ pc \in {"seedJob", "readJob"} /\ result = "None"
  /\ failures = 0 /\ expiries = 0

-----------------------------------------------------------------------------
(* The cluster: the controller saves phases while it runs, if a save is    *)
(* accepted at all, and ends after its last save; the JobSet may be        *)
(* deleted, and its ConfigMap with it.                                     *)

Now(k) == hist[k][Len(hist[k])]
Exists(k) == hist[k] # <<>> /\ Now(k) # Gone
Store(k, v) == hist' = [hist EXCEPT ![k] = Append(@, v)]

\* What the cluster does after wait() is of no interest.
OnlyCluster ==
  /\ pc \notin {"returned", "raised"}
  /\ UNCHANGED <<watchVars, sharedVars, consumerVars, failures, expiries>>

JobStarts == Now("job") = "PENDING" /\ Store("job", "RUNNING") /\ OnlyCluster

\* A failed or canceled step stays so.
PhasesSaved(v) ==
  /\ Now("job") = "RUNNING" /\ Len(hist["phases"]) < MaxSaves
  /\ hist["phases"] # <<>> /\ Now("phases") # "clear" => v # "clear"
  /\ hist["phases"] # <<>> /\ Now("phases") = "canceled" => v = "canceled"
  /\ Store("phases", v)
  /\ OnlyCluster

JobEnds ==
  /\ Now("job") = "RUNNING"
  /\ Store("job", "Completed") \/ Store("job", "Failed")
  /\ OnlyCluster

Deleted(k) ==
  /\ k \in Deletable /\ Exists(k)
  /\ k = "phases" => ~Exists("job")
  /\ Store(k, Gone)
  /\ OnlyCluster

-----------------------------------------------------------------------------
(* controller_jobset_status_and_completion over a pair of objects.         *)

\* Mutant: a ConfigMap not seen yet taken for a failure.
StatusOf_unseen_failed(job, phases) ==
  IF job = Gone THEN "None"
  ELSE IF job \in {"PENDING", "RUNNING"} THEN job
  ELSE IF job = "Failed" THEN "ERROR"
  ELSE IF phases = "canceled" THEN "CANCELED"
  ELSE IF phases = "clear" THEN "SUCCEEDED"
  ELSE "FAILED"

StatusOf(job, phases) ==
  IF job = Gone THEN "None"
  ELSE IF job \in {"PENDING", "RUNNING"} THEN job
  ELSE IF job = "Failed" THEN "ERROR"
  ELSE IF phases = Gone THEN "SUCCEEDED"
  ELSE IF phases = "canceled" THEN "CANCELED"
  ELSE IF phases = "failed" THEN "FAILED"
  ELSE "SUCCEEDED"

Held(k, v) == IF v = 0 THEN Gone ELSE hist[k][v]

\* _project_controller_status
Projection(c) == StatusOf(Held("job", c["job"]), Held("phases", c["phases"]))

\* What the workflow came to: the controller's last word, while it is known.
Outcome ==
  StatusOf(hist["job"][3],
           IF hist["phases"] = <<>> THEN Gone
           ELSE IF Exists("phases") THEN Now("phases")
           ELSE hist["phases"][Len(hist["phases"]) - 1])

-----------------------------------------------------------------------------
(* start(): both caches seeded by a synchronous read, each retried, then   *)
(* the first projection and the two threads; wait_for_first then looks for *)
(* a fatal failure, and at the projection.                                 *)

\* _record_failure; it returns at once when a failure is fatal already.
RecordFailure(k) ==
  /\ failures < MaxFailures /\ failures' = failures + 1
  /\ IF fatal
       THEN UNCHANGED <<attempts, fatal, stop>>
       ELSE /\ attempts' = [attempts EXCEPT ![k] = @ + 1]
            /\ fatal' = (attempts[k] + 1 >= MaxAttempts)
            /\ stop' = (stop \/ attempts[k] + 1 >= MaxAttempts)

RecordSuccess(k) == attempts' = [attempts EXCEPT ![k] = 0]

Seeding(k) == pc = IF k = "job" THEN "seedJob" ELSE "seedPhases"

Seed(k) ==
  /\ Seeding(k)
  /\ LET seen == IF Exists(k) THEN Len(hist[k]) ELSE 0
     IN  /\ cache' = [cache EXCEPT ![k] = seen]
         /\ rv' = [rv EXCEPT ![k] = seen]
  /\ RecordSuccess(k)
  /\ \/ k = "job" /\ pc' = "seedPhases" /\ UNCHANGED <<latest, thread>>
     \/ /\ k = "phases" /\ pc' = "raise?"   \* wait_for_first
        /\ latest' = Projection(cache')
        /\ thread' = [j \in Kinds |-> "idle"]
  /\ UNCHANGED <<hist, pos, fatal, stop, changed, dirty, result, failures, expiries>>

SeedFails(k) ==
  /\ Seeding(k)
  /\ RecordFailure(k)
  /\ pc' = IF fatal' THEN "raised" ELSE pc
  /\ changed' = (changed \/ fatal')
  /\ UNCHANGED <<hist, watchVars, dirty, latest, result, expiries>>

-----------------------------------------------------------------------------
(* _run_watch, one thread for each kind.                                   *)

threadUnchanged == UNCHANGED <<hist, consumerVars>>
ThreadTo(k, t) == thread' = [thread EXCEPT ![k] = t]
StreamTo(k, t) == ThreadTo(k, t) /\ pos' = [pos EXCEPT ![k] = 0]

\* At a version the stream sends what came after it; at "" first the object.
Open(k) ==
  /\ thread[k] = "idle" /\ ~stop
  /\ ThreadTo(k, "stream")
  /\ pos' = [pos EXCEPT ![k] = IF rv[k] # 0 THEN rv[k]
                               ELSE IF Exists(k) THEN Len(hist[k]) - 1
                               ELSE Len(hist[k])]
  /\ UNCHANGED <<cache, rv, sharedVars, failures, expiries>>
  /\ threadUnchanged

Apply(k) ==
  /\ thread[k] = "stream" /\ ~stop
  /\ pos[k] < Len(hist[k])
  /\ LET v == pos[k] + 1
     IN  /\ cache' = [cache EXCEPT ![k] = IF hist[k][v] = Gone THEN 0 ELSE v]
         /\ pos' = [pos EXCEPT ![k] = v]
  /\ dirty' = TRUE
  /\ ThreadTo(k, "notify")
  /\ UNCHANGED <<rv, attempts, fatal, stop, changed, failures, expiries>>
  /\ threadUnchanged

\* Mutant: the version of the event forgotten, so that a reconnect replays.
Notify_version_dropped(k) ==
  /\ thread[k] = "notify"
  /\ changed' = TRUE
  /\ ThreadTo(k, "stream")
  /\ UNCHANGED <<cache, rv, pos, attempts, fatal, stop, dirty, failures, expiries>>
  /\ threadUnchanged

\* The rest of it: _changed.set(), and the version the caller keeps.
Notify(k) ==
  /\ thread[k] = "notify"
  /\ changed' = TRUE
  /\ rv' = [rv EXCEPT ![k] = pos[k]]
  /\ ThreadTo(k, "stream")
  /\ UNCHANGED <<cache, pos, attempts, fatal, stop, dirty, failures, expiries>>
  /\ threadUnchanged

\* The stream ends: closed by the server, or left because of _stop.
StreamEnds(k) ==
  /\ thread[k] = "stream"
  /\ RecordSuccess(k)
  /\ StreamTo(k, "idle")
  /\ UNCHANGED <<cache, rv, fatal, stop, changed, dirty, failures, expiries>>
  /\ threadUnchanged

\* Mutant: an error that leaves the loop.
StreamFails_unhandled(k) ==
  /\ thread[k] = "stream"
  /\ RecordFailure(k)
  /\ StreamTo(k, IF fatal' /\ ~fatal THEN "escalate" ELSE "ended")
  /\ UNCHANGED <<cache, rv, changed, dirty, expiries>>
  /\ threadUnchanged

StreamFails(k) ==
  /\ thread[k] = "stream"
  /\ RecordFailure(k)
  /\ StreamTo(k, IF fatal' /\ ~fatal THEN "escalate" ELSE "idle")
  /\ UNCHANGED <<cache, rv, changed, dirty, expiries>>
  /\ threadUnchanged

\* Mutant: the waiter not woken.
Escalate_silent(k) ==
  /\ thread[k] = "escalate"
  /\ ThreadTo(k, "idle")
  /\ UNCHANGED <<cache, rv, pos, attempts, fatal, stop, changed, dirty, failures, expiries>>
  /\ threadUnchanged

\* _on_fatal_logged
Escalate(k) ==
  /\ thread[k] = "escalate"
  /\ changed' = TRUE
  /\ ThreadTo(k, "idle")
  /\ UNCHANGED <<cache, rv, pos, attempts, fatal, stop, dirty, failures, expiries>>
  /\ threadUnchanged

\* 410: the next stream starts from a list, and the cache stays as it is.
Expired(k) ==
  /\ thread[k] = "idle" /\ ~stop /\ rv[k] # 0
  /\ expiries < MaxExpiries /\ expiries' = expiries + 1
  /\ rv' = [rv EXCEPT ![k] = 0]
  /\ UNCHANGED <<cache, pos, thread, sharedVars, failures>>
  /\ threadUnchanged

ThreadEnds(k) ==
  /\ thread[k] = "idle" /\ stop
  /\ ThreadTo(k, "ended")
  /\ UNCHANGED <<cache, rv, pos, sharedVars, failures, expiries>>
  /\ threadUnchanged

-----------------------------------------------------------------------------
(* watch_controller_status and _watch_to_completion.                       *)

consumerUnchanged == UNCHANGED <<hist, cache, rv, attempts, fatal, failures, expiries>>

\* Leaving the `with` block, by a return or an error, stops the threads and
\* waits for them.
ExitWith(left) ==
  IF left
    THEN /\ stop' = TRUE
         /\ thread' = [k \in Kinds |-> "ended"] /\ pos' = [k \in Kinds |-> 0]
    ELSE UNCHANGED <<stop, thread, pos>>

Look ==
  /\ pc = "look"
  /\ pc' = IF latest = "None" THEN "readJob"
           ELSE IF latest \in Finished THEN "returned" ELSE "wait"
  /\ result' = IF latest \in Finished THEN latest ELSE result
  /\ ExitWith(latest \in Finished \union {"None"})
  /\ UNCHANGED <<changed, dirty, latest>>
  /\ consumerUnchanged

\* wait_for_update: the wait and clear() at once, since no other thread clears
\* the event; then _raise_if_fatal().
Woken ==
  /\ pc = "wait" /\ changed
  /\ changed' = FALSE
  /\ pc' = "raise?"
  /\ UNCHANGED <<dirty, latest, result>>
  /\ ExitWith(FALSE) /\ consumerUnchanged

RaiseIfFatal ==
  /\ pc = "raise?"
  /\ pc' = IF fatal THEN "raised" ELSE "read"
  /\ ExitWith(fatal)
  /\ UNCHANGED <<changed, dirty, latest, result>>
  /\ consumerUnchanged

\* latest()
Read ==
  /\ pc = "read"
  /\ latest' = IF dirty THEN Projection(cache) ELSE latest
  /\ dirty' = FALSE
  /\ pc' = "look"
  /\ UNCHANGED <<changed, result>>
  /\ ExitWith(FALSE) /\ consumerUnchanged

\* get_workflow_job_status: the JobSet, then the ConfigMap if it completed.
\* Mutant: the ConfigMap not read.
ReadJob_alone ==
  /\ pc = "readJob"
  /\ pc' = "returned"
  /\ result' = IF Exists("job") THEN StatusOf(Now("job"), Gone) ELSE "UNKNOWN"
  /\ UNCHANGED <<changed, dirty, latest>>
  /\ ExitWith(FALSE) /\ consumerUnchanged

ReadJob ==
  /\ pc = "readJob"
  /\ IF Exists("job") /\ Now("job") = "Completed"
       THEN pc' = "readPhases" /\ UNCHANGED result
       ELSE /\ pc' = "returned"
            /\ result' = IF Exists("job") THEN StatusOf(Now("job"), Gone) ELSE "UNKNOWN"
  /\ UNCHANGED <<changed, dirty, latest>>
  /\ ExitWith(FALSE) /\ consumerUnchanged

ReadPhases ==
  /\ pc = "readPhases"
  /\ pc' = "returned"
  /\ result' = StatusOf("Completed", IF Exists("phases") THEN Now("phases") ELSE Gone)
  /\ UNCHANGED <<changed, dirty, latest>>
  /\ ExitWith(FALSE) /\ consumerUnchanged

-----------------------------------------------------------------------------
ClusterStep ==
  \/ JobStarts \/ JobEnds
  \/ \E v \in PhasesStates : PhasesSaved(v)
  \/ \E k \in Kinds : Deleted(k)

ThreadStep(k) ==
  Open(k) \/ Apply(k) \/ Notify(k) \/ StreamEnds(k) \/ Escalate(k) \/ ThreadEnds(k)

Consumer ==
  \/ \E k \in Kinds : Seed(k)
  \/ Look \/ Woken \/ RaiseIfFatal \/ Read \/ ReadJob \/ ReadPhases

WatchFault == \E k \in Kinds : SeedFails(k) \/ StreamFails(k) \/ Expired(k)

Next == ClusterStep \/ (\E k \in Kinds : ThreadStep(k)) \/ Consumer \/ WatchFault

Spec == Init /\ [][Next]_vars

(***************************************************************************)
(* Neither the consumer's thread nor a watch thread is starved, and the    *)
(* API server sends what an open stream has to deliver.  Nothing is        *)
(* assumed of the cluster or of the faults.                                *)
(***************************************************************************)
FairSpec ==
  /\ Spec
  /\ WF_vars(Consumer)
  /\ \A k \in Kinds : /\ WF_vars(ThreadStep(k))
                      /\ SF_vars(Apply(k))

-----------------------------------------------------------------------------
TypeOK ==
  /\ DOMAIN hist = Kinds /\ \A k \in Kinds : hist[k] \in Seq(Values[k])
  /\ DOMAIN cache = Kinds
  /\ \A k \in Kinds : cache[k] \in {0} \union {v \in 1..Len(hist[k]) : hist[k][v] # Gone}
  /\ rv \in [Kinds -> Nat] /\ pos \in [Kinds -> Nat]
  /\ thread \in [Kinds -> ThreadStates]
  /\ attempts \in [Kinds -> 0..MaxAttempts]
  /\ {fatal, stop, changed, dirty} \subseteq BOOLEAN
  /\ latest \in Statuses /\ result \in Statuses /\ pc \in ConsumerStates
  /\ failures \in 0..MaxFailures /\ expiries \in 0..MaxExpiries

(***************************************************************************)
(* However often the streams break, resume or start again from a list, a   *)
(* cached object is never replaced by an older version of itself           *)
(* (_apply_event, _run_watch).                                             *)
(***************************************************************************)
CacheNeverGoesBack ==
  [][\A k \in Kinds : cache'[k] # 0 => cache'[k] >= cache[k]]_vars

(***************************************************************************)
(* The consumer never sleeps on news: when it waits and the caches have    *)
(* changed since its last look, or the watch is given up, it has been      *)
(* woken or the thread at hand is about to wake it (wait_for_update clears *)
(* the event before it looks).                                             *)
(***************************************************************************)
WaiterIsWoken ==
  pc = "wait" /\ (dirty \/ fatal) =>
    changed \/ \E k \in Kinds : thread[k] \in {"notify", "escalate"}

(***************************************************************************)
(* wait() calls a workflow failed or canceled only if a step failed or was *)
(* canceled, ERROR only if the controller's JobSet failed, and UNKNOWN     *)
(* only if it is gone.                                                     *)
(***************************************************************************)
BadNewsIsTrue ==
  /\ result \in {"FAILED", "CANCELED"} => Outcome \in {"FAILED", "CANCELED"}
  /\ result = "ERROR" => Outcome = "ERROR"
  /\ result = "UNKNOWN" => Now("job") = Gone

(***************************************************************************)
(* get_status() reads the JobSet before the ConfigMap, so that it never    *)
(* calls a workflow succeeded that is not, unless the ConfigMap was        *)
(* deleted in between (get_workflow_job_status).                           *)
(***************************************************************************)
Polled == \A k \in Kinds : thread[k] = "none"

PollIsTrue ==
  pc = "returned" /\ Polled /\ result = "SUCCEEDED"
    => Outcome = "SUCCEEDED" \/ (hist["phases"] # <<>> /\ Now("phases") = Gone)

(***************************************************************************)
(* wait() comes to an end when the workflow has ended and is not deleted,  *)
(* and when the watch is given up.                                         *)
(***************************************************************************)
WaitEnds ==
  (<>[](Now("job") \in {"Completed", "Failed"}) \/ <>fatal)
    => <>(pc \in {"returned", "raised"})
=============================================================================
