---------------------------- MODULE BacktestJobs ----------------------------
(***************************************************************************)
(* The life of a backtest job in one service process: POST /api/backtest,  *)
(* the worker BacktestService.run under the concurrency semaphore, the     *)
(* admin controls, the reads that fall back to the bucket, and the crash   *)
(* of the process, which loses everything but the bucket.                  *)
(*                                                                         *)
(* One step is the code a coroutine executes between two points where it   *)
(* really waits: an operation pushed to a thread, a contended semaphore,   *)
(* the response of a request.  The threads' work itself is abstract:       *)
(* listing and processing files either yields something or raises.         *)
(***************************************************************************)
EXTENDS JobStore, Sequences

CONSTANTS
    MaxConcurrentJobs,    \* settings.max_concurrent_jobs at process start
    MaxFaults,     \* bound: the uploads that raise
    MaxClears,     \* bound: the clear_results_cache requests
    MaxCrashes     \* bound: the crashes of the process

ASSUME MaxConcurrentJobsAssumption == MaxConcurrentJobs \in Nat \ {0}
ASSUME JobsAssumption == IsFiniteSet(Jobs)

VARIABLES
    permits, waiting, granted,    \* app.state.semaphore
    pc,        \* where the request or the worker of a job waits
    rec,       \* the JobRecord the worker mutates
    events,    \* the events of a job published by this process
    stats,     \* EventBus._stats: successful_jobs and failed_jobs
    asked,     \* history: an accepted cancellation the worker can still obey
    faults, clears, crashes   \* counters for the bounds

INSTANCE AsyncSemaphore WITH Tasks <- Jobs, Permits <- MaxConcurrentJobs

semVars == <<permits, waiting, granted>>
workerVars == <<pc, rec, events, stats>>
budgetVars == <<faults, clears, crashes>>
vars == <<semVars, memoryVars, loadVars, bucketVars, workerVars, asked, budgetVars>>

Event == {"job_submitted", "job_started", "job_progress",
          "job_completed", "job_failed", "job_cancelled"}

\* The places where run() holds a permit of the semaphore.
Working == {"persistStart", "planning", "persistTotal", "processing",
            "persistProgress", "savingResult", "persistSuccess", "persistFailed"}
Queueing == {"dispatched", "waiting"}
Ended == {"rejected", "done", "escaped", "lost"}
Place == {"idle", "registering"} \cup Queueing \cup Working \cup Ended

\* The places where a status.json is on its way to the bucket.
StatusInFlight == {"registering", "persistStart", "persistTotal",
                   "persistProgress", "persistSuccess", "persistFailed"}

TypeOK ==
    /\ SemTypeOK
    /\ StoreTypeOK
    /\ pc \in [Jobs -> Place]
    /\ rec \in [Jobs -> Record]
    /\ events \in [Jobs -> SUBSET Event]
    /\ stats \in [ok : Nat, failed : Nat]
    /\ asked \in [Jobs -> {"no", "ahead", "dropped"}]
    /\ faults \in Nat /\ clears \in Nat /\ crashes \in Nat

Init ==
    /\ SemInit
    /\ StoreInit
    /\ pc = [j \in Jobs |-> "idle"]
    /\ rec = [j \in Jobs |-> NoRecord]
    /\ events = [j \in Jobs |-> {}]
    /\ stats = [ok |-> 0, failed |-> 0]
    /\ asked = [j \in Jobs |-> "no"]
    /\ faults = 0 /\ clears = 0 /\ crashes = 0

-----------------------------------------------------------------------------
(* The pieces the steps are made of.                                       *)

Goto(j, place) == pc' = [pc EXCEPT ![j] = place]
Publish(j, evs) == events' = [events EXCEPT ![j] = @ \cup evs]
SetRecord(j, r) == rec' = [rec EXCEPT ![j] = r]

\* Any upload may raise, MaxFaults of them do.
Charge(o) ==
    /\ o # "ok" => faults < MaxFaults
    /\ faults' = IF o = "ok" THEN faults ELSE faults + 1
    /\ UNCHANGED <<clears, crashes>>

\* Mutant: a way out of run() that does not release the semaphore.
LeaveHolding(j, place) == Goto(j, place) /\ UNCHANGED semVars

\* run() leaves the `async with semaphore` block.
Leave(j, place) == Goto(j, place) /\ Release

\* Mutant: the except block starts from a fresh record.
FailAfresh(j) ==
    /\ SetRecord(j, [NoRecord EXCEPT !.status = "FAILED"])
    /\ StoreLive(j)
    /\ Goto(j, "persistFailed")
    /\ UNCHANGED <<results, events, stats, semVars>>

\* The except block up to its upload.
Fail(j) ==
    /\ SetRecord(j, [rec[j] EXCEPT !.status = "FAILED"])
    /\ StoreLive(j)
    /\ Goto(j, "persistFailed")
    /\ UNCHANGED <<results, events, stats, semVars>>

\* Mutant: the check stands before the loop.
CancelledAtStart(j, r) == r.done = 0 /\ j \in cancellations

\* is_cancelled(), which the loop asks before every file.
Cancelled(j, r) == j \in cancellations

(***************************************************************************)
(* The head of the file loop and, after the last file, the way to the      *)
(* upload in save_result; r is the record and evs what was published just  *)
(* before.  A cancelled job leaves with neither update() nor               *)
(* record_job_finished().                                                  *)
(***************************************************************************)
FileLoop(j, r, evs) ==
    /\ \/ /\ r.done < r.total /\ Cancelled(j, r)
          /\ SetRecord(j, [r EXCEPT !.status = "CANCELLED"])
          /\ Publish(j, evs \cup {"job_cancelled"})
          /\ Leave(j, "done")
          /\ UNCHANGED results
       \/ /\ r.done < r.total /\ ~Cancelled(j, r)
          /\ SetRecord(j, r)
          /\ Publish(j, evs)
          /\ Goto(j, "processing")
          /\ UNCHANGED <<results, semVars>>
       \/ /\ r.done = r.total
          /\ SetRecord(j, r)
          /\ Publish(j, evs)
          /\ StoreResult(j)
          /\ Goto(j, "savingResult")
          /\ UNCHANGED semVars
    /\ UNCHANGED stats

-----------------------------------------------------------------------------
(* POST /api/backtest and the background task it leaves behind.            *)

\* The request up to the upload in register().
Submit(j) ==
    /\ pc[j] = "idle"
    /\ SetRecord(j, [NoRecord EXCEPT !.status = "QUEUED"])
    /\ StoreLive(j)
    /\ Goto(j, "registering")
    /\ UNCHANGED <<semVars, results, cancellations, recent, loadVars, bucketVars,
                   events, stats, asked, budgetVars>>

\* register() returns and the job is handed over, or it raises and the
\* request answers 500 while the entry stays in memory.
Registered(j, o) ==
    /\ pc[j] = "registering"
    /\ Charge(o)
    /\ StatusUploaded(j, rec[j], o)
    /\ IF o = "ok"
       THEN Publish(j, {"job_submitted"}) /\ Goto(j, "dispatched")
       ELSE UNCHANGED events /\ Goto(j, "rejected")
    /\ UNCHANGED <<semVars, cached, copy, cleared, results, cancellations, loadVars,
                   rec, stats, asked>>

\* run() up to its first upload, or to the listing if update() is throttled.
Begin(j) ==
    /\ SetRecord(j, [rec[j] EXCEPT !.status = "RUNNING"])
    /\ Publish(j, {"job_started"})
    /\ StoreLive(j)
    /\ Goto(j, IF Throttled(j) THEN "planning" ELSE "persistStart")

\* The background task starts: it enters the semaphore or queues up.
Dispatch(j) ==
    /\ pc[j] = "dispatched"
    /\ \/ AcquireNow /\ Begin(j)
       \/ /\ AcquireLater(j)
          /\ Goto(j, "waiting")
          /\ UNCHANGED <<rec, events, cached, copy, cleared>>
    /\ UNCHANGED <<results, cancellations, recent, loadVars, bucketVars, stats,
                   asked, budgetVars>>

\* A queued task whose permit was granted resumes.
Resume(j) ==
    /\ pc[j] = "waiting"
    /\ AcquireResumes(j)
    /\ Begin(j)
    /\ UNCHANGED <<results, cancellations, recent, loadVars, bucketVars, stats,
                   asked, budgetVars>>

-----------------------------------------------------------------------------
(* BacktestService.run.                                                    *)

\* update() of the RUNNING record ends.  It stands before the try block: if
\* it raises, run() does too and only _run_with_semaphore catches it.
StartPersisted(j, o) ==
    /\ pc[j] = "persistStart"
    /\ Charge(o)
    /\ StatusUploaded(j, rec[j], o)
    /\ IF o = "ok"
       THEN Goto(j, "planning") /\ UNCHANGED semVars
       ELSE Leave(j, "escaped")
    /\ UNCHANGED <<cached, copy, cleared, results, cancellations, loadVars, rec, events,
                   stats, asked>>

\* _plan_sources returns n files, or raises; no file at all raises as well.
Planned(j, n) ==
    /\ pc[j] = "planning"
    /\ n > 0
    /\ StoreLive(j)
    /\ LET r == [rec[j] EXCEPT !.total = n]
       IN  IF Throttled(j)
           THEN FileLoop(j, r, {})
           ELSE /\ SetRecord(j, r)
                /\ Goto(j, "persistTotal")
                /\ UNCHANGED <<results, events, stats, semVars>>
    /\ UNCHANGED <<cancellations, recent, loadVars, bucketVars, asked, budgetVars>>

PlanFails(j) ==
    /\ pc[j] = "planning"
    /\ Fail(j)
    /\ UNCHANGED <<cancellations, recent, loadVars, bucketVars, asked, budgetVars>>

\* update() of the planned record ends.
TotalPersisted(j, o) ==
    /\ pc[j] = "persistTotal"
    /\ Charge(o)
    /\ StatusUploaded(j, rec[j], o)
    /\ IF o = "ok"
       THEN FileLoop(j, rec[j], {}) /\ UNCHANGED <<cached, copy, cleared>>
       ELSE Fail(j)
    /\ UNCHANGED <<cancellations, loadVars, asked>>

\* Mutant: the record carries a running summary.
ProcessedSummarised(j) ==
    /\ pc[j] = "processing"
    /\ StoreLive(j)
    /\ LET r == [rec[j] EXCEPT !.done = @ + 1, !.summary = TRUE]
       IN  IF Throttled(j)
           THEN FileLoop(j, r, {"job_progress"})
           ELSE /\ SetRecord(j, r)
                /\ Goto(j, "persistProgress")
                /\ UNCHANGED <<results, events, stats, semVars>>
    /\ UNCHANGED <<cancellations, recent, loadVars, bucketVars, asked, budgetVars>>

\* The file was fetched and processed: update() persists the progress or is
\* throttled, in which case job_progress and the next check follow at once.
Processed(j) ==
    /\ pc[j] = "processing"
    /\ StoreLive(j)
    /\ LET r == [rec[j] EXCEPT !.done = @ + 1]
       IN  IF Throttled(j)
           THEN FileLoop(j, r, {"job_progress"})
           ELSE /\ SetRecord(j, r)
                /\ Goto(j, "persistProgress")
                /\ UNCHANGED <<results, events, stats, semVars>>
    /\ UNCHANGED <<cancellations, recent, loadVars, bucketVars, asked, budgetVars>>

ProcessFails(j) ==
    /\ pc[j] = "processing"
    /\ Fail(j)
    /\ UNCHANGED <<cancellations, recent, loadVars, bucketVars, asked, budgetVars>>

\* update() of the progress ends.
ProgressPersisted(j, o) ==
    /\ pc[j] = "persistProgress"
    /\ Charge(o)
    /\ StatusUploaded(j, rec[j], o)
    /\ IF o = "ok"
       THEN FileLoop(j, rec[j], {"job_progress"}) /\ UNCHANGED <<cached, copy, cleared>>
       ELSE Fail(j)
    /\ UNCHANGED <<cancellations, loadVars, asked>>

\* Mutant: save_result() swallows the error of its upload.
ResultSavedAnyway(j, o) ==
    /\ pc[j] = "savingResult"
    /\ Charge(o)
    /\ ResultUploaded(j, o)
    /\ SetRecord(j, [rec[j] EXCEPT !.status = "SUCCEEDED", !.summary = TRUE])
    /\ StoreLive(j)
    /\ Goto(j, "persistSuccess")
    /\ UNCHANGED <<results, events, stats, semVars, cancellations, loadVars, asked>>

\* save_result() returns; the terminal record is never throttled.
ResultSaved(j, o) ==
    /\ pc[j] = "savingResult"
    /\ Charge(o)
    /\ ResultUploaded(j, o)
    /\ IF o = "ok"
       THEN /\ SetRecord(j, [rec[j] EXCEPT !.status = "SUCCEEDED", !.summary = TRUE])
            /\ StoreLive(j)
            /\ Goto(j, "persistSuccess")
            /\ UNCHANGED <<results, events, stats, semVars>>
       ELSE Fail(j)
    /\ UNCHANGED <<cancellations, loadVars, asked>>

\* update() of the succeeded record ends; if it raises, the job turns FAILED.
SuccessPersisted(j, o) ==
    /\ pc[j] = "persistSuccess"
    /\ Charge(o)
    /\ StatusUploaded(j, rec[j], o)
    /\ IF o = "ok"
       THEN /\ Publish(j, {"job_completed"})
            /\ stats' = [stats EXCEPT !.ok = @ + 1]
            /\ Leave(j, "done")
            /\ UNCHANGED <<rec, cached, copy, cleared, results>>
       ELSE Fail(j)
    /\ UNCHANGED <<cancellations, loadVars, asked>>

\* Mutant: job_failed is published whether or not the document was written.
FailureAnnounced(j, o) ==
    /\ pc[j] = "persistFailed"
    /\ Charge(o)
    /\ StatusUploaded(j, rec[j], o)
    /\ Publish(j, {"job_failed"})
    /\ Leave(j, IF o = "ok" THEN "done" ELSE "escaped")
    /\ UNCHANGED <<stats, rec, cached, copy, cleared, results, cancellations, loadVars, asked>>

\* update() in the except block ends; if it raises, run() raises.
FailurePersisted(j, o) ==
    /\ pc[j] = "persistFailed"
    /\ Charge(o)
    /\ StatusUploaded(j, rec[j], o)
    /\ IF o = "ok"
       THEN /\ Publish(j, {"job_failed"})
            /\ stats' = [stats EXCEPT !.failed = @ + 1]
            /\ Leave(j, "done")
       ELSE /\ Leave(j, "escaped")
            /\ UNCHANGED <<events, stats>>
    /\ UNCHANGED <<rec, cached, copy, cleared, results, cancellations, loadVars, asked>>

-----------------------------------------------------------------------------
(* The admin controls, time, and the crash.                                *)

\* A check of is_cancelled() may still come for a job that is here.
CheckAhead(j) ==
    \/ pc[j] \in {"registering", "dispatched", "waiting", "persistStart",
                  "planning", "persistTotal"}
    \/ pc[j] = "processing" /\ rec[j].done + 1 < rec[j].total
    \/ pc[j] = "persistProgress" /\ rec[j].done < rec[j].total

\* POST /admin/control?action=cancel_job, accepted.
Cancel(j) ==
    /\ MarkCancelled(j)
    /\ asked' = [asked EXCEPT ![j] = IF CheckAhead(j) THEN "ahead" ELSE @]
    /\ UNCHANGED <<semVars, workerVars, budgetVars>>

\* POST /admin/control?action=clear_results_cache.
Clear ==
    /\ clears < MaxClears
    /\ clears' = clears + 1
    /\ ClearCaches
    /\ asked' = [j \in Jobs |-> IF asked[j] = "ahead" THEN "dropped" ELSE asked[j]]
    /\ UNCHANGED <<semVars, workerVars, faults, crashes>>

Time(j) == ThrottleElapses(j) /\ UNCHANGED <<semVars, workerVars, asked, budgetVars>>

\* Nobody asks for a job_id before submit_backtest has drawn it.
Read ==
    /\ ReadThrough
    /\ \A l \in statusLoads' \cup resultLoads' : pc[l.job] # "idle"
    /\ UNCHANGED <<semVars, workerVars, asked, budgetVars>>

\* The process dies and a new one starts.  Each upload in flight may have
\* reached the bucket.
Crash ==
    /\ crashes < MaxCrashes
    /\ crashes' = crashes + 1
    /\ \E landed \in SUBSET Jobs :
         /\ gcsStatus' = [j \in Jobs |-> IF j \in landed /\ pc[j] \in StatusInFlight
                                         THEN rec[j] ELSE gcsStatus[j]]
         /\ gcsResult' = gcsResult \cup {j \in landed : pc[j] = "savingResult"}
    /\ LoseMemory
    /\ SemRestart
    /\ pc' = [j \in Jobs |-> IF pc[j] = "idle" THEN "idle" ELSE "lost"]
    /\ rec' = [j \in Jobs |-> NoRecord]
    /\ events' = [j \in Jobs |-> {}]
    /\ stats' = [ok |-> 0, failed |-> 0]
    /\ asked' = [j \in Jobs |-> "no"]
    /\ UNCHANGED <<faults, clears>>

\* Everything the event loop does for the job j once it was submitted.
Worker(j) ==
    \/ \E o \in UploadOutcome :
         \/ Registered(j, o) \/ StartPersisted(j, o) \/ TotalPersisted(j, o)
         \/ ProgressPersisted(j, o) \/ ResultSaved(j, o)
         \/ SuccessPersisted(j, o) \/ FailurePersisted(j, o)
    \/ Dispatch(j) \/ Resume(j)
    \/ (\E n \in 1 .. MaxFiles : Planned(j, n)) \/ PlanFails(j)
    \/ Processed(j) \/ ProcessFails(j)

Next ==
    \/ \E j \in Jobs : Submit(j) \/ Worker(j) \/ Cancel(j) \/ Time(j)
    \/ Clear
    \/ Read
    \/ Crash

Spec == Init /\ [][Next]_vars

\* A thread answers and a coroutine that can run does, sooner or later.
\* Clients, the clock and the crash owe nothing.
FairSpec == Spec /\ \A j \in Jobs : WF_vars(Worker(j))

-----------------------------------------------------------------------------
(* Properties.                                                             *)

\* No permit is lost or made up: the permits free, the jobs at work and the
\* jobs woken but not resumed add up to the limit (`async with semaphore`
\* around run(), on every way out of it).
PermitsConserved ==
    permits + Cardinality({j \in Jobs : pc[j] \in Working}) + Cardinality(granted)
        = MaxConcurrentJobs

\* A durable SUCCEEDED document is never without its durable result: the
\* upload in save_result comes first and its failure stops the success.
DurableSuccessHasResult ==
    \A j \in Jobs : gcsStatus[j].status = "SUCCEEDED" => j \in gcsResult

\* A cancellation that was accepted while the loop still had a check to make,
\* and that no clear_results_cache dropped, is obeyed: the job does not
\* succeed, nor does it write a result.
CancelKept ==
    \A j \in Jobs : asked[j] = "ahead" =>
        rec[j].status # "SUCCEEDED" /\ j \notin gcsResult

\* ... and it starts no further file, although it finishes the current one.
CancelStopsFiles ==
    [][\A j \in Jobs : asked[j] = "ahead" /\ pc'[j] = "processing"
                         => pc[j] = "processing"]_vars

\* What the bucket says of a job that ended as SUCCEEDED or FAILED is what
\* the memory says, to the last count: the terminal update is not throttled,
\* and a job whose last document could not be written does not end this way.
EndedIsDurable ==
    \A j \in Jobs : pc[j] = "done" /\ rec[j].status # "CANCELLED"
                        => gcsStatus[j] = rec[j]

\* Followers of the event stream learn one outcome, the true one: a job that
\* ended published exactly the event of its status, any other job none, and
\* the counters of the admin status agree with the events.
OutcomeEvent == [SUCCEEDED |-> "job_completed", FAILED |-> "job_failed",
                 CANCELLED |-> "job_cancelled"]
EventsTellOutcome ==
    /\ \A j \in Jobs :
         events[j] \cap {"job_completed", "job_failed", "job_cancelled"}
            = IF pc[j] = "done" THEN {OutcomeEvent[rec[j].status]} ELSE {}
    /\ stats.ok = Cardinality({j \in Jobs : "job_completed" \in events[j]})
    /\ stats.failed = Cardinality({j \in Jobs : "job_failed" \in events[j]})

\* The totals that GET /api/results shows of a job (the summary on its record,
\* or else the cached result) are never those of a part of its files, although
\* save_result caches the result before it is durable, and the job may fail
\* after that: either the result is in the bucket, or every file was read.
ShowsTotals(j) ==
    \/ cached[j] = "live" /\ rec[j].summary
    \/ cached[j] = "copy" /\ copy[j].summary
    \/ cached[j] # "absent" /\ j \in results
TotalsAreFinal ==
    \A j \in Jobs : ShowsTotals(j) =>
        j \in gcsResult \/ (rec[j].total > 0 /\ rec[j].done = rec[j].total)

\* job_store.py:71-72: "In-memory state is always refreshed (so HTTP polls and
\* SSE see live values)".  A poll that missed the memory while a clear had
\* emptied it never covers what the worker stored meanwhile with the document
\* it read: since its last register() or update() the worker's own record is
\* what is answered, unless a clear dropped it after that.
PollsSeeTheWorker ==
    \A j \in Jobs : pc[j] \notin {"idle", "lost"} /\ j \notin cleared
                        => cached[j] = "live"

\* A job that was accepted ends, fails or dies with the process: no permit
\* leaks and no waiter of the semaphore is forgotten.
EveryJobEnds ==
    \A j \in Jobs : pc[j] = "registering" ~> pc[j] \in Ended

\* Seen from the bucket the service implements ResultsArchive.
Archive == INSTANCE ResultsArchive WITH status <- gcsStatus, result <- gcsResult
ImplementsArchive == Archive!Spec

-----------------------------------------------------------------------------
(* What the documentation says and the code does not do.                   *)

\* job_store.py:76: "terminal statuses bypass the throttle so the final state
\* is always durable".  A cancelled job is never persisted.
FinalStateIsDurable ==
    \A j \in Jobs : pc[j] = "done" /\ rec[j].status \in Terminal
                        => gcsStatus[j].status = rec[j].status

\* backtest_service.py:79: run() "never re-raises".
RunNeverRaises == \A j \in Jobs : pc[j] # "escaped"

=============================================================================
