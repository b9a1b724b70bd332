------------------------------ MODULE JobStore ------------------------------
(***************************************************************************)
(* core/job_store.py: the in-memory registry of jobs and the two documents *)
(* per job, status.json and result.json, that it keeps in the results      *)
(* bucket.                                                                 *)
(*                                                                         *)
(* The in-memory entry of a job is a reference.  register() and update()   *)
(* store the very JobRecord object that the worker goes on mutating, so a  *)
(* poll sees the worker's assignments at once; get() may store an object   *)
(* parsed from the bucket instead, which nobody mutates.  Hence an entry   *)
(* is "absent", "live" (the worker's object) or "copy" (a parsed document, *)
(* whose contents are kept in `copy`).                                     *)
(*                                                                         *)
(* The lock of the store is never held across a suspension, so every       *)
(* critical section is one step, together with the code around it up to    *)
(* the next point where the coroutine really waits.  The only such points  *)
(* in the store are the bucket operations pushed to a thread.              *)
(***************************************************************************)
EXTENDS Naturals, FiniteSets

CONSTANTS
    Jobs,        \* the jobs clients may submit
    MaxFiles,    \* bound: the most source files a job has
    MaxLoads,    \* bound: the reads of the bucket in flight at a time
    Polled       \* bound: the jobs that are read from the bucket

ASSUME MaxFilesAssumption == MaxFiles \in Nat
ASSUME PolledAssumption == Polled \subseteq Jobs

VARIABLES
    cached,         \* JobStore._jobs: what the entry of a job refers to
    copy,           \* the parsed document behind a "copy" entry
    cleared,        \* history: jobs whose worker's entry a clear dropped
    results,        \* the keys of JobStore._results
    cancellations,  \* JobStore._cancellations
    recent,         \* jobs whose _last_persist_at is younger than 2 s
    statusLoads,    \* status.json reads started by get()
    resultLoads,    \* result.json reads started by get_result()
    gcsStatus,      \* jobs/{job_id}/status.json in the bucket
    gcsResult       \* jobs with a jobs/{job_id}/result.json in the bucket

memoryVars == <<cached, copy, cleared, results, cancellations, recent>>
loadVars   == <<statusLoads, resultLoads>>
bucketVars == <<gcsStatus, gcsResult>>

Terminal == {"SUCCEEDED", "FAILED", "CANCELLED"}      \* _TERMINAL_STATUSES
JobStatus == {"QUEUED", "RUNNING"} \cup Terminal

\* A JobRecord: its status, the file counts of its progress, and whether the
\* summary has been mirrored onto it.  "NONE" stands for no document.
Record == [status : JobStatus \cup {"NONE"}, total : 0 .. MaxFiles,
           done : 0 .. MaxFiles, summary : BOOLEAN]
NoRecord == [status |-> "NONE", total |-> 0, done |-> 0, summary |-> FALSE]

StatusLoad == [job : Jobs, read : BOOLEAN, doc : Record]
ResultLoad == [job : Jobs, read : BOOLEAN, hit : BOOLEAN]

StoreTypeOK ==
    /\ cached \in [Jobs -> {"absent", "live", "copy"}]
    /\ copy \in [Jobs -> Record]
    /\ cleared \subseteq Jobs
    /\ results \subseteq Jobs
    /\ cancellations \subseteq Jobs
    /\ recent \subseteq Jobs
    /\ statusLoads \subseteq StatusLoad
    /\ resultLoads \subseteq ResultLoad
    /\ gcsStatus \in [Jobs -> Record]
    /\ gcsResult \subseteq Jobs

\* A process starts with empty dictionaries.
EmptyMemory ==
    /\ cached = [j \in Jobs |-> "absent"]
    /\ copy = [j \in Jobs |-> NoRecord]
    /\ cleared = {} /\ results = {} /\ cancellations = {} /\ recent = {}
    /\ statusLoads = {} /\ resultLoads = {}

\* A process that dies takes its dictionaries and its requests along.
LoseMemory ==
    /\ cached' = [j \in Jobs |-> "absent"]
    /\ copy' = [j \in Jobs |-> NoRecord]
    /\ cleared' = {} /\ results' = {} /\ cancellations' = {} /\ recent' = {}
    /\ statusLoads' = {} /\ resultLoads' = {}

StoreInit ==
    /\ EmptyMemory
    /\ gcsStatus = [j \in Jobs |-> NoRecord]
    /\ gcsResult = {}

-----------------------------------------------------------------------------
(* The locked sections of register, update and save_result.                *)

\* _jobs[record.job_id] = record, for the worker's own record.
StoreLive(j) ==
    /\ cached' = [cached EXCEPT ![j] = "live"]
    /\ copy' = [copy EXCEPT ![j] = NoRecord]
    /\ cleared' = cleared \ {j}

\* _results[job_id] = result
StoreResult(j) == results' = results \cup {j}

(***************************************************************************)
(* An upload pushed to a thread ends in one of three ways: it succeeds; it *)
(* raises and the object was not written; it raises although the object    *)
(* was written (the answer was lost).                                      *)
(***************************************************************************)
UploadOutcome == {"ok", "refused", "unanswered"}
Written(o) == o # "refused"

\* Mutant: update() throttles the terminal statuses too.
StatusUploadedThrottled(j, r, o) ==
    /\ gcsStatus' = IF j \in recent THEN gcsStatus ELSE [gcsStatus EXCEPT ![j] = r]
    /\ recent' = recent \cup {j}
    /\ UNCHANGED gcsResult

\* The end of _persist_status for the document r, and the time stamp that
\* register and update take when it returns.
StatusUploaded(j, r, o) ==
    /\ gcsStatus' = IF Written(o) THEN [gcsStatus EXCEPT ![j] = r] ELSE gcsStatus
    /\ recent' = IF o = "ok" THEN recent \cup {j} ELSE recent
    /\ UNCHANGED gcsResult

\* The end of the upload in save_result.
ResultUploaded(j, o) ==
    /\ gcsResult' = IF Written(o) THEN gcsResult \cup {j} ELSE gcsResult
    /\ UNCHANGED <<gcsStatus, recent>>

\* The throttle of update(): an in-progress document younger than 2 s is
\* not rewritten.
Throttled(j) == j \in recent

\* Two seconds pass since the last persist of j.
ThrottleElapses(j) ==
    /\ j \in recent
    /\ recent' = recent \ {j}
    /\ UNCHANGED <<cached, copy, cleared, results, cancellations>>
    /\ UNCHANGED <<loadVars, bucketVars>>

-----------------------------------------------------------------------------
(* Requests served from the store.                                         *)

\* request_cancel() for a job that is in memory.
MarkCancelled(j) ==
    /\ cached[j] # "absent"
    /\ cancellations' = cancellations \cup {j}
    /\ UNCHANGED <<cached, copy, cleared, results, recent>>
    /\ UNCHANGED <<loadVars, bucketVars>>

\* clear_results_cache(): the time stamps of the throttle stay.
ClearCaches ==
    /\ cached' = [j \in Jobs |-> "absent"]
    /\ copy' = [j \in Jobs |-> NoRecord]
    /\ cleared' = cleared \cup {j \in Jobs : cached[j] = "live"}
    /\ results' = {}
    /\ cancellations' = {}
    /\ UNCHANGED <<recent, loadVars, bucketVars>>

RoomForLoad == Cardinality(statusLoads) + Cardinality(resultLoads) < MaxLoads

\* get() misses the memory and starts to read status.json.
GetMisses(j) ==
    /\ cached[j] = "absent"
    /\ RoomForLoad
    /\ statusLoads' = statusLoads \cup {[job |-> j, read |-> FALSE, doc |-> NoRecord]}
    /\ UNCHANGED <<memoryVars, resultLoads, bucketVars>>

\* The thread reads the document.
StatusRead(l) ==
    /\ l \in statusLoads /\ ~l.read
    /\ statusLoads' = (statusLoads \ {l})
                        \cup {[l EXCEPT !.read = TRUE, !.doc = gcsStatus[l.job]]}
    /\ UNCHANGED <<memoryVars, resultLoads, bucketVars>>

\* Mutant: get() overwrites an entry made in the meantime.
GetOverwrites(l) ==
    /\ l \in statusLoads /\ l.read /\ l.doc # NoRecord
    /\ statusLoads' = statusLoads \ {l}
    /\ cached' = [cached EXCEPT ![l.job] = "copy"]
    /\ copy' = [copy EXCEPT ![l.job] = l.doc]
    /\ UNCHANGED <<cleared, results, cancellations, recent, resultLoads, bucketVars>>

\* get() resumes: a document that exists is stored unless an entry is there
\* by now (setdefault), and returned to the caller in either case.
GetReturns(l) ==
    /\ l \in statusLoads /\ l.read
    /\ statusLoads' = statusLoads \ {l}
    /\ IF l.doc # NoRecord /\ cached[l.job] = "absent"
       THEN /\ cached' = [cached EXCEPT ![l.job] = "copy"]
            /\ copy' = [copy EXCEPT ![l.job] = l.doc]
       ELSE UNCHANGED <<cached, copy>>
    /\ UNCHANGED <<cleared, results, cancellations, recent, resultLoads, bucketVars>>

\* get_result() misses the memory and starts to read result.json.
GetResultMisses(j) ==
    /\ j \notin results
    /\ RoomForLoad
    /\ resultLoads' = resultLoads \cup {[job |-> j, read |-> FALSE, hit |-> FALSE]}
    /\ UNCHANGED <<memoryVars, statusLoads, bucketVars>>

ResultRead(l) ==
    /\ l \in resultLoads /\ ~l.read
    /\ resultLoads' = (resultLoads \ {l})
                        \cup {[l EXCEPT !.read = TRUE, !.hit = (l.job \in gcsResult)]}
    /\ UNCHANGED <<memoryVars, statusLoads, bucketVars>>

\* get_result() resumes: a result that was found is stored.
GetResultReturns(l) ==
    /\ l \in resultLoads /\ l.read
    /\ resultLoads' = resultLoads \ {l}
    /\ results' = IF l.hit THEN results \cup {l.job} ELSE results
    /\ UNCHANGED <<cached, copy, cleared, cancellations, recent, statusLoads, bucketVars>>

\* A read of the bucket raises: the request answers 500, nothing is stored.
LoadFails ==
    /\ \/ /\ \E l \in statusLoads : ~l.read /\ statusLoads' = statusLoads \ {l}
          /\ UNCHANGED resultLoads
       \/ /\ \E l \in resultLoads : ~l.read /\ resultLoads' = resultLoads \ {l}
          /\ UNCHANGED statusLoads
    /\ UNCHANGED <<memoryVars, bucketVars>>

\* Every step of a GET request that has to go to the bucket.
ReadThrough ==
    \/ \E j \in Polled : GetMisses(j) \/ GetResultMisses(j)
    \/ \E l \in statusLoads : StatusRead(l) \/ GetReturns(l)
    \/ \E l \in resultLoads : ResultRead(l) \/ GetResultReturns(l)
    \/ LoadFails

=============================================================================
