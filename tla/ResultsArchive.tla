--------------------------- MODULE ResultsArchive ---------------------------
(***************************************************************************)
(* What the results bucket promises to whoever reads it, whatever process  *)
(* wrote it and whenever that process died: the history of one job's       *)
(* status.json and result.json.  A status document only moves forward, its *)
(* progress never shrinks, and the document of a success appears only      *)
(* after every file was processed and the result was written.              *)
(*                                                                         *)
(* A success may still turn into a failure: the worker that cannot tell    *)
(* whether its last upload arrived reports FAILED.  Nothing else is undone.*)
(***************************************************************************)
EXTENDS Naturals

CONSTANTS Jobs

VARIABLES
    status,    \* the JobRecord in status.json, status "NONE" when there is none
    result     \* the jobs with a result.json

archiveVars == <<status, result>>

Init ==
    /\ \A j \in Jobs : status[j].status = "NONE"
    /\ result = {}

\* The status a document may have after one with status s.
After(s) ==
    CASE s = "NONE"      -> {"QUEUED"}
      [] s = "QUEUED"    -> {"RUNNING", "SUCCEEDED", "FAILED"}
      [] s = "RUNNING"   -> {"RUNNING", "SUCCEEDED", "FAILED"}
      [] s = "SUCCEEDED" -> {"FAILED"}
      [] s = "FAILED"    -> {}

\* The document d of a job may be replaced by e; saved tells whether the
\* result of the job is in the bucket.
Supersedes(e, d, saved) ==
    /\ e.status \in After(d.status)
    /\ e.done >= d.done
    /\ d.total # 0 => e.total = d.total
    /\ e.done <= e.total
    /\ e.summary => saved
    /\ e.status = "SUCCEEDED" => saved /\ e.summary /\ e.done = e.total /\ e.total > 0

\* A worker writes one document at a time, so a step changes, per job, the
\* status or adds the result; the crash of a process may finish several
\* uploads at once, one per job.
JobStep(j) ==
    \/ status'[j] = status[j] /\ (j \in result <=> j \in result')
    \/ Supersedes(status'[j], status[j], j \in result) /\ (j \in result <=> j \in result')
    \/ /\ status'[j] = status[j]
       /\ status[j].status \in {"QUEUED", "RUNNING"}
       /\ j \notin result /\ j \in result'

Next == \A j \in Jobs : JobStep(j)

Spec == Init /\ [][Next]_archiveVars

=============================================================================
