------------------------- MODULE BacktestJobsProofs -------------------------
(***************************************************************************)
(* Proofs about BacktestJobs, for any set of jobs and any bounds (a finite *)
(* set where jobs are counted).                                            *)
(*                                                                         *)
(*   TypeCorrect              Spec => []TypeOK                             *)
(*   SuccessHasResult         Spec => []DurableSuccessHasResult            *)
(*   CancellationIsKept       Spec => []CancelKept                         *)
(*   EndIsDurable             Spec => []EndedIsDurable                     *)
(*   CancellationStopsFiles   Spec => CancelStopsFiles                     *)
(*   Implementation           Spec => ImplementsArchive                    *)
(*   PermitsAreConserved      Spec => []PermitsConserved                   *)
(*   OutcomesAreTold          Spec => []EventsTellOutcome                  *)
(*   TotalsShownAreFinal      Spec => []TotalsAreFinal                     *)
(*   WorkerIsSeen             Spec => []PollsSeeTheWorker                  *)
(***************************************************************************)
EXTENDS BacktestJobs, FiniteSetTheorems, TLAPS

(***************************************************************************)
(* Types.  TypeOK is not inductive: that a processed file keeps `done`     *)
(* within MaxFiles needs `done < total` while a file is being processed,   *)
(* and that needs the counts of a job to be zero until it is planned.      *)
(***************************************************************************)

\* The places a job passes through before its files are counted.
Unplanned == {"idle", "registering", "dispatched", "waiting", "persistStart",
              "planning"}

CountsOK ==
    \A j \in Jobs :
        /\ rec[j].done <= rec[j].total
        /\ pc[j] \in Unplanned => rec[j].total = 0
        /\ pc[j] = "processing" => rec[j].done < rec[j].total

TypeInv == TypeOK /\ CountsOK

USE DEF TypeOK, SemTypeOK, StoreTypeOK

LEMMA NoRecordType == NoRecord \in Record /\ NoRecord.done = 0 /\ NoRecord.total = 0
BY MaxFilesAssumption DEF NoRecord, Record, JobStatus, Terminal

LEMMA TypeInit == Init => TypeInv
<1> SUFFICES ASSUME Init PROVE TypeInv
  OBVIOUS
<1> USE DEF Init, SemInit, StoreInit, EmptyMemory
<1>1. TypeOK
  BY NoRecordType, MaxConcurrentJobsAssumption DEF Place
<1>2. CountsOK
  BY NoRecordType DEF CountsOK
<1> QED  BY <1>1, <1>2 DEF TypeInv

-----------------------------------------------------------------------------
(* What the pieces of the steps do to the types.                           *)

\* The operations of the semaphore keep its type.
LEMMA SemStep ==
    ASSUME SemTypeOK,
           \/ AcquireNow \/ Release \/ SemRestart \/ UNCHANGED semVars
           \/ \E j \in Jobs : AcquireLater(j) \/ AcquireResumes(j)
    PROVE  SemTypeOK'
<1> USE MaxConcurrentJobsAssumption
<1>1. CASE AcquireNow
  BY <1>1 DEF AcquireNow, Locked
<1>2. CASE Release
  BY <1>2 DEF Release
<1>3. CASE SemRestart
  BY <1>3 DEF SemRestart
<1>4. CASE UNCHANGED semVars
  BY <1>4 DEF semVars
<1>5. ASSUME NEW j \in Jobs, AcquireLater(j)
      PROVE  SemTypeOK'
  BY <1>5 DEF AcquireLater
<1>6. ASSUME NEW j \in Jobs, AcquireResumes(j)
      PROVE  SemTypeOK'
  <2>1. Woken \in Nat /\ Woken <= permits /\ Woken <= Len(waiting)
    BY DEF Woken
  <2>2. permits' \in Nat /\ waiting' \in Seq(Jobs)
    BY <1>6, <2>1 DEF AcquireResumes
  <2>3. \A i \in 1 .. Woken : waiting[i] \in Jobs
    BY <2>1
  <2> QED
    BY <1>6, <2>2, <2>3 DEF AcquireResumes
<1> QED
  BY <1>1, <1>2, <1>3, <1>4, <1>5, <1>6

\* update() of the record in the loop, and the ways on from there.
LEMMA FileLoopType ==
    ASSUME TypeInv, NEW j \in Jobs, NEW r \in Record, r.done <= r.total,
           NEW evs \in SUBSET Event, FileLoop(j, r, evs)
    PROVE  /\ SemTypeOK' /\ CountsOK'
           /\ rec' \in [Jobs -> Record] /\ pc' \in [Jobs -> Place]
           /\ events' \in [Jobs -> SUBSET Event] /\ results' \subseteq Jobs
           /\ stats' = stats
<1> DEFINE c == [r EXCEPT !.status = "CANCELLED"]
<1>1. c \in Record /\ c.done = r.done /\ c.total = r.total
  BY DEF Record, JobStatus, Terminal
<1>2. r.done \in Nat /\ r.total \in Nat
  BY MaxFilesAssumption DEF Record
<1>3. stats' = stats
  BY DEF FileLoop
<1>4. SemTypeOK'
  BY SemStep DEF FileLoop, Leave, TypeInv
<1>5. events' \in [Jobs -> SUBSET Event] /\ results' \subseteq Jobs
  <2>1. \A k \in Jobs : events[k] \in SUBSET Event
    BY DEF TypeInv
  <2>2. evs \cup {"job_cancelled"} \in SUBSET Event
    BY DEF Event
  <2>3. \E new \in SUBSET Event : events' = [events EXCEPT ![j] = @ \cup new]
    BY <2>2 DEF FileLoop, Publish
  <2>4. events' \in [Jobs -> SUBSET Event]
    BY <2>1, <2>3 DEF TypeInv
  <2>5. results' \subseteq Jobs
    BY DEF FileLoop, StoreResult, TypeInv
  <2> QED
    BY <2>4, <2>5
<1>6. pc' \in [Jobs -> Place]
  BY DEF FileLoop, Leave, Goto, Place, Working, Ended, TypeInv
<1>7. rec' \in [Jobs -> Record]
  BY <1>1 DEF FileLoop, SetRecord, TypeInv
<1>8. CountsOK'
  <2> USE <1>1, <1>2 DEF TypeInv, CountsOK, Unplanned
  <2>1. CASE pc' = [pc EXCEPT ![j] = "done"] /\ rec' = [rec EXCEPT ![j] = c]
    BY <2>1
  <2>2. CASE /\ pc' = [pc EXCEPT ![j] = "processing"]
             /\ rec' = [rec EXCEPT ![j] = r] /\ r.done < r.total
    BY <2>2
  <2>3. CASE pc' = [pc EXCEPT ![j] = "savingResult"] /\ rec' = [rec EXCEPT ![j] = r]
    BY <2>3
  <2> QED
    BY <2>1, <2>2, <2>3 DEF FileLoop, Leave, Goto, SetRecord
<1> QED
  BY <1>3, <1>4, <1>5, <1>6, <1>7, <1>8

\* The way into the except block, from any place.
LEMMA FailType ==
    ASSUME TypeInv, NEW j \in Jobs, Fail(j)
    PROVE  /\ SemTypeOK' /\ CountsOK'
           /\ rec' \in [Jobs -> Record] /\ pc' \in [Jobs -> Place]
           /\ cached' \in [Jobs -> {"absent", "live", "copy"}]
           /\ copy' \in [Jobs -> Record] /\ cleared' \subseteq Jobs
           /\ UNCHANGED <<events, results, stats>>
<1> DEFINE r == [rec[j] EXCEPT !.status = "FAILED"]
<1>1. rec[j] \in Record
  BY DEF TypeInv
<1>2. r \in Record /\ r.done = rec[j].done /\ r.total = rec[j].total
  BY <1>1 DEF Record, JobStatus, Terminal
<1>3. rec' = [rec EXCEPT ![j] = r] /\ pc' = [pc EXCEPT ![j] = "persistFailed"]
  BY DEF Fail, SetRecord, Goto
<1>4. CountsOK'
  BY <1>2, <1>3 DEF CountsOK, Unplanned, TypeInv
<1>5. SemTypeOK' /\ UNCHANGED <<events, results, stats>>
  BY SemStep DEF Fail, TypeInv
<1>6. rec' \in [Jobs -> Record] /\ pc' \in [Jobs -> Place]
  BY <1>2, <1>3 DEF Place, Working, TypeInv
<1>7. cached' \in [Jobs -> {"absent", "live", "copy"}] /\ copy' \in [Jobs -> Record] /\ cleared' \subseteq Jobs
  BY NoRecordType DEF Fail, StoreLive, TypeInv
<1> QED
  BY <1>4, <1>5, <1>6, <1>7

\* The bucket after an upload of the worker's record or of the result.
LEMMA UploadType ==
    ASSUME StoreTypeOK, NEW j \in Jobs, NEW r \in Record, NEW o \in UploadOutcome,
           StatusUploaded(j, r, o) \/ ResultUploaded(j, o)
    PROVE  /\ gcsStatus' \in [Jobs -> Record] /\ gcsResult' \subseteq Jobs
           /\ recent' \subseteq Jobs
BY DEF StatusUploaded, ResultUploaded

\* A GET request that goes to the bucket.
LEMMA ReadType ==
    ASSUME StoreTypeOK, ReadThrough
    PROVE  StoreTypeOK'
<1> USE DEF memoryVars, bucketVars
<1>1. ASSUME NEW j \in Polled, GetMisses(j) \/ GetResultMisses(j)
      PROVE  StoreTypeOK'
  <2>1. [job |-> j, read |-> FALSE, doc |-> NoRecord] \in StatusLoad
    BY NoRecordType, PolledAssumption DEF StatusLoad
  <2>2. [job |-> j, read |-> FALSE, hit |-> FALSE] \in ResultLoad
    BY PolledAssumption DEF ResultLoad
  <2> QED
    BY <1>1, <2>1, <2>2 DEF GetMisses, GetResultMisses
<1>2. ASSUME NEW l \in statusLoads, StatusRead(l) \/ GetReturns(l)
      PROVE  StoreTypeOK'
  <2>1. l \in StatusLoad /\ l.job \in Jobs /\ l.doc \in Record
    BY DEF StatusLoad
  <2>2. CASE StatusRead(l)
    <3>1. [l EXCEPT !.read = TRUE, !.doc = gcsStatus[l.job]] \in StatusLoad
      BY <2>1 DEF StatusLoad
    <3> QED
      BY <2>2, <3>1 DEF StatusRead
  <2>3. CASE GetReturns(l)
    BY <2>1, <2>3 DEF GetReturns
  <2> QED
    BY <1>2, <2>2, <2>3
<1>3. ASSUME NEW l \in resultLoads, ResultRead(l) \/ GetResultReturns(l)
      PROVE  StoreTypeOK'
  <2>1. l \in ResultLoad /\ l.job \in Jobs
    BY DEF ResultLoad
  <2>2. CASE ResultRead(l)
    <3>1. \A h \in BOOLEAN : [l EXCEPT !.read = TRUE, !.hit = h] \in ResultLoad
      BY <2>1 DEF ResultLoad
    <3>2. (l.job \in gcsResult) \in BOOLEAN
      OBVIOUS
    <3>3. [l EXCEPT !.read = TRUE, !.hit = (l.job \in gcsResult)] \in ResultLoad
      BY <3>1, <3>2
    <3> QED
      BY <2>2, <3>3 DEF ResultRead
  <2>3. CASE GetResultReturns(l)
    BY <2>1, <2>3 DEF GetResultReturns
  <2> QED
    BY <1>3, <2>2, <2>3
<1>4. CASE LoadFails
  BY <1>4 DEF LoadFails
<1> QED
  BY <1>1, <1>2, <1>3, <1>4 DEF ReadThrough

LEMMA ChargeType ==
    ASSUME faults \in Nat, clears \in Nat, crashes \in Nat,
           NEW o \in UploadOutcome, Charge(o)
    PROVE  faults' \in Nat /\ clears' \in Nat /\ crashes' \in Nat
BY DEF Charge

-----------------------------------------------------------------------------
(* Type correctness.                                                       *)

LEMMA TypeNext == TypeInv /\ [Next]_vars => TypeInv'
<1> SUFFICES ASSUME TypeInv, [Next]_vars
             PROVE  TypeInv'
  OBVIOUS
<1> USE DEF TypeInv
<1>a. ASSUME NEW j \in Jobs
      PROVE  rec[j] \in Record /\ rec[j].done \in Nat /\ rec[j].total \in Nat
  BY MaxFilesAssumption DEF Record
<1>b. ASSUME NEW j \in Jobs, NEW evs \in SUBSET Event, Publish(j, evs)
      PROVE  events' \in [Jobs -> SUBSET Event]
  BY <1>b DEF Publish
<1>1. ASSUME NEW j \in Jobs, Submit(j)
      PROVE  TypeInv'
  <2> DEFINE r == [NoRecord EXCEPT !.status = "QUEUED"]
  <2>1. r \in Record /\ r.done = 0 /\ r.total = 0
    BY NoRecordType DEF Record, JobStatus
  <2>2. CountsOK'
    BY <1>1, <2>1 DEF Submit, SetRecord, Goto, CountsOK, Unplanned
  <2>3. rec' \in [Jobs -> Record] /\ pc' \in [Jobs -> Place]
    BY <1>1, <2>1 DEF Submit, SetRecord, Goto, Place
  <2>4. /\ cached' \in [Jobs -> {"absent", "live", "copy"}]
        /\ copy' \in [Jobs -> Record] /\ cleared' \subseteq Jobs
    BY <1>1, NoRecordType DEF Submit, StoreLive
  <2> QED
    BY <1>1, <2>2, <2>3, <2>4 DEF Submit, loadVars, bucketVars, semVars, budgetVars
<1>2. ASSUME NEW j \in Jobs, NEW o \in UploadOutcome, Registered(j, o)
      PROVE  TypeInv'
  <2>1. pc' \in [Jobs -> Place] /\ CountsOK'
    BY <1>2 DEF Registered, Goto, CountsOK, Unplanned, Place, Queueing, Ended
  <2>2. events' \in [Jobs -> SUBSET Event]
    BY <1>2, <1>b DEF Registered, Event
  <2> QED
    BY <1>2, <1>a, <2>1, <2>2, UploadType, ChargeType DEF Registered, loadVars, semVars
<1>3. ASSUME NEW j \in Jobs, Begin(j), pc[j] \in Queueing
      PROVE  /\ CountsOK' /\ rec' \in [Jobs -> Record] /\ pc' \in [Jobs -> Place]
             /\ events' \in [Jobs -> SUBSET Event]
             /\ cached' \in [Jobs -> {"absent", "live", "copy"}]
             /\ copy' \in [Jobs -> Record] /\ cleared' \subseteq Jobs
  <2> DEFINE r == [rec[j] EXCEPT !.status = "RUNNING"]
  <2>1. r \in Record /\ r.done = rec[j].done /\ r.total = rec[j].total
    BY <1>a DEF Record, JobStatus
  <2>2. rec' \in [Jobs -> Record] /\ pc' \in [Jobs -> Place]
    BY <1>3, <2>1 DEF Begin, SetRecord, Goto, Place, Working
  <2>3. CountsOK'
    BY <1>3, <1>a, <2>1 DEF Begin, SetRecord, Goto, CountsOK, Unplanned, Queueing
  <2>4. events' \in [Jobs -> SUBSET Event]
    BY <1>3, <1>b DEF Begin, Event
  <2>5. /\ cached' \in [Jobs -> {"absent", "live", "copy"}]
        /\ copy' \in [Jobs -> Record] /\ cleared' \subseteq Jobs
    BY <1>3, NoRecordType DEF Begin, StoreLive
  <2> QED
    BY <2>2, <2>3, <2>4, <2>5
<1>4. ASSUME NEW j \in Jobs, Dispatch(j)
      PROVE  TypeInv'
  <2>1. SemTypeOK'
    BY <1>4, SemStep DEF Dispatch
  <2>2. CASE AcquireNow /\ Begin(j)
    BY <1>3, <1>4, <2>1, <2>2 DEF Dispatch, Queueing, loadVars, bucketVars, budgetVars
  <2>3. CASE Goto(j, "waiting") /\ UNCHANGED <<rec, events, cached, copy, cleared>>
    <3>1. pc' \in [Jobs -> Place] /\ CountsOK'
      BY <1>4, <2>3 DEF Dispatch, Goto, CountsOK, Unplanned, Place, Queueing
    <3> QED
      BY <1>4, <2>1, <2>3, <3>1 DEF Dispatch, loadVars, bucketVars, budgetVars
  <2> QED
    BY <1>4, <2>2, <2>3 DEF Dispatch
<1>5. ASSUME NEW j \in Jobs, Resume(j)
      PROVE  TypeInv'
  <2>1. SemTypeOK'
    BY <1>5, SemStep DEF Resume
  <2> QED
    BY <1>3, <1>5, <2>1 DEF Resume, Queueing, loadVars, bucketVars, budgetVars
<1>6. ASSUME NEW j \in Jobs, NEW o \in UploadOutcome, StartPersisted(j, o)
      PROVE  TypeInv'
  <2>1. SemTypeOK'
    BY <1>6, SemStep DEF StartPersisted, Leave
  <2>2. pc' \in [Jobs -> Place] /\ CountsOK'
    BY <1>6 DEF StartPersisted, Leave, Goto, CountsOK, Unplanned, Place, Working, Ended
  <2> QED
    BY <1>6, <1>a, <2>1, <2>2, UploadType, ChargeType DEF StartPersisted, loadVars
<1>7. ASSUME NEW j \in Jobs, NEW n \in 1 .. MaxFiles, Planned(j, n)
      PROVE  TypeInv'
  <2> DEFINE r == [rec[j] EXCEPT !.total = n]
  <2>0. rec[j].done = 0 /\ n \in 0 .. MaxFiles /\ n \in Nat /\ n > 0
    BY <1>7, <1>a, MaxFilesAssumption DEF Planned, CountsOK, Unplanned
  <2>1. r \in Record /\ r.done = 0 /\ r.total = n /\ n \in Nat /\ n > 0
    <3>1. rec[j] \in Record
      BY <1>a
    <3>2. r \in Record
      BY <2>0, <3>1 DEF Record
    <3>3. r.done = rec[j].done /\ r.total = n
      BY <3>1 DEF Record
    <3> QED  BY <2>0, <3>2, <3>3
  <2>2. /\ cached' \in [Jobs -> {"absent", "live", "copy"}]
        /\ copy' \in [Jobs -> Record] /\ cleared' \subseteq Jobs
    BY <1>7, NoRecordType DEF Planned, StoreLive
  <2>3. CASE Throttled(j)
    <3>1. FileLoop(j, r, {}) /\ {} \in SUBSET Event
      BY <1>7, <2>3 DEF Planned
    <3>2. r.done <= r.total
      BY <2>1
    <3>3. /\ SemTypeOK' /\ CountsOK'
          /\ rec' \in [Jobs -> Record] /\ pc' \in [Jobs -> Place]
          /\ events' \in [Jobs -> SUBSET Event] /\ results' \subseteq Jobs
          /\ stats' = stats
      BY <2>1, <3>1, <3>2, FileLoopType
    <3> QED
      BY <1>7, <2>2, <3>3 DEF Planned, loadVars, bucketVars, budgetVars
  <2>4. CASE ~Throttled(j)
    <3>1. rec' = [rec EXCEPT ![j] = r] /\ pc' = [pc EXCEPT ![j] = "persistTotal"]
      BY <1>7, <2>4 DEF Planned, SetRecord, Goto
    <3>2. rec' \in [Jobs -> Record] /\ pc' \in [Jobs -> Place] /\ CountsOK'
      BY <2>1, <3>1 DEF Place, Working, CountsOK, Unplanned
    <3> QED
      BY <1>7, <2>2, <2>4, <3>2 DEF Planned, semVars, loadVars, bucketVars, budgetVars
  <2> QED
    BY <2>3, <2>4
<1>8. ASSUME NEW j \in Jobs, PlanFails(j) \/ ProcessFails(j)
      PROVE  TypeInv'
  BY <1>8, FailType DEF PlanFails, ProcessFails, loadVars, bucketVars, budgetVars
<1>9. ASSUME NEW j \in Jobs, NEW o \in UploadOutcome,
             TotalPersisted(j, o) \/ ProgressPersisted(j, o)
      PROVE  TypeInv'
  <2>1. /\ gcsStatus' \in [Jobs -> Record] /\ gcsResult' \subseteq Jobs
        /\ recent' \subseteq Jobs
        /\ faults' \in Nat /\ clears' \in Nat /\ crashes' \in Nat
    BY <1>9, <1>a, UploadType, ChargeType DEF TotalPersisted, ProgressPersisted
  <2>2. ASSUME NEW evs \in SUBSET Event, FileLoop(j, rec[j], evs),
               UNCHANGED <<cached, copy, cleared>>
        PROVE  TypeInv'
    <3>1. rec[j].done <= rec[j].total
      BY DEF CountsOK
    <3> QED
      BY <1>9, <1>a, <2>1, <2>2, <3>1, FileLoopType
      DEF TotalPersisted, ProgressPersisted, loadVars
  <2>3. CASE Fail(j)
    BY <1>9, <2>1, <2>3, FailType DEF TotalPersisted, ProgressPersisted, loadVars
  <2>4. {} \in SUBSET Event /\ {"job_progress"} \in SUBSET Event
    BY DEF Event
  <2> QED
    BY <1>9, <2>2, <2>3, <2>4 DEF TotalPersisted, ProgressPersisted
<1>10. ASSUME NEW j \in Jobs, Processed(j)
       PROVE  TypeInv'
  <2> DEFINE r == [rec[j] EXCEPT !.done = @ + 1]
  <2>0. rec[j].done < rec[j].total /\ rec[j].total \in 0 .. MaxFiles
    BY <1>10, <1>a DEF Processed, CountsOK, Record
  <2>n. rec[j].done + 1 \in 0 .. MaxFiles /\ rec[j].done + 1 <= rec[j].total
    BY <1>a, <2>0, MaxFilesAssumption
  <2>1. /\ r \in Record /\ r.done = rec[j].done + 1 /\ r.total = rec[j].total
        /\ r.done <= r.total
    BY <1>a, <2>n DEF Record
  <2>2. /\ cached' \in [Jobs -> {"absent", "live", "copy"}]
        /\ copy' \in [Jobs -> Record] /\ cleared' \subseteq Jobs
    BY <1>10, NoRecordType DEF Processed, StoreLive
  <2>3. CASE Throttled(j)
    <3>1. FileLoop(j, r, {"job_progress"}) /\ {"job_progress"} \in SUBSET Event
      BY <1>10, <2>3 DEF Processed, Event
    <3> QED
      BY <1>10, <2>1, <2>2, <3>1, FileLoopType DEF Processed, loadVars, bucketVars, budgetVars
  <2>4. CASE ~Throttled(j)
    <3>1. rec' = [rec EXCEPT ![j] = r] /\ pc' = [pc EXCEPT ![j] = "persistProgress"]
      BY <1>10, <2>4 DEF Processed, SetRecord, Goto
    <3>2. rec' \in [Jobs -> Record] /\ pc' \in [Jobs -> Place] /\ CountsOK'
      BY <2>1, <3>1 DEF Place, Working, CountsOK, Unplanned
    <3> QED
      BY <1>10, <2>2, <2>4, <3>2 DEF Processed, semVars, loadVars, bucketVars, budgetVars
  <2> QED
    BY <2>3, <2>4
<1>11. ASSUME NEW j \in Jobs, NEW o \in UploadOutcome, ResultSaved(j, o)
       PROVE  TypeInv'
  <2> DEFINE r == [rec[j] EXCEPT !.status = "SUCCEEDED", !.summary = TRUE]
  <2>1. /\ gcsStatus' \in [Jobs -> Record] /\ gcsResult' \subseteq Jobs
        /\ recent' \subseteq Jobs
        /\ faults' \in Nat /\ clears' \in Nat /\ crashes' \in Nat
    BY <1>11, <1>a, UploadType, ChargeType DEF ResultSaved
  <2>2. CASE o = "ok"
    <3>1. r \in Record /\ r.done = rec[j].done /\ r.total = rec[j].total
      BY <1>a DEF Record, JobStatus, Terminal
    <3>2. rec' = [rec EXCEPT ![j] = r] /\ pc' = [pc EXCEPT ![j] = "persistSuccess"]
      BY <1>11, <2>2 DEF ResultSaved, SetRecord, Goto
    <3>3. rec' \in [Jobs -> Record] /\ pc' \in [Jobs -> Place] /\ CountsOK'
      BY <3>1, <3>2 DEF Place, Working, CountsOK, Unplanned
    <3>4. /\ cached' \in [Jobs -> {"absent", "live", "copy"}]
          /\ copy' \in [Jobs -> Record] /\ cleared' \subseteq Jobs
      <4>1. StoreLive(j)
        BY <1>11, <2>2 DEF ResultSaved
      <4> QED  BY <4>1, NoRecordType DEF StoreLive
    <3> QED
      BY <1>11, <2>1, <2>2, <3>3, <3>4 DEF ResultSaved, semVars, loadVars
  <2>3. CASE o # "ok"
    BY <1>11, <2>1, <2>3, FailType DEF ResultSaved, loadVars
  <2> QED
    BY <2>2, <2>3
<1>12. ASSUME NEW j \in Jobs, NEW o \in UploadOutcome, SuccessPersisted(j, o)
       PROVE  TypeInv'
  <2>1. /\ gcsStatus' \in [Jobs -> Record] /\ gcsResult' \subseteq Jobs
        /\ recent' \subseteq Jobs
        /\ faults' \in Nat /\ clears' \in Nat /\ crashes' \in Nat
    BY <1>12, <1>a, UploadType, ChargeType DEF SuccessPersisted
  <2>2. CASE o = "ok"
    <3>1. SemTypeOK'
      BY <1>12, <2>2, SemStep DEF SuccessPersisted, Leave
    <3>2. pc' \in [Jobs -> Place] /\ CountsOK'
      BY <1>12, <2>2 DEF SuccessPersisted, Leave, Goto, CountsOK, Unplanned, Place, Ended
    <3>3. events' \in [Jobs -> SUBSET Event]
      BY <1>12, <2>2, <1>b DEF SuccessPersisted, Event
    <3>4. stats' \in [ok : Nat, failed : Nat]
      BY <1>12, <2>2 DEF SuccessPersisted
    <3> QED
      BY <1>12, <2>1, <2>2, <3>1, <3>2, <3>3, <3>4 DEF SuccessPersisted, loadVars
  <2>3. CASE o # "ok"
    BY <1>12, <2>1, <2>3, FailType DEF SuccessPersisted, loadVars
  <2> QED
    BY <2>2, <2>3
<1>13. ASSUME NEW j \in Jobs, NEW o \in UploadOutcome, FailurePersisted(j, o)
       PROVE  TypeInv'
  <2>1. SemTypeOK'
    BY <1>13, SemStep DEF FailurePersisted, Leave
  <2>2. pc' \in [Jobs -> Place] /\ CountsOK'
    BY <1>13, SMTT(30) DEF FailurePersisted, Leave, Goto, CountsOK, Unplanned, Place, Ended
  <2>3. events' \in [Jobs -> SUBSET Event]
    BY <1>13, <1>b DEF FailurePersisted, Event
  <2>4. stats' \in [ok : Nat, failed : Nat]
    BY <1>13 DEF FailurePersisted
  <2> QED
    BY <1>13, <1>a, <2>1, <2>2, <2>3, <2>4, UploadType, ChargeType
    DEF FailurePersisted, loadVars
<1>14. ASSUME NEW j \in Jobs, Cancel(j)
       PROVE  TypeInv'
  <2>1. asked' \in [Jobs -> {"no", "ahead", "dropped"}]
    BY <1>14 DEF Cancel
  <2> QED
    BY <1>14, <2>1
    DEF Cancel, MarkCancelled, semVars, workerVars, budgetVars, loadVars, bucketVars, CountsOK
<1>15. ASSUME NEW j \in Jobs, Time(j)
       PROVE  TypeInv'
  BY <1>15
  DEF Time, ThrottleElapses, semVars, workerVars, budgetVars, loadVars, bucketVars, CountsOK
<1>16. CASE Clear
  <2>1. asked' \in [Jobs -> {"no", "ahead", "dropped"}]
    BY <1>16 DEF Clear
  <2> QED
    BY <1>16, <2>1, NoRecordType
    DEF Clear, ClearCaches, semVars, workerVars, loadVars, bucketVars, CountsOK
<1>17. CASE Read
  BY <1>17, ReadType DEF Read, semVars, workerVars, budgetVars, CountsOK
<1>18. CASE Crash
  <2>1. PICK landed \in SUBSET Jobs :
           /\ gcsStatus' = [j \in Jobs |-> IF j \in landed /\ pc[j] \in StatusInFlight
                                           THEN rec[j] ELSE gcsStatus[j]]
           /\ gcsResult' = gcsResult \cup {j \in landed : pc[j] = "savingResult"}
    BY <1>18 DEF Crash
  <2>2. gcsStatus' \in [Jobs -> Record] /\ gcsResult' \subseteq Jobs
    BY <2>1
  <2>3. pc' \in [Jobs -> Place] /\ rec' \in [Jobs -> Record] /\ CountsOK'
    BY <1>18, NoRecordType DEF Crash, Place, Ended, CountsOK, Unplanned
  <2>4. SemTypeOK'
    BY <1>18, SemStep DEF Crash
  <2> QED
    BY <1>18, <2>2, <2>3, <2>4, NoRecordType DEF Crash, LoseMemory
<1>19. CASE UNCHANGED vars
  BY <1>19 DEF vars, semVars, memoryVars, loadVars, bucketVars, workerVars, budgetVars,
               CountsOK
<1> QED
  BY <1>1, <1>2, <1>4, <1>5, <1>6, <1>7, <1>8, <1>9, <1>10, <1>11, <1>12, <1>13,
     <1>14, <1>15, <1>16, <1>17, <1>18, <1>19
  DEF Next, Worker

\* Every variable keeps its type, and the counts of a job stay within its
\* plan: run() never reports more files processed than it planned.
THEOREM TypeCorrect == Spec => []TypeOK
<1>1. TypeInv => TypeOK
  BY DEF TypeInv
<1> QED
  BY <1>1, TypeInit, TypeNext, PTL DEF Spec

HIDE DEF TypeOK, SemTypeOK, StoreTypeOK

-----------------------------------------------------------------------------
(***************************************************************************)
(* One job.  The safety properties speak of one job at a time, so the case *)
(* analysis over the actions is made once: lemma OneJob reduces every step *)
(* of the service to what it does to one job k, which is a step of its own *)
(* worker (LocalStep), a step of somebody else (Stays) or the crash (Dies).*)
(* The inductive invariant JobInv is then preserved by these three forms.  *)
(***************************************************************************)

\* What a step does to the two documents of job k.
Keeps(k) == gcsStatus'[k] = gcsStatus[k] /\ (k \in gcsResult' <=> k \in gcsResult)
Puts(k) == gcsStatus'[k] = rec[k] /\ (k \in gcsResult' <=> k \in gcsResult)
MayPut(k) == Keeps(k) \/ Puts(k)

\* What a step does to the record of job k.
Remains(k) == rec'[k] = rec[k]
Becomes(k, s) == rec'[k] = [rec[k] EXCEPT !.status = s]

Moves(k, from, to) == pc[k] \in from /\ pc'[k] \in to

Fails(k, from) == Moves(k, from, {"persistFailed"}) /\ Becomes(k, "FAILED")

Loops(k, r) ==
    \/ /\ pc'[k] = "done" /\ r.done < r.total
       /\ rec'[k] = [r EXCEPT !.status = "CANCELLED"]
    \/ pc'[k] = "processing" /\ r.done < r.total /\ k \notin cancellations /\ rec'[k] = r
    \/ pc'[k] = "savingResult" /\ r.done = r.total /\ rec'[k] = r

\* From the submission to the first upload of run(), or to the listing.
Queues(k) ==
    \/ /\ Moves(k, {"idle"}, {"registering"}) /\ Keeps(k)
       /\ rec'[k] = [NoRecord EXCEPT !.status = "QUEUED"]
    \/ Moves(k, {"registering"}, {"dispatched"}) /\ Remains(k) /\ Puts(k)
    \/ Moves(k, {"registering"}, {"rejected"}) /\ Remains(k) /\ MayPut(k)
    \/ Moves(k, {"dispatched"}, {"waiting"}) /\ Remains(k) /\ Keeps(k)
    \/ Moves(k, Queueing, {"planning", "persistStart"}) /\ Becomes(k, "RUNNING") /\ Keeps(k)
    \/ Moves(k, {"persistStart"}, {"planning"}) /\ Remains(k) /\ Puts(k)
    \/ Moves(k, {"persistStart"}, {"escaped"}) /\ Remains(k) /\ MayPut(k)

\* The plan or one more file is counted.
Counts(k, r) ==
    /\ Keeps(k)
    /\ \/ /\ pc[k] = "planning" /\ \E n \in 1 .. MaxFiles : r = [rec[k] EXCEPT !.total = n]
          /\ Loops(k, r) \/ (pc'[k] = "persistTotal" /\ rec'[k] = r)
       \/ /\ pc[k] = "processing" /\ r = [rec[k] EXCEPT !.done = @ + 1]
          /\ Loops(k, r) \/ (pc'[k] = "persistProgress" /\ rec'[k] = r)

\* The loop goes on after an upload.
Continues(k) == pc[k] \in {"persistTotal", "persistProgress"} /\ Loops(k, rec[k]) /\ Puts(k)

\* The except block takes over.
Breaks(k) ==
    \/ Fails(k, {"planning", "processing"}) /\ Keeps(k)
    \/ Fails(k, {"persistTotal", "persistProgress", "persistSuccess"}) /\ MayPut(k)
    \/ /\ Fails(k, {"savingResult"}) /\ gcsStatus'[k] = gcsStatus[k]
       /\ k \in gcsResult => k \in gcsResult'

\* The result is in the bucket.
Saves(k) ==
    /\ Moves(k, {"savingResult"}, {"persistSuccess"})
    /\ rec'[k] = [rec[k] EXCEPT !.status = "SUCCEEDED", !.summary = TRUE]
    /\ gcsStatus'[k] = gcsStatus[k] /\ k \in gcsResult'

\* run() returns after its last upload, or raises.
Ends(k) ==
    /\ Remains(k)
    /\ \/ Moves(k, {"persistSuccess", "persistFailed"}, {"done"}) /\ Puts(k)
       \/ Moves(k, {"persistFailed"}, {"escaped"}) /\ MayPut(k)

\* A step of the request or the worker of job k.
LocalStep(k) ==
    /\ asked'[k] = asked[k]
    /\ k \in cancellations' <=> k \in cancellations
    /\ \/ Queues(k) \/ Continues(k) \/ Breaks(k) \/ Saves(k) \/ Ends(k)
       \/ \E r : Counts(k, r)

\* A step that is none of the worker's: at most a cancellation or a clear.
Stays(k) ==
    /\ pc'[k] = pc[k] /\ Remains(k) /\ Keeps(k)
    /\ \/ asked'[k] = asked[k] /\ (k \in cancellations => k \in cancellations')
       \/ asked'[k] = "ahead" /\ CheckAhead(k) /\ k \in cancellations'
       \/ asked'[k] # "ahead"

\* The crash of the process.
Dies(k) ==
    /\ pc'[k] = IF pc[k] = "idle" THEN "idle" ELSE "lost"
    /\ rec'[k] = NoRecord
    /\ asked'[k] # "ahead"
    /\ \/ gcsStatus'[k] = gcsStatus[k]
       \/ pc[k] \in StatusInFlight /\ gcsStatus'[k] = rec[k]
    /\ \/ k \in gcsResult' <=> k \in gcsResult
       \/ pc[k] = "savingResult" /\ k \in gcsResult'

LEMMA OneJob ==
    ASSUME TypeInv, [Next]_vars, NEW k \in Jobs
    PROVE  LocalStep(k) \/ Stays(k) \/ Dies(k)
<1> USE DEF TypeInv, TypeOK, StoreTypeOK
<1>u. ASSUME NEW j \in Jobs, NEW o \in UploadOutcome, StatusUploaded(j, rec[j], o)
      PROVE  /\ j # k => Keeps(k)
             /\ j = k => MayPut(k)
             /\ j = k /\ o = "ok" => Puts(k)
  BY <1>u DEF StatusUploaded, Written, Keeps, Puts, MayPut
<1>l. ASSUME NEW j \in Jobs, NEW r, NEW evs, FileLoop(j, r, evs)
      PROVE  /\ j # k => pc'[k] = pc[k] /\ Remains(k)
             /\ j = k => Loops(k, r)
  BY <1>l DEF FileLoop, Cancelled, Loops, Leave, Goto, SetRecord, Remains
<1>f. ASSUME NEW j \in Jobs, Fail(j)
      PROVE  /\ j # k => pc'[k] = pc[k] /\ Remains(k)
             /\ j = k => pc'[k] = "persistFailed" /\ Becomes(k, "FAILED")
  BY <1>f DEF Fail, Goto, SetRecord, Remains, Becomes
<1>b. ASSUME NEW j \in Jobs, Begin(j)
      PROVE  /\ j # k => pc'[k] = pc[k] /\ Remains(k)
             /\ j = k => pc'[k] \in {"planning", "persistStart"} /\ Becomes(k, "RUNNING")
  BY <1>b DEF Begin, Goto, SetRecord, Remains, Becomes
<1>1. ASSUME NEW j \in Jobs, Submit(j)
      PROVE  LocalStep(k) \/ Stays(k)
  BY <1>1 DEF Submit, Goto, SetRecord, bucketVars, LocalStep, Queues, Stays, Moves, Keeps, Remains
<1>2. ASSUME NEW j \in Jobs, NEW o \in UploadOutcome, Registered(j, o)
      PROVE  LocalStep(k) \/ Stays(k)
  BY <1>2, <1>u DEF Registered, Goto, LocalStep, Queues, Stays, Moves, Remains
<1>3. ASSUME NEW j \in Jobs, Dispatch(j) \/ Resume(j)
      PROVE  LocalStep(k) \/ Stays(k)
  <2>1. CASE Begin(j)
    BY <1>3, <1>b, <2>1
    DEF Dispatch, Resume, bucketVars, LocalStep, Queues, Stays, Moves, Keeps, Queueing
  <2>2. CASE pc[j] = "dispatched" /\ Goto(j, "waiting") /\ UNCHANGED rec
    BY <1>3, <2>2
    DEF Dispatch, Resume, Goto, bucketVars, LocalStep, Queues, Stays, Moves, Keeps, Remains
  <2> QED
    BY <1>3, <2>1, <2>2 DEF Dispatch, Resume
<1>4. ASSUME NEW j \in Jobs, NEW o \in UploadOutcome, StartPersisted(j, o)
      PROVE  LocalStep(k) \/ Stays(k)
  BY <1>4, <1>u DEF StartPersisted, Leave, Goto, LocalStep, Queues, Stays, Moves, Remains
<1>5. ASSUME NEW j \in Jobs, NEW n \in 1 .. MaxFiles, Planned(j, n)
      PROVE  LocalStep(k) \/ Stays(k)
  <2>1. Keeps(k) /\ pc[j] = "planning" /\ UNCHANGED <<asked, cancellations>>
    BY <1>5 DEF Planned, Keeps, bucketVars
  <2>2. CASE Throttled(j)
    BY <1>5, <1>l, <2>1, <2>2 DEF Planned, LocalStep, Counts, Stays
  <2>3. CASE ~Throttled(j)
    BY <1>5, <2>1, <2>3 DEF Planned, SetRecord, Goto, LocalStep, Counts, Stays, Remains
  <2> QED
    BY <2>2, <2>3
<1>6. ASSUME NEW j \in Jobs, PlanFails(j) \/ ProcessFails(j)
      PROVE  LocalStep(k) \/ Stays(k)
  BY <1>6, <1>f
  DEF PlanFails, ProcessFails, bucketVars, LocalStep, Breaks, Stays, Moves, Keeps, Fails
<1>7. ASSUME NEW j \in Jobs, NEW o \in UploadOutcome,
             TotalPersisted(j, o) \/ ProgressPersisted(j, o)
      PROVE  LocalStep(k) \/ Stays(k)
  <2>1. CASE o = "ok"
    BY <1>7, <1>u, <1>l, <2>1 DEF TotalPersisted, ProgressPersisted, LocalStep, Continues, Breaks, Stays
  <2>2. CASE o # "ok"
    BY <1>7, <1>u, <1>f, <2>2
    DEF TotalPersisted, ProgressPersisted, LocalStep, Continues, Breaks, Stays, Fails, Moves
  <2> QED
    BY <2>1, <2>2
<1>8. ASSUME NEW j \in Jobs, Processed(j)
      PROVE  LocalStep(k) \/ Stays(k)
  <2>1. Keeps(k) /\ pc[j] = "processing" /\ UNCHANGED <<asked, cancellations>>
    BY <1>8 DEF Processed, Keeps, bucketVars
  <2>2. CASE Throttled(j)
    BY <1>8, <1>l, <2>1, <2>2 DEF Processed, LocalStep, Counts, Stays
  <2>3. CASE ~Throttled(j)
    BY <1>8, <2>1, <2>3 DEF Processed, SetRecord, Goto, LocalStep, Counts, Stays, Remains
  <2> QED
    BY <2>2, <2>3
<1>9. ASSUME NEW j \in Jobs, NEW o \in UploadOutcome, ResultSaved(j, o)
      PROVE  LocalStep(k) \/ Stays(k)
  <2>1. CASE o = "ok"
    <3> DEFINE r == [rec[j] EXCEPT !.status = "SUCCEEDED", !.summary = TRUE]
    <3>1. /\ pc[j] = "savingResult" /\ pc' = [pc EXCEPT ![j] = "persistSuccess"]
          /\ rec' = [rec EXCEPT ![j] = r]
          /\ gcsStatus' = gcsStatus /\ gcsResult' = gcsResult \cup {j}
          /\ UNCHANGED <<asked, cancellations>>
      BY <1>9, <2>1 DEF ResultSaved, ResultUploaded, Written, SetRecord, Goto
    <3>2. CASE j = k
      BY <3>1, <3>2 DEF LocalStep, Saves, Moves
    <3>3. CASE j # k
      BY <3>1, <3>3 DEF Stays, Keeps, Remains
    <3> QED
      BY <3>2, <3>3
  <2>2. CASE o # "ok"
    BY <1>9, <1>f, <2>2 DEF ResultSaved, ResultUploaded, LocalStep, Saves, Breaks, Stays, Moves,
                            Keeps, Fails
  <2> QED
    BY <2>1, <2>2
<1>10. ASSUME NEW j \in Jobs, NEW o \in UploadOutcome, SuccessPersisted(j, o)
       PROVE  LocalStep(k) \/ Stays(k)
  <2>1. CASE o = "ok"
    BY <1>10, <1>u, <2>1
    DEF SuccessPersisted, Leave, Goto, LocalStep, Ends, Breaks, Stays, Moves, Remains
  <2>2. CASE o # "ok"
    BY <1>10, <1>u, <1>f, <2>2 DEF SuccessPersisted, LocalStep, Ends, Breaks, Stays, Fails, Moves
  <2> QED
    BY <2>1, <2>2
<1>11. ASSUME NEW j \in Jobs, NEW o \in UploadOutcome, FailurePersisted(j, o)
       PROVE  LocalStep(k) \/ Stays(k)
  BY <1>11, <1>u DEF FailurePersisted, Leave, Goto, LocalStep, Ends, Stays, Moves, Remains
<1>12. ASSUME NEW j \in Jobs, Cancel(j)
       PROVE  Stays(k)
  BY <1>12 DEF Cancel, MarkCancelled, workerVars, bucketVars, Stays, Keeps, Remains
<1>13. ASSUME NEW j \in Jobs, Time(j)
       PROVE  Stays(k)
  BY <1>13 DEF Time, ThrottleElapses, workerVars, bucketVars, Stays, Keeps, Remains
<1>14. CASE Clear
  BY <1>14 DEF Clear, ClearCaches, workerVars, bucketVars, Stays, Keeps, Remains
<1>15. CASE Read
  <2>1. UNCHANGED <<cancellations, bucketVars>>
    BY <1>15 DEF Read, ReadThrough, GetMisses, GetResultMisses, StatusRead, GetReturns,
                 ResultRead, GetResultReturns, LoadFails, memoryVars, bucketVars
  <2> QED
    BY <1>15, <2>1 DEF Read, workerVars, bucketVars, Stays, Keeps, Remains
<1>16. CASE Crash
  BY <1>16 DEF Crash, Dies
<1>17. CASE UNCHANGED vars
  BY <1>17 DEF vars, memoryVars, workerVars, bucketVars, Stays, Keeps, Remains
<1> QED
  BY <1>1, <1>2, <1>3, <1>4, <1>5, <1>6, <1>7, <1>8, <1>9, <1>10, <1>11, <1>12, <1>13,
     <1>14, <1>15, <1>16, <1>17
  DEF Next, Worker

-----------------------------------------------------------------------------
(* The inductive invariant, in five parts.                                 *)

Active == Queueing \cup Working

\* The status of the record goes with the place of the worker.
StatusPart(k) ==
    /\ pc[k] = "registering" => rec[k].status = "QUEUED"
    /\ pc[k] \in {"persistStart", "planning", "persistTotal", "processing",
                  "persistProgress", "savingResult"} => rec[k].status = "RUNNING"
    /\ pc[k] = "persistSuccess" => rec[k].status = "SUCCEEDED" /\ rec[k].summary
    /\ pc[k] = "persistFailed" => rec[k].status = "FAILED"

\* The counts: a file is left after the plan, none once the result is made.
LoopPart(k) ==
    /\ pc[k] = "persistTotal" => rec[k].done < rec[k].total
    /\ pc[k] \in {"processing", "persistProgress", "savingResult", "persistSuccess"}
           => rec[k].total > 0
    /\ pc[k] \in {"savingResult", "persistSuccess"} => rec[k].done = rec[k].total

\* The result is there before anything says so.
ResultPart(k) ==
    /\ k \in gcsResult => pc[k] \in {"persistSuccess", "persistFailed", "done",
                                     "escaped", "lost"}
    /\ rec[k].status = "SUCCEEDED" \/ rec[k].summary => k \in gcsResult
    /\ gcsStatus[k].status = "SUCCEEDED" => k \in gcsResult
    /\ pc[k] = "persistSuccess" => k \in gcsResult

\* The document in the bucket is an older state of the record.
DocumentPart(k) ==
    /\ pc[k] \in {"idle", "registering"} => gcsStatus[k] = NoRecord
    /\ pc[k] \in Active \ {"persistFailed"} => gcsStatus[k].status \in {"QUEUED", "RUNNING"}
    /\ pc[k] = "persistFailed" => gcsStatus[k].status \in {"QUEUED", "RUNNING", "SUCCEEDED"}
    /\ pc[k] \in Active => /\ gcsStatus[k].done <= rec[k].done
                           /\ gcsStatus[k].total \in {0, rec[k].total}
    /\ pc[k] = "done" /\ rec[k].status # "CANCELLED" => gcsStatus[k] = rec[k]

\* A cancellation that can still be obeyed stays recorded until it is.
CancelPart(k) ==
    asked[k] = "ahead" =>
        /\ k \in cancellations /\ k \notin gcsResult
        /\ CheckAhead(k) \/ pc[k] \in {"persistFailed", "rejected", "done", "escaped"}

JobInv(k) ==
    StatusPart(k) /\ LoopPart(k) /\ ResultPart(k) /\ DocumentPart(k) /\ CancelPart(k)

SafeInv == TypeInv /\ \A k \in Jobs : JobInv(k)

LEMMA SafeInit == Init => SafeInv
<1> SUFFICES ASSUME Init, NEW k \in Jobs PROVE JobInv(k)
  BY TypeInit DEF SafeInv
<1> QED
  BY DEF Init, StoreInit, JobInv, StatusPart, LoopPart, ResultPart, DocumentPart,
         CancelPart, NoRecord, Active, Queueing, Working

\* A job that nobody moves keeps its invariant.
LEMMA StaysSafe ==
    ASSUME TypeInv, NEW k \in Jobs, JobInv(k), Stays(k)
    PROVE  JobInv(k)'
<1> USE DEF JobInv, Stays, Remains, Keeps
<1>1. StatusPart(k)' /\ LoopPart(k)'
  BY DEF StatusPart, LoopPart
<1>2. ResultPart(k)' /\ DocumentPart(k)'
  BY DEF ResultPart, DocumentPart
<1>3. CheckAhead(k)' <=> CheckAhead(k)
  BY DEF CheckAhead
<1>4. CancelPart(k)'
  BY <1>3 DEF CancelPart, ResultPart, CheckAhead
<1> QED
  BY <1>1, <1>2, <1>4

\* Nothing is asked of a job that died with its process.
LEMMA DiesSafe ==
    ASSUME TypeInv, NEW k \in Jobs, JobInv(k), Dies(k)
    PROVE  JobInv(k)'
<1> USE DEF JobInv, Dies, NoRecord
<1>1. StatusPart(k)' /\ LoopPart(k)'
  BY DEF StatusPart, LoopPart
<1>2. ResultPart(k)'
  BY DEF ResultPart, StatusInFlight
<1>3. DocumentPart(k)'
  BY DEF DocumentPart, StatusInFlight, Active, Queueing, Working
<1>4. CancelPart(k)'
  BY DEF CancelPart
<1> QED
  BY <1>1, <1>2, <1>3, <1>4

\* The worker of the job takes a step.
LEMMA LocalSafe ==
    ASSUME TypeInv, NEW k \in Jobs, JobInv(k), LocalStep(k)
    PROVE  JobInv(k)'
<1>1. /\ rec[k] \in Record /\ gcsStatus[k] \in Record
      /\ rec[k].done \in Nat /\ rec[k].total \in Nat
      /\ gcsStatus[k].done \in Nat /\ gcsStatus[k].total \in Nat
  BY MaxFilesAssumption DEF TypeInv, TypeOK, StoreTypeOK, Record
<1>2. /\ rec[k].done <= rec[k].total
      /\ pc[k] \in Unplanned => rec[k].done = 0 /\ rec[k].total = 0
      /\ pc[k] = "processing" => rec[k].done < rec[k].total
  BY <1>1 DEF TypeInv, CountsOK
<1>3. asked'[k] = asked[k] /\ (k \in cancellations' <=> k \in cancellations)
  BY DEF LocalStep
<1>4. StatusPart(k) /\ LoopPart(k) /\ ResultPart(k) /\ DocumentPart(k) /\ CancelPart(k)
  BY DEF JobInv
<1>5. CASE Queues(k)
  <2> USE <1>1, <1>2, <1>3, <1>4, <1>5
      DEF Queues, Moves, Keeps, Puts, MayPut, Remains, Becomes, Queueing, Record, NoRecord
  <2>1. StatusPart(k)' /\ LoopPart(k)'
    BY DEF StatusPart, LoopPart
  <2>2. ResultPart(k)'
    BY DEF ResultPart, StatusPart
  <2>3. DocumentPart(k)'
    BY DEF DocumentPart, StatusPart, Active, Working, Unplanned
  <2>4. CancelPart(k)'
    BY DEF CancelPart, CheckAhead
  <2> QED
    BY <2>1, <2>2, <2>3, <2>4 DEF JobInv
<1>6. ASSUME NEW r, Counts(k, r)
      PROVE  JobInv(k)'
  <2>1. /\ r \in [status : {"RUNNING"}, total : Nat, done : Nat, summary : {rec[k].summary}]
        /\ r.total > 0 /\ r.done <= r.total /\ rec[k].done <= r.done
        /\ rec[k].total \in {0, r.total}
        /\ pc[k] = "planning" => r.done = 0
        /\ pc[k] = "processing" => r.done = rec[k].done + 1 /\ r.total = rec[k].total
    <3>1. CASE pc[k] = "planning"
      <4>1. PICK n \in 1 .. MaxFiles : r = [rec[k] EXCEPT !.total = n]
        BY <1>6, <3>1 DEF Counts
      <4>2. rec[k].status = "RUNNING" /\ rec[k].done = 0 /\ rec[k].total = 0
        BY <1>2, <1>4, <3>1 DEF StatusPart, Unplanned
      <4>3. n \in Nat /\ n > 0
        BY MaxFilesAssumption
      <4> QED
        BY <1>1, <3>1, <4>1, <4>2, <4>3 DEF Record
    <3>2. CASE pc[k] = "processing"
      <4>1. r = [rec[k] EXCEPT !.done = @ + 1]
        BY <1>6, <3>2 DEF Counts
      <4>2. rec[k].status = "RUNNING" /\ rec[k].done < rec[k].total
        BY <1>2, <1>4, <3>2 DEF StatusPart
      <4> QED
        BY <1>1, <3>2, <4>1, <4>2 DEF Record
    <3> QED
      BY <1>6, <3>1, <3>2 DEF Counts
  <2>2. /\ Keeps(k) /\ pc[k] \in {"planning", "processing"}
        /\ \/ Loops(k, r)
           \/ /\ rec'[k] = r
              /\ \/ pc[k] = "planning" /\ pc'[k] = "persistTotal"
                 \/ pc[k] = "processing" /\ pc'[k] = "persistProgress"
    BY <1>6 DEF Counts
  <2> USE <1>1, <1>2, <1>3, <1>4, <2>1, <2>2 DEF Keeps, Loops
  <2>3. StatusPart(k)' /\ LoopPart(k)'
    BY DEF StatusPart, LoopPart
  <2>4. ResultPart(k)'
    BY DEF ResultPart
  <2>5. DocumentPart(k)'
    BY DEF DocumentPart, Active, Working
  <2>6. CancelPart(k)'
    BY DEF CancelPart, CheckAhead, ResultPart
  <2> QED
    BY <2>3, <2>4, <2>5, <2>6 DEF JobInv
<1>7. CASE Continues(k)
  <2>1. rec[k].status = "RUNNING" /\ rec[k].total > 0 /\ Puts(k) /\ Loops(k, rec[k])
        /\ pc[k] \in {"persistTotal", "persistProgress"}
    BY <1>1, <1>4, <1>7 DEF Continues, StatusPart, LoopPart
  <2> USE <1>1, <1>2, <1>3, <1>4, <2>1 DEF Puts, Loops, Record
  <2>2. StatusPart(k)' /\ LoopPart(k)'
    BY DEF StatusPart, LoopPart
  <2>3. ResultPart(k)'
    BY DEF ResultPart
  <2>4. DocumentPart(k)'
    BY DEF DocumentPart, Active, Working
  <2>5. CancelPart(k)'
    BY DEF CancelPart, CheckAhead, LoopPart, ResultPart
  <2> QED
    BY <2>2, <2>3, <2>4, <2>5 DEF JobInv
<1>8. CASE Breaks(k)
  <2> USE <1>1, <1>2, <1>3, <1>4, <1>8
      DEF Breaks, Fails, Becomes, Moves, Keeps, Puts, MayPut, Record
  <2>1. StatusPart(k)' /\ LoopPart(k)'
    BY DEF StatusPart, LoopPart
  <2>2. ResultPart(k)'
    BY DEF ResultPart, StatusPart
  <2>3. DocumentPart(k)'
    BY DEF DocumentPart, StatusPart, Active, Working
  <2>4. CancelPart(k)'
    BY DEF CancelPart, CheckAhead, ResultPart
  <2> QED
    BY <2>1, <2>2, <2>3, <2>4 DEF JobInv
<1>9. CASE Saves(k)
  <2> USE <1>1, <1>2, <1>3, <1>4, <1>9 DEF Saves, Moves, Record
  <2>1. StatusPart(k)' /\ LoopPart(k)'
    BY DEF StatusPart, LoopPart
  <2>2. ResultPart(k)'
    BY DEF ResultPart
  <2>3. DocumentPart(k)'
    BY DEF DocumentPart, Active, Working
  <2>4. CancelPart(k)'
    BY DEF CancelPart, CheckAhead
  <2> QED
    BY <2>1, <2>2, <2>3, <2>4 DEF JobInv
<1>10. CASE Ends(k)
  <2> USE <1>1, <1>2, <1>3, <1>4, <1>10 DEF Ends, Remains, Moves, Keeps, Puts, MayPut
  <2>1. StatusPart(k)' /\ LoopPart(k)'
    BY DEF StatusPart, LoopPart
  <2>2. ResultPart(k)'
    BY DEF ResultPart
  <2>3. DocumentPart(k)'
    BY DEF DocumentPart, Active, Queueing, Working
  <2>4. CancelPart(k)'
    BY DEF CancelPart, CheckAhead, ResultPart
  <2> QED
    BY <2>1, <2>2, <2>3, <2>4 DEF JobInv
<1> QED
  BY <1>5, <1>6, <1>7, <1>8, <1>9, <1>10 DEF LocalStep

LEMMA SafeNext == SafeInv /\ [Next]_vars => SafeInv'
<1> SUFFICES ASSUME SafeInv, [Next]_vars
             PROVE  SafeInv'
  OBVIOUS
<1>1. TypeInv /\ TypeInv'
  BY TypeNext DEF SafeInv
<1>2. ASSUME NEW k \in Jobs
      PROVE  JobInv(k)'
  <2>1. JobInv(k)
    BY DEF SafeInv
  <2> QED
    BY <1>1, <2>1, OneJob, LocalSafe, StaysSafe, DiesSafe
<1> QED
  BY <1>1, <1>2 DEF SafeInv

THEOREM Safety == Spec => []SafeInv
BY SafeInit, SafeNext, PTL DEF Spec

-----------------------------------------------------------------------------
(* The properties.                                                         *)

\* A durable success has its durable result, whatever fails or crashes: the
\* result is uploaded first, and its failure ends in the except block.
THEOREM SuccessHasResult == Spec => []DurableSuccessHasResult
<1>1. SafeInv => DurableSuccessHasResult
  BY DEF SafeInv, JobInv, ResultPart, DurableSuccessHasResult
<1> QED
  BY <1>1, Safety, PTL

\* An accepted cancellation the worker can still obey, and that no clear has
\* dropped, is never followed by a success or a result.
THEOREM CancellationIsKept == Spec => []CancelKept
<1>1. SafeInv => CancelKept
  BY DEF SafeInv, JobInv, ResultPart, CancelPart, CancelKept
<1> QED
  BY <1>1, Safety, PTL

\* The bucket agrees with the memory on every job that ended as SUCCEEDED or
\* FAILED: update() never throttles the terminal document.
THEOREM EndIsDurable == Spec => []EndedIsDurable
<1>1. SafeInv => EndedIsDurable
  BY DEF SafeInv, JobInv, DocumentPart, EndedIsDurable
<1> QED
  BY <1>1, Safety, PTL

\* ... and once it is recorded no further file is started.
THEOREM CancellationStopsFiles == Spec => CancelStopsFiles
<1>1. SafeInv /\ [Next]_vars =>
        [\A j \in Jobs : asked[j] = "ahead" /\ pc'[j] = "processing"
                         => pc[j] = "processing"]_vars
  <2> SUFFICES ASSUME SafeInv, [Next]_vars, NEW k \in Jobs,
                      asked[k] = "ahead", pc'[k] = "processing"
               PROVE  pc[k] = "processing"
    OBVIOUS
  <2>1. TypeInv /\ k \in cancellations
    BY DEF SafeInv, JobInv, CancelPart
  <2>2. CASE LocalStep(k)
    BY <2>1, <2>2 DEF LocalStep, Queues, Counts, Continues, Breaks, Saves, Ends, Fails,
                      Loops, Moves
  <2>3. CASE Stays(k) \/ Dies(k)
    BY <2>3 DEF Stays, Dies
  <2> QED
    BY <2>1, <2>2, <2>3, OneJob
<1> QED
  BY <1>1, Safety, PTL DEF Spec, CancelStopsFiles

-----------------------------------------------------------------------------
(* The bucket implements ResultsArchive.                                   *)

LEMMA OneDocument ==
    ASSUME TypeInv, NEW k \in Jobs, JobInv(k), LocalStep(k) \/ Stays(k) \/ Dies(k)
    PROVE  Archive!JobStep(k)
<1> DEFINE same == k \in gcsResult <=> k \in gcsResult'
           d == gcsStatus[k]
           r == rec[k]
<1>1. /\ r.done \in Nat /\ r.total \in Nat /\ r.done <= r.total
      /\ d.done \in Nat /\ d.total \in Nat
      /\ pc[k] \in Unplanned => r.done = 0 /\ r.total = 0
  BY MaxFilesAssumption DEF TypeInv, TypeOK, StoreTypeOK, Record, CountsOK
<1>2. StatusPart(k) /\ LoopPart(k) /\ ResultPart(k) /\ DocumentPart(k)
  BY DEF JobInv
\* Whatever document a worker has in flight may replace the one in the bucket.
<1>3. ASSUME pc[k] \in StatusInFlight, gcsStatus'[k] = r, same
      PROVE  Archive!JobStep(k)
  <2>1. Archive!Supersedes(r, d, k \in gcsResult)
    <3> USE <1>1, <1>2
    <3>1. r.status \in Archive!After(d.status)
      BY <1>3 DEF StatusInFlight, StatusPart, DocumentPart, Active, Working, NoRecord,
                  Archive!After
    <3>2. r.done >= d.done /\ (d.total # 0 => r.total = d.total) /\ r.done <= r.total
      BY <1>3 DEF StatusInFlight, DocumentPart, Active, Working, NoRecord
    <3>3. /\ r.summary => k \in gcsResult
          /\ r.status = "SUCCEEDED" =>
               k \in gcsResult /\ r.summary /\ r.done = r.total /\ r.total > 0
      BY <1>3 DEF StatusInFlight, StatusPart, LoopPart, ResultPart
    <3> QED
      BY <3>1, <3>2, <3>3 DEF Archive!Supersedes
  <2> QED
    BY <1>3, <2>1 DEF Archive!JobStep
<1>4. ASSUME pc[k] = "savingResult", gcsStatus'[k] = d, k \in gcsResult'
      PROVE  Archive!JobStep(k)
  BY <1>2, <1>4 DEF ResultPart, DocumentPart, Active, Working, Archive!JobStep
<1>5. ASSUME gcsStatus'[k] = d, same
      PROVE  Archive!JobStep(k)
  BY <1>5 DEF Archive!JobStep
<1>6. CASE LocalStep(k)
  <2>1. \/ gcsStatus'[k] = d /\ same
        \/ pc[k] \in StatusInFlight /\ gcsStatus'[k] = r /\ same
        \/ pc[k] = "savingResult" /\ gcsStatus'[k] = d /\ k \in gcsResult'
    BY <1>6, <1>2 DEF LocalStep, Queues, Counts, Continues, Breaks, Saves, Ends, Fails,
       Moves, Keeps, Puts, MayPut, StatusInFlight, ResultPart
  <2> QED
    BY <1>3, <1>4, <1>5, <2>1
<1>7. CASE Stays(k)
  BY <1>5, <1>7 DEF Stays, Keeps
<1>8. CASE Dies(k)
  BY <1>3, <1>4, <1>5, <1>8 DEF Dies, StatusInFlight
<1> QED
  BY <1>6, <1>7, <1>8

\* Whoever reads the bucket sees the history ResultsArchive describes: per
\* job, documents that only move forward and a success only after its result.
THEOREM Implementation == Spec => ImplementsArchive
<1>1. Init => Archive!Init
  BY DEF Init, StoreInit, NoRecord, Archive!Init
<1>2. SafeInv /\ [Next]_vars => [Archive!Next]_(Archive!archiveVars)
  <2> SUFFICES ASSUME SafeInv, [Next]_vars, NEW k \in Jobs
               PROVE  Archive!JobStep(k)
    BY DEF Archive!Next
  <2>1. TypeInv /\ JobInv(k)
    BY DEF SafeInv
  <2> QED
    BY <2>1, OneJob, OneDocument
<1> QED
  BY <1>1, <1>2, Safety, PTL DEF Spec, ImplementsArchive, Archive!Spec

-----------------------------------------------------------------------------
(***************************************************************************)
(* What is counted over all jobs, and what the reads of the API answer.    *)
(*                                                                         *)
(* The equation of PermitsConserved is not inductive.  That waking n       *)
(* waiters makes n permits change hands needs that nobody waits twice or   *)
(* waits and is woken at once, and that who is woken is not at work yet.   *)
(*                                                                         *)
(* A document travels from the record of the worker to the bucket, from    *)
(* there to a read in flight, and from there to the caches.  The invariants*)
(* of the last two follow it on the way: what it says was true when it was *)
(* written, and stays true.                                                *)
(***************************************************************************)

Busy == {j \in Jobs : pc[j] \in Working}

\* Who waits or was woken stands at the semaphore, and nobody twice.
QueueOK ==
    /\ \A i \in 1 .. Len(waiting) : pc[waiting[i]] = "waiting" /\ waiting[i] \notin granted
    /\ \A i, k \in 1 .. Len(waiting) : waiting[i] = waiting[k] => i = k
    /\ \A j \in granted : pc[j] = "waiting"

PermitInv == QueueOK /\ permits + Cardinality(Busy) + Cardinality(granted) = MaxConcurrentJobs

-----------------------------------------------------------------------------
(* What a step does to the semaphore and to the places that matter to it.  *)

\* A job moves, and nobody else does.
Goes(j, from, to) ==
    pc[j] \in from /\ \E p \in to : pc' = [pc EXCEPT ![j] = p]

Enters(j)  == AcquireNow /\ Goes(j, {"dispatched"}, Working)
Lines(j)   == AcquireLater(j) /\ Goes(j, {"dispatched"}, {"waiting"})
Resumes(j) == AcquireResumes(j) /\ Goes(j, {"waiting"}, Working)
Leaves(j)  == Release /\ Goes(j, Working, {"done", "escaped"})
Elsewhere ==
    /\ UNCHANGED semVars
    /\ \A k \in Jobs : /\ pc'[k] \in Working <=> pc[k] \in Working
                       /\ pc'[k] = "waiting" <=> pc[k] = "waiting"
Restarts == SemRestart /\ \A k \in Jobs : pc'[k] \in {"idle", "lost"}

LEMMA OneSemStep ==
    ASSUME TypeInv, [Next]_vars
    PROVE  \/ \E j \in Jobs : Enters(j) \/ Lines(j) \/ Resumes(j) \/ Leaves(j)
           \/ Elsewhere \/ Restarts
<1> DEFINE G == \/ \E j \in Jobs : Enters(j) \/ Lines(j) \/ Resumes(j) \/ Leaves(j)
                \/ Elsewhere \/ Restarts
<1> HIDE DEF G
<1>t. pc \in [Jobs -> Place]
  BY DEF TypeInv, TypeOK
\* A job that stays at work, or stays away from it, does not touch the semaphore.
<1>m. ASSUME NEW j \in Jobs, NEW from, NEW to, Goes(j, from, to), UNCHANGED semVars,
             \/ from \subseteq Working /\ to \subseteq Working
             \/ (from \cup to) \cap (Working \cup {"waiting"}) = {}
      PROVE  G
  BY <1>m, <1>t DEF G, Goes, Elsewhere, Working
<1>l. ASSUME NEW j \in Jobs, pc[j] \in Working, NEW p \in {"done", "escaped"}, Leave(j, p)
      PROVE  G
  BY <1>l DEF G, Leave, Goto, Leaves, Goes
<1>w. ASSUME NEW j \in Jobs, pc[j] \in Working, UNCHANGED semVars,
             NEW p \in Working, Goto(j, p)
      PROVE  G
  BY <1>w, <1>m, <1>t DEF Goto, Goes
<1>f. ASSUME NEW j \in Jobs, pc[j] \in Working, Fail(j)
      PROVE  G
  BY <1>f, <1>w DEF Fail, Working
<1>e. ASSUME NEW j \in Jobs, NEW r, NEW evs, pc[j] \in Working, FileLoop(j, r, evs)
      PROVE  G
  BY <1>e, <1>w, <1>l DEF FileLoop, Working
<1>1. ASSUME NEW j \in Jobs, Submit(j)
      PROVE  G
  <2>1. Goes(j, {"idle"}, {"registering"}) /\ UNCHANGED semVars
    BY <1>1 DEF Submit, Goes, Goto
  <2> QED  BY <2>1, <1>m DEF Working
<1>2. ASSUME NEW j \in Jobs, NEW o \in UploadOutcome, Registered(j, o)
      PROVE  G
  <2>1. Goes(j, {"registering"}, {"dispatched", "rejected"}) /\ UNCHANGED semVars
    BY <1>2 DEF Registered, Goes, Goto
  <2> QED  BY <2>1, <1>m DEF Working
<1>3. ASSUME NEW j \in Jobs, Dispatch(j)
      PROVE  G
  BY <1>3 DEF Dispatch, Begin, Goto, Enters, Lines, Goes, Working, G
<1>4. ASSUME NEW j \in Jobs, Resume(j)
      PROVE  G
  BY <1>4 DEF Resume, Begin, Goto, Resumes, Goes, Working, G
<1>5. ASSUME NEW j \in Jobs, NEW o \in UploadOutcome, StartPersisted(j, o)
      PROVE  G
  BY <1>5, <1>w, <1>l DEF StartPersisted, Working
<1>6. ASSUME NEW j \in Jobs, NEW n \in 1 .. MaxFiles, Planned(j, n)
      PROVE  G
  BY <1>6, <1>e, <1>w DEF Planned, Working
<1>7. ASSUME NEW j \in Jobs, PlanFails(j) \/ ProcessFails(j)
      PROVE  G
  BY <1>7, <1>f DEF PlanFails, ProcessFails, Working
<1>8. ASSUME NEW j \in Jobs, NEW o \in UploadOutcome,
             TotalPersisted(j, o) \/ ProgressPersisted(j, o)
      PROVE  G
  BY <1>8, <1>e, <1>f DEF TotalPersisted, ProgressPersisted, Working
<1>9. ASSUME NEW j \in Jobs, Processed(j)
      PROVE  G
  BY <1>9, <1>e, <1>w DEF Processed, Working
<1>10. ASSUME NEW j \in Jobs, NEW o \in UploadOutcome, ResultSaved(j, o)
       PROVE  G
  BY <1>10, <1>w, <1>f DEF ResultSaved, Working
<1>11. ASSUME NEW j \in Jobs, NEW o \in UploadOutcome,
              SuccessPersisted(j, o) \/ FailurePersisted(j, o)
       PROVE  G
  BY <1>11, <1>l, <1>f DEF SuccessPersisted, FailurePersisted, Working
<1>12. ASSUME NEW j \in Jobs, Cancel(j) \/ Time(j) PROVE G
  BY <1>12 DEF Cancel, Time, workerVars, Elsewhere, G
<1>13. ASSUME Clear \/ Read PROVE G
  BY <1>13 DEF Clear, Read, workerVars, Elsewhere, G
<1>14. ASSUME UNCHANGED vars PROVE G
  BY <1>14 DEF workerVars, vars, Elsewhere, G
<1>15. ASSUME Crash PROVE G
  <2>1. SemRestart /\ \A k \in Jobs : pc'[k] \in {"idle", "lost"}
    BY <1>15 DEF Crash
  <2> QED  BY <2>1 DEF Restarts, G
<1>16. ASSUME NEW j \in Jobs, Worker(j) PROVE G
  BY <1>2, <1>3, <1>4, <1>5, <1>6, <1>7, <1>8, <1>9, <1>10, <1>11, <1>16 DEF Worker
<1>17. G
  BY <1>1, <1>12, <1>13, <1>15, <1>16, <1>14 DEF Next
<1> QED  BY <1>17 DEF G

-----------------------------------------------------------------------------
(* The permits.                                                            *)

LEMMA BusyIsFinite == IsFiniteSet(Busy) /\ Cardinality(Busy) \in Nat
<1>1. IsFiniteSet(Busy)
  BY JobsAssumption, FS_Subset DEF Busy
<1> QED  BY <1>1, FS_CardinalityType

LEMMA GrantedIsFinite ==
    ASSUME TypeInv
    PROVE  IsFiniteSet(granted) /\ Cardinality(granted) \in Nat
<1>1. IsFiniteSet(granted)
  BY JobsAssumption, FS_Subset DEF TypeInv, TypeOK, SemTypeOK
<1> QED  BY <1>1, FS_CardinalityType

\* One more job is at work, or one less.
LEMMA BusyStep ==
    ASSUME TypeInv, NEW j \in Jobs, NEW p, pc' = [pc EXCEPT ![j] = p]
    PROVE  /\ pc[j] \notin Working /\ p \in Working
                => Cardinality(Busy') = Cardinality(Busy) + 1
           /\ pc[j] \in Working /\ p \notin Working
                => Cardinality(Busy') = Cardinality(Busy) - 1
<1>1. pc \in [Jobs -> Place]
  BY DEF TypeInv, TypeOK
<1>2. ASSUME pc[j] \notin Working, p \in Working
      PROVE  Cardinality(Busy') = Cardinality(Busy) + 1
  <2>1. Busy' = Busy \cup {j} /\ j \notin Busy
    BY <1>1, <1>2 DEF Busy
  <2> QED  BY <2>1, BusyIsFinite, FS_AddElement
<1>3. ASSUME pc[j] \in Working, p \notin Working
      PROVE  Cardinality(Busy') = Cardinality(Busy) - 1
  <2>1. Busy' = Busy \ {j} /\ j \in Busy
    BY <1>1, <1>3 DEF Busy
  <2> QED  BY <2>1, BusyIsFinite, FS_RemoveElement
<1> QED  BY <1>2, <1>3

\* The waiters that are woken are as many as the permits they take.
LEMMA WokenCount ==
    ASSUME TypeInv, QueueOK, NEW n \in 0 .. Len(waiting)
    PROVE  LET woken == {waiting[i] : i \in 1 .. n}
           IN  /\ IsFiniteSet(woken) /\ Cardinality(woken) = n
               /\ woken \cap granted = {}
<1> DEFINE woken == {waiting[i] : i \in 1 .. n}
           f == [i \in 1 .. n |-> waiting[i]]
<1>1. waiting \in Seq(Jobs) /\ n \in Nat
  BY DEF TypeInv, TypeOK, SemTypeOK
<1>2. 1 .. n \subseteq 1 .. Len(waiting)
  BY <1>1
<1>3. f \in Bijection(1 .. n, woken)
  BY <1>1, <1>2 DEF QueueOK, Bijection, Injection, Surjection, IsInjective
<1>4. IsFiniteSet(1 .. n) /\ Cardinality(1 .. n) = n
  BY <1>1, FS_Interval
<1>5. IsFiniteSet(woken) /\ Cardinality(woken) = n
  BY <1>3, <1>4, FS_Bijection DEF ExistsBijection
<1>6. woken \cap granted = {}
  BY <1>1, <1>2 DEF QueueOK
<1> QED  BY <1>5, <1>6

LEMMA PermitInit == Init => PermitInv
<1> SUFFICES ASSUME Init PROVE PermitInv
  OBVIOUS
<1>1. waiting = <<>> /\ granted = {} /\ permits = MaxConcurrentJobs
  BY DEF Init, SemInit
<1>2. Busy = {}
  BY DEF Init, Busy, Working
<1>3. Cardinality({}) = 0
  BY FS_EmptySet
<1>4. QueueOK
  BY <1>1 DEF QueueOK
<1> QED  BY <1>1, <1>2, <1>3, <1>4, MaxConcurrentJobsAssumption DEF PermitInv

LEMMA EntersKeeps ==
    ASSUME TypeInv, PermitInv, NEW j \in Jobs, Enters(j)
    PROVE  PermitInv'
<1>1. PICK p \in Working : pc[j] = "dispatched" /\ pc' = [pc EXCEPT ![j] = p]
  BY DEF Enters, Goes
<1>2. /\ permits \in Nat /\ permits # 0 /\ permits' = permits - 1
      /\ waiting' = waiting /\ granted' = granted
  BY DEF Enters, AcquireNow, Locked, TypeInv, TypeOK, SemTypeOK
<1>3. Cardinality(Busy') = Cardinality(Busy) + 1
  BY <1>1, BusyStep DEF Working
<1>4. QueueOK'
  <2>1. pc \in [Jobs -> Place] /\ waiting \in Seq(Jobs) /\ granted \subseteq Jobs
    BY DEF TypeInv, TypeOK, SemTypeOK
  <2> QED  BY <2>1, <1>1, <1>2 DEF QueueOK, PermitInv
<1> QED  BY <1>2, <1>3, <1>4, BusyIsFinite, GrantedIsFinite, MaxConcurrentJobsAssumption DEF PermitInv

LEMMA LinesKeeps ==
    ASSUME TypeInv, PermitInv, NEW j \in Jobs, Lines(j)
    PROVE  PermitInv'
<1>1. pc[j] = "dispatched" /\ pc' = [pc EXCEPT ![j] = "waiting"]
  BY DEF Lines, Goes
<1>2. /\ waiting' = Append(waiting, j) /\ permits' = permits /\ granted' = granted
  BY DEF Lines, AcquireLater
<1>3. pc \in [Jobs -> Place] /\ waiting \in Seq(Jobs) /\ granted \subseteq Jobs
  BY DEF TypeInv, TypeOK, SemTypeOK
<1>4. Busy' = Busy
  BY <1>1, <1>3 DEF Busy, Working
<1>5. QueueOK'
  <2>1. /\ Len(waiting') = Len(waiting) + 1
        /\ \A i \in 1 .. Len(waiting') :
             waiting'[i] = IF i = Len(waiting) + 1 THEN j ELSE waiting[i]
    BY <1>2, <1>3
  <2>2. /\ \A i \in 1 .. Len(waiting) : waiting[i] # j /\ waiting[i] \in Jobs
        /\ j \notin granted
    BY <1>1, <1>3 DEF QueueOK, PermitInv
  <2> QED  BY <1>1, <1>2, <1>3, <2>1, <2>2 DEF QueueOK, PermitInv
<1> QED  BY <1>2, <1>4, <1>5 DEF PermitInv

LEMMA ResumesKeeps ==
    ASSUME TypeInv, PermitInv, NEW j \in Jobs, Resumes(j)
    PROVE  PermitInv'
<1> DEFINE woken == {waiting[i] : i \in 1 .. Woken}
<1>1. PICK p \in Working : pc[j] = "waiting" /\ pc' = [pc EXCEPT ![j] = p]
  BY DEF Resumes, Goes
<1>2. /\ j \in granted /\ permits' = permits - Woken
      /\ waiting' = SubSeq(waiting, Woken + 1, Len(waiting))
      /\ granted' = (granted \ {j}) \cup woken
  BY DEF Resumes, AcquireResumes
<1>3. pc \in [Jobs -> Place] /\ waiting \in Seq(Jobs) /\ granted \subseteq Jobs /\ permits \in Nat
  BY DEF TypeInv, TypeOK, SemTypeOK
<1>4. Woken \in 0 .. Len(waiting) /\ Woken <= permits
  BY <1>3 DEF Woken
<1>5. IsFiniteSet(woken) /\ Cardinality(woken) = Woken /\ woken \cap granted = {}
  BY <1>4, WokenCount DEF PermitInv
<1>6. Cardinality(granted') = Cardinality(granted) - 1 + Woken
  <2>1. /\ IsFiniteSet(granted \ {j})
        /\ Cardinality(granted \ {j}) = Cardinality(granted) - 1
    BY <1>2, GrantedIsFinite, FS_RemoveElement
  <2>2. (granted \ {j}) \cap woken = {} /\ Cardinality({}) = 0
    BY <1>5, FS_EmptySet
  <2>3. Cardinality(granted') = Cardinality(granted \ {j}) + Cardinality(woken) - 0
    BY <1>2, <1>5, <2>1, <2>2, FS_Union
  <2> QED  BY <1>4, <1>5, <2>1, <2>3, GrantedIsFinite
<1>7. Cardinality(Busy') = Cardinality(Busy) + 1
  BY <1>1, BusyStep DEF Working
<1>8. QueueOK'
  <2>1. /\ Len(waiting') = Len(waiting) - Woken
        /\ \A i \in 1 .. Len(waiting') :
             waiting'[i] = waiting[i + Woken] /\ i + Woken \in 1 .. Len(waiting)
    BY <1>2, <1>3, <1>4
  <2>2. \A i \in 1 .. Len(waiting) : waiting[i] # j /\ waiting[i] \in Jobs
    BY <1>2, <1>3 DEF QueueOK, PermitInv
  <2>3. \A i \in 1 .. Len(waiting') : waiting'[i] \notin woken
    BY <1>3, <1>4, <2>1, SMTT(30) DEF QueueOK, PermitInv
  <2>4. \A i \in 1 .. Len(waiting') : pc'[waiting'[i]] = "waiting" /\ waiting'[i] \notin granted'
    <3> SUFFICES ASSUME NEW i \in 1 .. Len(waiting')
                 PROVE  pc'[waiting'[i]] = "waiting" /\ waiting'[i] \notin granted'
      OBVIOUS
    <3>1. PICK m \in 1 .. Len(waiting) : waiting'[i] = waiting[m]
      BY <2>1
    <3>2. pc[waiting[m]] = "waiting" /\ waiting[m] \notin granted
      BY DEF QueueOK, PermitInv
    <3>3. waiting[m] # j /\ waiting[m] \notin woken
      BY <2>2, <2>3, <3>1
    <3>4. waiting[m] \in Jobs /\ pc'[waiting[m]] = pc[waiting[m]]
      BY <1>1, <1>3, <2>2, <3>3
    <3> QED  BY <1>2, <3>1, <3>2, <3>3, <3>4
  <2>5. \A i, k \in 1 .. Len(waiting') : waiting'[i] = waiting'[k] => i = k
    <3> SUFFICES ASSUME NEW i \in 1 .. Len(waiting'), NEW k \in 1 .. Len(waiting'),
                        waiting'[i] = waiting'[k]
                 PROVE  i = k
      OBVIOUS
    <3>1. /\ i + Woken \in 1 .. Len(waiting) /\ k + Woken \in 1 .. Len(waiting)
          /\ waiting[i + Woken] = waiting[k + Woken]
      BY <2>1
    <3>2. i + Woken = k + Woken
      BY <3>1 DEF QueueOK, PermitInv
    <3> QED  BY <1>4, <3>2
  <2>6. \A k \in granted' : pc'[k] = "waiting"
    BY <1>1, <1>2, <1>3, <1>4, <2>2 DEF QueueOK, PermitInv
  <2> QED  BY <2>4, <2>5, <2>6 DEF QueueOK
<1> QED
  BY <1>2, <1>3, <1>4, <1>6, <1>7, <1>8, BusyIsFinite, GrantedIsFinite, MaxConcurrentJobsAssumption
  DEF PermitInv

LEMMA LeavesKeeps ==
    ASSUME TypeInv, PermitInv, NEW j \in Jobs, Leaves(j)
    PROVE  PermitInv'
<1>1. PICK p \in {"done", "escaped"} : pc[j] \in Working /\ pc' = [pc EXCEPT ![j] = p]
  BY DEF Leaves, Goes
<1>2. pc \in [Jobs -> Place] /\ waiting \in Seq(Jobs) /\ granted \subseteq Jobs /\ permits \in Nat
  BY DEF TypeInv, TypeOK, SemTypeOK
<1>3. Cardinality(Busy') = Cardinality(Busy) - 1
  BY <1>1, BusyStep DEF Working
<1>4. CASE waiting = <<>>
  <2>1. permits' = permits + 1 /\ waiting' = waiting /\ granted' = granted
    BY <1>4 DEF Leaves, Release
  <2>2. QueueOK'
    BY <1>1, <1>2, <1>4, <2>1 DEF QueueOK, PermitInv, Working
  <2> QED
    BY <1>2, <1>3, <2>1, <2>2, BusyIsFinite, GrantedIsFinite, MaxConcurrentJobsAssumption
    DEF PermitInv
<1>5. CASE waiting # <<>>
  <2>1. /\ permits' = permits /\ waiting' = Tail(waiting)
        /\ granted' = granted \cup {waiting[1]}
    BY <1>2, <1>5 DEF Leaves, Release
  <2>2. /\ 1 \in 1 .. Len(waiting) /\ Len(waiting') = Len(waiting) - 1
        /\ \A i \in 1 .. Len(waiting') :
             waiting'[i] = waiting[i + 1] /\ i + 1 \in 1 .. Len(waiting)
    BY <1>2, <1>5, <2>1
  <2>3. waiting[1] \notin granted
    BY <2>2 DEF QueueOK, PermitInv
  <2>4. Cardinality(granted') = Cardinality(granted) + 1
    BY <2>1, <2>3, GrantedIsFinite, FS_AddElement
  <2>5. QueueOK'
    <3>1. \A i \in 1 .. Len(waiting) : waiting[i] # j /\ waiting[i] \in Jobs
      BY <1>1, <1>2 DEF QueueOK, PermitInv, Working
    <3>2. \A i \in 1 .. Len(waiting') : pc'[waiting'[i]] = "waiting" /\ waiting'[i] \notin granted'
      <4>1. \A i \in 1 .. Len(waiting') : waiting'[i] # waiting[1]
        BY <1>2, <2>2 DEF QueueOK, PermitInv
      <4> QED  BY <1>1, <1>2, <2>1, <2>2, <3>1, <4>1 DEF QueueOK, PermitInv
    <3>3. \A i, k \in 1 .. Len(waiting') : waiting'[i] = waiting'[k] => i = k
      BY <1>2, <2>2 DEF QueueOK, PermitInv
    <3>4. \A k \in granted' : pc'[k] = "waiting"
      BY <1>1, <1>2, <2>1, <2>2, <3>1 DEF QueueOK, PermitInv, Working
    <3> QED  BY <3>2, <3>3, <3>4 DEF QueueOK
  <2> QED
    BY <1>2, <1>3, <2>1, <2>4, <2>5, BusyIsFinite, GrantedIsFinite, MaxConcurrentJobsAssumption
    DEF PermitInv
<1> QED  BY <1>4, <1>5

LEMMA PermitNext == TypeInv /\ PermitInv /\ [Next]_vars => PermitInv'
<1> SUFFICES ASSUME TypeInv, PermitInv, [Next]_vars PROVE PermitInv'
  OBVIOUS
<1>1. CASE Elsewhere
  <2>1. /\ waiting' = waiting /\ granted' = granted /\ permits' = permits
        /\ waiting \in Seq(Jobs) /\ granted \subseteq Jobs
    BY <1>1 DEF Elsewhere, semVars, TypeInv, TypeOK, SemTypeOK
  <2>2. Busy' = Busy
    BY <1>1 DEF Elsewhere, Busy
  <2>3. QueueOK'
    BY <1>1, <2>1 DEF Elsewhere, QueueOK, PermitInv
  <2> QED  BY <2>1, <2>2, <2>3 DEF PermitInv
<1>2. CASE Restarts
  <2>1. waiting' = <<>> /\ granted' = {} /\ permits' = MaxConcurrentJobs
    BY <1>2 DEF Restarts, SemRestart
  <2>2. Busy' = {}
    BY <1>2 DEF Restarts, Busy, Working
  <2>3. Cardinality({}) = 0
    BY FS_EmptySet
  <2>4. QueueOK'
    BY <2>1 DEF QueueOK
  <2> QED  BY <2>1, <2>2, <2>3, <2>4, MaxConcurrentJobsAssumption DEF PermitInv
<1> QED
  BY <1>1, <1>2, OneSemStep, EntersKeeps, LinesKeeps, ResumesKeeps, LeavesKeeps

\* No permit of the semaphore is lost or made up, whatever the limit, the
\* number of jobs and the way they leave run() or die.
THEOREM PermitsAreConserved == Spec => []PermitsConserved
<1>1. Init => TypeInv /\ PermitInv
  BY TypeInit, PermitInit
<1>2. TypeInv /\ PermitInv /\ [Next]_vars => (TypeInv /\ PermitInv)'
  BY TypeNext, PermitNext
<1>3. PermitInv => PermitsConserved
  BY DEF PermitInv, PermitsConserved, Busy
<1> QED  BY <1>1, <1>2, <1>3, PTL DEF Spec

-----------------------------------------------------------------------------
(* The outcomes.                                                           *)

Outcomes == {"job_completed", "job_failed", "job_cancelled"}
Told(k) == events[k] \cap Outcomes
Tellers(e) == {k \in Jobs : e \in events[k]}

OutcomeInv ==
    /\ \A k \in Jobs : Told(k) = IF pc[k] = "done" THEN {OutcomeEvent[rec[k].status]} ELSE {}
    /\ stats.ok = Cardinality(Tellers("job_completed"))
    /\ stats.failed = Cardinality(Tellers("job_failed"))

\* What a step does to what was told: nothing, one more outcome, or it is all
\* forgotten.
Apart(k) == pc'[k] = pc[k] /\ rec'[k] = rec[k] /\ events'[k] = events[k]
Silent ==
    /\ stats' = stats
    /\ \A k \in Jobs : \/ Apart(k)
                       \/ pc[k] # "done" /\ pc'[k] # "done" /\ Told(k)' = Told(k)
Tells(j, e) ==
    /\ pc[j] # "done" /\ pc'[j] = "done" /\ OutcomeEvent[rec'[j].status] = e
    /\ Told(j)' = Told(j) \cup {e}
    /\ \A k \in Jobs \ {j} : Apart(k)
    /\ stats' = [ok |-> stats.ok + (IF e = "job_completed" THEN 1 ELSE 0),
                 failed |-> stats.failed + (IF e = "job_failed" THEN 1 ELSE 0)]
Forgets ==
    /\ stats' = [ok |-> 0, failed |-> 0]
    /\ \A k \in Jobs : events'[k] = {} /\ pc'[k] # "done"

LEMMA OneOutcomeStep ==
    ASSUME SafeInv, [Next]_vars
    PROVE  Silent \/ Forgets \/ \E j \in Jobs, e \in Outcomes : Tells(j, e)
<1> DEFINE G == Silent \/ Forgets \/ \E j \in Jobs, e \in Outcomes : Tells(j, e)
<1> HIDE DEF G
<1>t. /\ TypeInv /\ pc \in [Jobs -> Place] /\ rec \in [Jobs -> Record]
      /\ events \in [Jobs -> SUBSET Event] /\ stats \in [ok : Nat, failed : Nat]
  BY DEF SafeInv, TypeInv, TypeOK
<1>s. \A k \in Jobs : StatusPart(k)
  BY DEF SafeInv, JobInv
\* A job moves on without an outcome.
<1>m. ASSUME NEW j \in Jobs, pc[j] # "done", NEW p, p # "done", Goto(j, p),
             NEW r, SetRecord(j, r), NEW evs, evs \cap Outcomes = {}, Publish(j, evs),
             stats' = stats
      PROVE  G
  <2>1. Told(j)' = Told(j) /\ pc'[j] # "done"
    BY <1>m, <1>t DEF Told, Publish, Goto
  <2>2. \A k \in Jobs \ {j} : Apart(k)
    BY <1>m, <1>t DEF Apart, Publish, Goto, SetRecord
  <2>3. Silent
    BY <1>m, <2>1, <2>2 DEF Silent
  <2> QED  BY <2>3 DEF G
\* ... and an unchanged variable is a special case.
<1>n. ASSUME NEW j \in Jobs, pc[j] # "done", NEW p, p # "done", Goto(j, p),
             UNCHANGED rec \/ \E r : SetRecord(j, r), UNCHANGED <<events, stats>>
      PROVE  G
  <2>1. \A k \in Jobs \ {j} : Apart(k)
    BY <1>n, <1>t DEF Apart, Goto, SetRecord
  <2>2. Told(j)' = Told(j) /\ pc'[j] # "done" /\ stats' = stats
    BY <1>n, <1>t DEF Told, Goto
  <2>3. Silent
    BY <1>n, <2>1, <2>2 DEF Silent
  <2> QED  BY <2>3 DEF G
<1>f. ASSUME NEW j \in Jobs, pc[j] # "done", Fail(j)
      PROVE  G
  BY <1>f, <1>n DEF Fail
\* run() returns with the outcome e.
<1>d. ASSUME NEW j \in Jobs, pc[j] # "done", Goto(j, "done"), NEW e \in Outcomes,
             NEW evs, evs \cap Outcomes = {e}, Publish(j, evs),
             UNCHANGED rec \/ \E r : SetRecord(j, r),
             OutcomeEvent[rec'[j].status] = e,
             stats' = [ok |-> stats.ok + (IF e = "job_completed" THEN 1 ELSE 0),
                       failed |-> stats.failed + (IF e = "job_failed" THEN 1 ELSE 0)]
      PROVE  G
  <2>1. Told(j)' = Told(j) \cup {e} /\ pc'[j] = "done"
    BY <1>d, <1>t DEF Told, Publish, Goto
  <2>2. \A k \in Jobs \ {j} : Apart(k)
    BY <1>d, <1>t DEF Apart, Publish, Goto, SetRecord
  <2>3. Tells(j, e)
    BY <1>d, <2>1, <2>2 DEF Tells
  <2> QED  BY <2>3 DEF G
<1>e. ASSUME NEW j \in Jobs, NEW r \in Record, NEW evs \in {{}, {"job_progress"}},
             pc[j] # "done", FileLoop(j, r, evs)
      PROVE  G
  <2>1. ASSUME SetRecord(j, [r EXCEPT !.status = "CANCELLED"]),
               Publish(j, evs \cup {"job_cancelled"}), Goto(j, "done"), UNCHANGED stats
        PROVE  G
    <3>1. rec'[j].status = "CANCELLED"
      BY <2>1, <1>t DEF SetRecord, Record
    <3>2. (evs \cup {"job_cancelled"}) \cap Outcomes = {"job_cancelled"}
      BY DEF Outcomes
    <3>3. stats' = [ok |-> stats.ok + 0, failed |-> stats.failed + 0]
      BY <2>1, <1>t
    <3>4. OutcomeEvent[rec'[j].status] = "job_cancelled" /\ "job_cancelled" \in Outcomes
      BY <3>1 DEF OutcomeEvent, Outcomes
    <3> QED  BY <1>e, <2>1, <3>2, <3>3, <3>4, <1>d
  <2>2. evs \cap Outcomes = {}
    BY DEF Outcomes
  <2>3. ASSUME SetRecord(j, r), Publish(j, evs), NEW p \in {"processing", "savingResult"},
               Goto(j, p), UNCHANGED stats
        PROVE  G
    BY <1>e, <2>2, <2>3, <1>m
  <2> QED  BY <1>e, <2>1, <2>3 DEF FileLoop, Leave
<1>b. ASSUME NEW j \in Jobs, pc[j] # "done", Begin(j), stats' = stats
      PROVE  G
  <2>1. {"job_started"} \cap Outcomes = {}
    BY DEF Outcomes
  <2> QED  BY <1>b, <1>m, <2>1 DEF Begin
<1>1. ASSUME NEW j \in Jobs, Submit(j)
      PROVE  G
  BY <1>1, <1>n DEF Submit
<1>2. ASSUME NEW j \in Jobs, NEW o \in UploadOutcome, Registered(j, o)
      PROVE  G
  <2>1. {"job_submitted"} \cap Outcomes = {} /\ rec' = [rec EXCEPT ![j] = rec[j]]
    BY <1>2, <1>t DEF Registered, Outcomes
  <2> QED  BY <1>2, <1>m, <1>n, <2>1 DEF Registered, SetRecord
<1>3. ASSUME NEW j \in Jobs, Dispatch(j)
      PROVE  G
  BY <1>3, <1>b, <1>n DEF Dispatch
<1>4. ASSUME NEW j \in Jobs, Resume(j)
      PROVE  G
  BY <1>4, <1>b DEF Resume
<1>5. ASSUME NEW j \in Jobs, NEW o \in UploadOutcome, StartPersisted(j, o)
      PROVE  G
  BY <1>5, <1>n DEF StartPersisted, Leave
<1>6. ASSUME NEW j \in Jobs, NEW n \in 1 .. MaxFiles, Planned(j, n)
      PROVE  G
  <2>1. [rec[j] EXCEPT !.total = n] \in Record
    BY <1>t, MaxFilesAssumption DEF Record
  <2> QED  BY <1>6, <2>1, <1>e, <1>n DEF Planned
<1>7. ASSUME NEW j \in Jobs, PlanFails(j) \/ ProcessFails(j)
      PROVE  G
  BY <1>7, <1>f DEF PlanFails, ProcessFails
<1>8. ASSUME NEW j \in Jobs, NEW o \in UploadOutcome,
             TotalPersisted(j, o) \/ ProgressPersisted(j, o)
      PROVE  G
  BY <1>8, <1>t, <1>e, <1>f DEF TotalPersisted, ProgressPersisted
<1>9. ASSUME NEW j \in Jobs, Processed(j)
      PROVE  G
  <2>1. [rec[j] EXCEPT !.done = @ + 1] \in Record
    BY <1>9, <1>t, MaxFilesAssumption DEF Processed, Record, TypeInv, CountsOK
  <2> QED  BY <1>9, <2>1, <1>e, <1>n DEF Processed
<1>10. ASSUME NEW j \in Jobs, NEW o \in UploadOutcome, ResultSaved(j, o)
       PROVE  G
  BY <1>10, <1>n, <1>f DEF ResultSaved
<1>11. ASSUME NEW j \in Jobs, NEW o \in UploadOutcome, SuccessPersisted(j, o)
       PROVE  G
  <2>1. /\ OutcomeEvent[rec[j].status] = "job_completed"
        /\ {"job_completed"} \cap Outcomes = {"job_completed"} /\ "job_completed" \in Outcomes
    BY <1>11, <1>s DEF SuccessPersisted, StatusPart, OutcomeEvent, Outcomes
  <2>2. ASSUME stats' = [stats EXCEPT !.ok = @ + 1]
        PROVE  stats' = [ok |-> stats.ok + 1, failed |-> stats.failed + 0]
    BY <2>2, <1>t
  <2> QED  BY <1>11, <1>d, <1>f, <2>1, <2>2 DEF SuccessPersisted, Leave
<1>12. ASSUME NEW j \in Jobs, NEW o \in UploadOutcome, FailurePersisted(j, o)
       PROVE  G
  <2>1. /\ OutcomeEvent[rec[j].status] = "job_failed"
        /\ {"job_failed"} \cap Outcomes = {"job_failed"} /\ "job_failed" \in Outcomes
    BY <1>12, <1>s DEF FailurePersisted, StatusPart, OutcomeEvent, Outcomes
  <2>2. ASSUME stats' = [stats EXCEPT !.failed = @ + 1]
        PROVE  stats' = [ok |-> stats.ok + 0, failed |-> stats.failed + 1]
    BY <2>2, <1>t
  <2> QED  BY <1>12, <1>d, <1>n, <2>1, <2>2 DEF FailurePersisted, Leave
<1>13. ASSUME UNCHANGED workerVars PROVE G
  BY <1>13 DEF workerVars, G, Silent, Apart
<1>14. ASSUME NEW j \in Jobs, Cancel(j) \/ Time(j) \/ Clear \/ Read PROVE G
  BY <1>14, <1>13 DEF Cancel, Time, Clear, Read
<1>15. ASSUME Clear \/ Read \/ UNCHANGED vars PROVE G
  BY <1>15, <1>13 DEF Clear, Read, vars
<1>16. ASSUME Crash PROVE G
  BY <1>16 DEF Crash, G, Forgets
<1>17. ASSUME NEW j \in Jobs, Worker(j) PROVE G
  BY <1>2, <1>3, <1>4, <1>5, <1>6, <1>7, <1>8, <1>9, <1>10, <1>11, <1>12, <1>17 DEF Worker
<1>18. G
  BY <1>1, <1>14, <1>15, <1>16, <1>17 DEF Next
<1> QED  BY <1>18 DEF G

LEMMA TellersAreFinite ==
    ASSUME NEW e
    PROVE  IsFiniteSet(Tellers(e)) /\ Cardinality(Tellers(e)) \in Nat
<1>1. IsFiniteSet(Tellers(e))
  BY JobsAssumption, FS_Subset DEF Tellers
<1> QED  BY <1>1, FS_CardinalityType

LEMMA OutcomeNext == SafeInv /\ OutcomeInv /\ [Next]_vars => OutcomeInv'
<1> SUFFICES ASSUME SafeInv, OutcomeInv, [Next]_vars PROVE OutcomeInv'
  OBVIOUS
<1>o. "job_completed" \in Outcomes /\ "job_failed" \in Outcomes
  BY DEF Outcomes
<1>1. CASE Silent
  <2>1. \A k \in Jobs : Told(k)' = Told(k)
    BY <1>1 DEF Silent, Apart, Told
  <2>2. Tellers("job_completed")' = Tellers("job_completed")
        /\ Tellers("job_failed")' = Tellers("job_failed")
    BY <1>o, <2>1 DEF Told, Tellers
  <2>3. \A k \in Jobs :
          Told(k)' = IF pc'[k] = "done" THEN {OutcomeEvent[rec'[k].status]} ELSE {}
    BY <1>1, <2>1 DEF Silent, Apart, OutcomeInv
  <2> QED  BY <1>1, <2>2, <2>3 DEF Silent, OutcomeInv
<1>2. CASE Forgets
  <2>1. Tellers("job_completed")' = {} /\ Tellers("job_failed")' = {}
    BY <1>2 DEF Forgets, Tellers
  <2>2. \A k \in Jobs : Told(k)' = {}
    BY <1>2 DEF Forgets, Told
  <2>3. Cardinality({}) = 0
    BY FS_EmptySet
  <2> QED  BY <1>2, <2>1, <2>2, <2>3 DEF Forgets, OutcomeInv
<1>3. ASSUME NEW j \in Jobs, NEW e \in Outcomes, Tells(j, e)
      PROVE  OutcomeInv'
  <2>1. Told(j) = {} /\ Told(j)' = {e}
    BY <1>3 DEF Tells, OutcomeInv
  <2>2. \A k \in Jobs \ {j} : Told(k)' = Told(k)
    BY <1>3 DEF Tells, Apart, Told
  <2>3. \A k \in Jobs :
          Told(k)' = IF pc'[k] = "done" THEN {OutcomeEvent[rec'[k].status]} ELSE {}
    BY <1>3, <2>1, <2>2 DEF Tells, Apart, OutcomeInv
  <2>4. ASSUME NEW d \in {"job_completed", "job_failed"}
        PROVE  Cardinality(Tellers(d)') = Cardinality(Tellers(d)) + (IF e = d THEN 1 ELSE 0)
    <3>1. Tellers(d)' = IF e = d THEN Tellers(d) \cup {j} ELSE Tellers(d)
      BY <1>o, <2>1, <2>2 DEF Told, Tellers
    <3>2. j \notin Tellers(d)
      BY <1>o, <2>1 DEF Told, Tellers
    <3>3. IsFiniteSet(Tellers(d)) /\ Cardinality(Tellers(d)) \in Nat
      BY TellersAreFinite
    <3>4. Cardinality(Tellers(d) \cup {j}) = Cardinality(Tellers(d)) + 1
      BY <3>2, <3>3, FS_AddElement
    <3> QED  BY <3>1, <3>3, <3>4
  <2>5. stats.ok \in Nat /\ stats.failed \in Nat
    BY DEF SafeInv, TypeInv, TypeOK
  <2> QED  BY <1>3, <2>3, <2>4, <2>5 DEF Tells, OutcomeInv
<1> QED  BY <1>1, <1>2, <1>3, OneOutcomeStep

LEMMA OutcomeInit == Init => OutcomeInv
<1> SUFFICES ASSUME Init PROVE OutcomeInv
  OBVIOUS
<1>1. Tellers("job_completed") = {} /\ Tellers("job_failed") = {}
  BY DEF Init, Tellers
<1>2. Cardinality({}) = 0
  BY FS_EmptySet
<1> QED  BY <1>1, <1>2 DEF Init, OutcomeInv, Told

\* Every job that ends tells its one outcome, the true one, and the counters
\* of the admin status agree with what was told, whatever the number of jobs.
THEOREM OutcomesAreTold == Spec => []EventsTellOutcome
<1>1. Init => SafeInv /\ OutcomeInv
  BY SafeInit, OutcomeInit
<1>2. SafeInv /\ OutcomeInv /\ [Next]_vars => (SafeInv /\ OutcomeInv)'
  BY SafeNext, OutcomeNext
<1>3. OutcomeInv => EventsTellOutcome
  BY DEF OutcomeInv, EventsTellOutcome, Told, Outcomes, Tellers
<1> QED  BY <1>1, <1>2, <1>3, PTL DEF Spec

-----------------------------------------------------------------------------
(* What a step does to the documents and the caches.                        *)

\* What a step of the request or the worker of job j does to the store.
Untouched(k) == /\ cached'[k] = cached[k] /\ copy'[k] = copy[k] /\ pc'[k] = pc[k]
                /\ gcsStatus'[k] = gcsStatus[k] /\ (k \in results' <=> k \in results)
                /\ (k \in cleared' <=> k \in cleared)
WorkerSees(j) ==
    /\ UNCHANGED loadVars
    /\ \A k \in Jobs \ {j} : Untouched(k)
    /\ \/ /\ cached'[j] = cached[j] /\ copy'[j] = copy[j] /\ pc[j] # "idle"
          /\ j \in cleared' <=> j \in cleared
       \/ cached'[j] = "live" /\ copy'[j] = NoRecord
    /\ pc[j] # "lost" /\ pc'[j] \notin {"idle", "lost"}
    /\ j \in results' => j \in results \/ pc'[j] = "savingResult"

LEMMA WorkerStep ==
    ASSUME TypeInv, NEW j \in Jobs, Submit(j) \/ Worker(j)
    PROVE  WorkerSees(j)
<1> DEFINE Filed == \A k \in Jobs \ {j} : gcsStatus'[k] = gcsStatus[k]
           Alive == \/ cached' = cached /\ copy' = copy /\ cleared' = cleared /\ pc[j] # "idle"
                    \/ StoreLive(j)
           Held  == results' = results \/ (results' = results \cup {j} /\ pc'[j] = "savingResult")
           Gone  == \E p \in Place \ {"idle", "lost"} : pc' = [pc EXCEPT ![j] = p]
<1>t. /\ pc \in [Jobs -> Place] /\ cached \in [Jobs -> {"absent", "live", "copy"}]
      /\ copy \in [Jobs -> Record] /\ gcsStatus \in [Jobs -> Record]
  BY DEF TypeInv, TypeOK, StoreTypeOK
<1>w. ASSUME Filed, Alive, Held, Gone, pc[j] # "lost", UNCHANGED loadVars
      PROVE  WorkerSees(j)
  BY <1>w, <1>t DEF WorkerSees, Untouched, StoreLive
<1> USE DEF Place, Working, Queueing, Ended
<1>u. ASSUME NEW o \in UploadOutcome, StatusUploaded(j, rec[j], o) PROVE Filed
  BY <1>u, <1>t DEF StatusUploaded
<1>l. ASSUME NEW r, NEW evs, FileLoop(j, r, evs) PROVE Held /\ Gone
  BY <1>l, <1>t DEF FileLoop, StoreResult, Leave, Goto
<1>f. ASSUME Fail(j) PROVE Held /\ Gone /\ StoreLive(j)
  BY <1>f DEF Fail, Goto
<1>b. ASSUME Begin(j) PROVE Gone /\ StoreLive(j)
  <2>1. CASE Throttled(j)
    BY <1>b, <2>1 DEF Begin, Goto
  <2>2. CASE ~Throttled(j)
    BY <1>b, <2>2 DEF Begin, Goto
  <2> QED  BY <2>1, <2>2
<1> HIDE DEF Filed, Alive, Held, Gone, Place, Working, Queueing, Ended
<1>1. CASE Submit(j)
  <2>1. Filed /\ Alive /\ Held /\ Gone
    BY <1>1 DEF Submit, Goto, bucketVars, Filed, Alive, Held, Gone, Place
  <2> QED  BY <1>1, <2>1, <1>w DEF Submit
<1>2. ASSUME NEW o \in UploadOutcome, Registered(j, o) \/ StartPersisted(j, o)
      PROVE  WorkerSees(j)
  <2>1. Alive /\ Held /\ Gone
    BY <1>2 DEF Registered, StartPersisted, Leave, Goto, Alive, Held, Gone, Place, Ended,
                Queueing, Working
  <2> QED  BY <1>2, <2>1, <1>u, <1>w DEF Registered, StartPersisted
<1>3. ASSUME Dispatch(j) \/ Resume(j) PROVE WorkerSees(j)
  <2>1. Alive /\ Gone
    BY <1>3, <1>b DEF Dispatch, Resume, Goto, Alive, Gone, Place, Queueing
  <2>2. Filed /\ Held
    BY <1>3 DEF Dispatch, Resume, bucketVars, Filed, Held
  <2> QED  BY <1>3, <2>1, <2>2, <1>w DEF Dispatch, Resume
<1>4. ASSUME NEW n \in 1 .. MaxFiles, Planned(j, n) PROVE WorkerSees(j)
  <2>1. Held /\ Gone
    BY <1>4, <1>l DEF Planned, Goto, Held, Gone, Place, Working
  <2>2. Filed /\ Alive
    BY <1>4 DEF Planned, bucketVars, Filed, Alive
  <2> QED  BY <1>4, <2>1, <2>2, <1>w DEF Planned
<1>5. ASSUME PlanFails(j) \/ ProcessFails(j) PROVE WorkerSees(j)
  <2>1. Filed /\ Alive
    BY <1>5, <1>f DEF PlanFails, ProcessFails, bucketVars, Filed, Alive
  <2> QED  BY <1>5, <2>1, <1>f, <1>w DEF PlanFails, ProcessFails
<1>6. ASSUME NEW o \in UploadOutcome, TotalPersisted(j, o) \/ ProgressPersisted(j, o)
      PROVE  WorkerSees(j)
  <2>1. Filed
    BY <1>6, <1>u DEF TotalPersisted, ProgressPersisted
  <2>2. Alive /\ Held /\ Gone
    BY <1>6, <1>l, <1>f DEF TotalPersisted, ProgressPersisted, Alive
  <2> QED  BY <1>6, <2>1, <2>2, <1>w DEF TotalPersisted, ProgressPersisted
<1>7. ASSUME Processed(j) PROVE WorkerSees(j)
  <2>1. Held /\ Gone
    BY <1>7, <1>l DEF Processed, Goto, Held, Gone, Place, Working
  <2>2. Filed /\ Alive
    BY <1>7 DEF Processed, bucketVars, Filed, Alive
  <2> QED  BY <1>7, <2>1, <2>2, <1>w DEF Processed
<1>8. ASSUME NEW o \in UploadOutcome, ResultSaved(j, o) PROVE WorkerSees(j)
  <2>1. Filed
    BY <1>8 DEF ResultSaved, ResultUploaded, Filed
  <2>2. Alive /\ Held /\ Gone
    BY <1>8, <1>f DEF ResultSaved, Goto, Alive, Held, Gone, Place, Working
  <2> QED  BY <1>8, <2>1, <2>2, <1>w DEF ResultSaved
<1>9. ASSUME NEW o \in UploadOutcome, SuccessPersisted(j, o) \/ FailurePersisted(j, o)
      PROVE  WorkerSees(j)
  <2>1. Filed
    BY <1>9, <1>u DEF SuccessPersisted, FailurePersisted
  <2>2. Alive /\ Held /\ Gone
    BY <1>9, <1>f
    DEF SuccessPersisted, FailurePersisted, Leave, Goto, Alive, Held, Gone, Place, Ended
  <2> QED  BY <1>9, <2>1, <2>2, <1>w DEF SuccessPersisted, FailurePersisted
<1> QED
  BY <1>1, <1>2, <1>3, <1>4, <1>5, <1>6, <1>7, <1>8, <1>9 DEF Worker

\* What a read of the API does to the store.
ReadSees ==
    /\ UNCHANGED <<pc, rec, cleared, bucketVars>>
    /\ \A l \in statusLoads' : \/ l \in statusLoads \/ (~l.read /\ l.doc = NoRecord)
                               \/ l.read /\ l.doc = gcsStatus[l.job]
    /\ \A l \in resultLoads' : l \in resultLoads \/ (l.hit => l.job \in gcsResult)
    /\ \A k \in Jobs :
         /\ \/ cached'[k] = cached[k] /\ copy'[k] = copy[k]
            \/ /\ cached[k] = "absent" /\ cached'[k] = "copy"
               /\ \E l \in statusLoads : l.job = k /\ l.read /\ copy'[k] = l.doc
                                         /\ l.doc # NoRecord
         /\ k \in results' => \/ k \in results
                              \/ \E l \in resultLoads : l.job = k /\ l.hit

LEMMA ReadStep ==
    ASSUME TypeInv, Read
    PROVE  ReadSees
<1>t. /\ cached \in [Jobs -> {"absent", "live", "copy"}] /\ copy \in [Jobs -> Record]
      /\ statusLoads \subseteq StatusLoad /\ resultLoads \subseteq ResultLoad
  BY DEF TypeInv, TypeOK, StoreTypeOK
<1>r. UNCHANGED <<pc, rec>> /\ ReadThrough
  BY DEF Read, workerVars
<1>1. ASSUME NEW j \in Polled, GetMisses(j) \/ GetResultMisses(j) PROVE ReadSees
  BY <1>1, <1>r DEF GetMisses, GetResultMisses, memoryVars, bucketVars, ReadSees
<1>2. ASSUME NEW l \in statusLoads, StatusRead(l) PROVE ReadSees
  <2> DEFINE m == [l EXCEPT !.read = TRUE, !.doc = gcsStatus[l.job]]
  <2>1. m.job = l.job /\ m.read /\ m.doc = gcsStatus[l.job]
    <3>1. l \in StatusLoad
      BY <1>t
    <3> QED  BY <3>1 DEF StatusLoad
  <2> QED  BY <1>2, <1>r, <2>1 DEF StatusRead, memoryVars, bucketVars, ReadSees
<1>3. ASSUME NEW l \in statusLoads, GetReturns(l) PROVE ReadSees
  <2>1. l.job \in Jobs
    BY <1>t DEF StatusLoad
  <2> QED  BY <1>3, <1>r, <1>t, <2>1 DEF GetReturns, bucketVars, ReadSees
<1>4. ASSUME NEW l \in resultLoads, ResultRead(l) PROVE ReadSees
  <2> DEFINE m == [l EXCEPT !.read = TRUE, !.hit = (l.job \in gcsResult)]
  <2>1. m.job = l.job /\ m.hit = (l.job \in gcsResult)
    <3>1. l \in ResultLoad
      BY <1>t
    <3> QED  BY <3>1 DEF ResultLoad
  <2> QED  BY <1>4, <1>r, <2>1 DEF ResultRead, memoryVars, bucketVars, ReadSees
<1>5. ASSUME NEW l \in resultLoads, GetResultReturns(l) PROVE ReadSees
  BY <1>5, <1>r DEF GetResultReturns, bucketVars, ReadSees
<1>6. ASSUME LoadFails PROVE ReadSees
  BY <1>6, <1>r DEF LoadFails, memoryVars, bucketVars, ReadSees
<1> QED  BY <1>r, <1>1, <1>2, <1>3, <1>4, <1>5, <1>6 DEF ReadThrough

\* A cancellation, the clock and a stutter leave everything where it is.
Nothing == UNCHANGED <<cached, copy, cleared, results, loadVars, bucketVars, pc, rec>>

LEMMA NothingStep ==
    ASSUME (\E j \in Jobs : Cancel(j) \/ Time(j)) \/ UNCHANGED vars
    PROVE  Nothing
  BY DEF Cancel, MarkCancelled, Time, ThrottleElapses, vars, memoryVars, workerVars, Nothing

LEMMA Steps ==
    ASSUME TypeInv, [Next]_vars
    PROVE  (\E j \in Jobs : WorkerSees(j)) \/ ReadSees \/ Nothing \/ Clear \/ Crash
  BY WorkerStep, ReadStep, NothingStep DEF Next

-----------------------------------------------------------------------------
(* The totals.                                                             *)

\* Whoever says that there is a result is right, and the result that is
\* cached but not in the bucket was made of all the files.
TotalInv ==
    /\ \A k \in Jobs : gcsStatus[k].summary => k \in gcsResult
    /\ \A k \in Jobs : copy[k].summary => k \in gcsResult
    /\ \A l \in statusLoads : l.doc.summary => l.job \in gcsResult
    /\ \A l \in resultLoads : l.hit => l.job \in gcsResult
    /\ \A k \in results : \/ k \in gcsResult
                          \/ /\ pc[k] \in {"savingResult", "persistFailed", "done", "escaped"}
                             /\ rec[k].total > 0 /\ rec[k].done = rec[k].total

\* What is in the bucket stays there, and a document says what a record said.
LEMMA BucketGrows ==
    ASSUME SafeInv, [Next]_vars, NEW k \in Jobs
    PROVE  /\ k \in gcsResult => k \in gcsResult'
           /\ gcsStatus'[k] = gcsStatus[k] \/ gcsStatus'[k] = rec[k]
<1>1. LocalStep(k) \/ Stays(k) \/ Dies(k)
  BY OneJob DEF SafeInv
<1> QED
  BY <1>1 DEF LocalStep, Stays, Dies, Queues, Continues, Breaks, Saves, Ends, Counts,
              MayPut, Puts, Keeps

\* The counts of a finished run do not change any more.
LEMMA CountsStay ==
    ASSUME SafeInv, [Next]_vars, NEW k \in Jobs, pc'[k] # "lost",
           pc[k] \in {"savingResult", "persistFailed", "done", "escaped"}
    PROVE  \/ k \in gcsResult'
           \/ /\ pc'[k] \in {"savingResult", "persistFailed", "done", "escaped"}
              /\ rec'[k].total = rec[k].total /\ rec'[k].done = rec[k].done
<1>1. LocalStep(k) \/ Stays(k) \/ Dies(k)
  BY OneJob DEF SafeInv
<1>2. rec[k] \in Record
  BY DEF SafeInv, TypeInv, TypeOK
<1>3. CASE Stays(k) \/ Dies(k)
  BY <1>3 DEF Stays, Dies, Remains
<1>4. CASE LocalStep(k)
  BY <1>2, <1>4 DEF LocalStep, Queues, Continues, Breaks, Saves, Ends, Counts, Fails, Moves,
                    Remains, Becomes, Record, Queueing
<1> QED  BY <1>1, <1>3, <1>4

LEMMA TotalNext == SafeInv /\ TotalInv /\ [Next]_vars => TotalInv'
<1> SUFFICES ASSUME SafeInv, TotalInv, [Next]_vars PROVE TotalInv'
  OBVIOUS
<1>t. TypeInv /\ SafeInv'
  BY SafeNext DEF SafeInv
<1>y. /\ \A l \in statusLoads : l.job \in Jobs
      /\ \A l \in resultLoads : l.job \in Jobs
      /\ results \subseteq Jobs
  BY <1>t DEF TypeInv, TypeOK, StoreTypeOK, StatusLoad, ResultLoad
<1>g. \A k \in Jobs : k \in gcsResult => k \in gcsResult'
  BY BucketGrows
<1>1. \A k \in Jobs : gcsStatus'[k].summary => k \in gcsResult'
  BY BucketGrows DEF TotalInv, SafeInv, JobInv, ResultPart
<1>2. CASE \E j \in Jobs : WorkerSees(j)
  <2> PICK j \in Jobs : WorkerSees(j)
    BY <1>2
  <2>1. \A k \in Jobs : copy'[k].summary => k \in gcsResult'
    BY <1>g DEF WorkerSees, Untouched, TotalInv, NoRecord
  <2>2. /\ \A l \in statusLoads' : l.doc.summary => l.job \in gcsResult'
        /\ \A l \in resultLoads' : l.hit => l.job \in gcsResult'
    BY <1>y, <1>g DEF WorkerSees, loadVars, TotalInv
  <2>3. \A k \in results' : \/ k \in gcsResult'
                            \/ /\ pc'[k] \in {"savingResult", "persistFailed", "done", "escaped"}
                               /\ rec'[k].total > 0 /\ rec'[k].done = rec'[k].total
    <3> SUFFICES ASSUME NEW k \in results', k \notin gcsResult'
                 PROVE  /\ pc'[k] \in {"savingResult", "persistFailed", "done", "escaped"}
                        /\ rec'[k].total > 0 /\ rec'[k].done = rec'[k].total
      OBVIOUS
    <3>1. k \in Jobs
      BY <1>t DEF SafeInv, TypeInv, TypeOK, StoreTypeOK
    <3>2. CASE k = j /\ pc'[k] = "savingResult"
      BY <1>t, <3>1, <3>2 DEF SafeInv, JobInv, LoopPart
    <3>3. CASE k \in results
      <4>1. /\ pc[k] \in {"savingResult", "persistFailed", "done", "escaped"}
            /\ rec[k].total > 0 /\ rec[k].done = rec[k].total
        BY <1>g, <3>1, <3>3 DEF TotalInv
      <4>2. pc'[k] # "lost"
        BY <3>1, <4>1 DEF WorkerSees, Untouched
      <4> QED  BY <3>1, <4>1, <4>2, CountsStay
    <3> QED  BY <3>1, <3>2, <3>3 DEF WorkerSees, Untouched
  <2> QED  BY <1>1, <2>1, <2>2, <2>3 DEF TotalInv
<1>3. CASE ReadSees
  <2>1. /\ pc' = pc /\ rec' = rec /\ gcsResult' = gcsResult /\ gcsStatus' = gcsStatus
    BY <1>3 DEF ReadSees, bucketVars
  <2>2. \A l \in statusLoads' : l.doc.summary => l.job \in gcsResult'
    <3>1. \A l \in statusLoads' : l.job \in Jobs
      BY <1>t DEF SafeInv, TypeInv, TypeOK, StoreTypeOK, StatusLoad
    <3> QED  BY <1>3, <2>1, <3>1 DEF ReadSees, TotalInv, NoRecord
  <2>3. \A l \in resultLoads' : l.hit => l.job \in gcsResult'
    BY <1>3, <2>1 DEF ReadSees, TotalInv
  <2>4. \A k \in Jobs : copy'[k].summary => k \in gcsResult'
    BY <1>3, <2>1 DEF ReadSees, TotalInv
  <2>5. \A k \in results' : k \in results \/ k \in gcsResult
    <3>1. results' \subseteq Jobs
      BY <1>t DEF SafeInv, TypeInv, TypeOK, StoreTypeOK
    <3> QED  BY <1>3, <3>1 DEF ReadSees, TotalInv
  <2> QED  BY <1>1, <2>1, <2>2, <2>3, <2>4, <2>5 DEF TotalInv
<1>4. CASE Nothing
  BY <1>4 DEF Nothing, loadVars, bucketVars, TotalInv
<1>5. CASE Clear
  BY <1>5 DEF Clear, ClearCaches, workerVars, loadVars, bucketVars, TotalInv, NoRecord
<1>6. CASE Crash
  BY <1>1, <1>6 DEF Crash, LoseMemory, TotalInv, NoRecord
<1> QED  BY <1>t, <1>2, <1>3, <1>4, <1>5, <1>6, Steps

LEMMA TotalInit == Init => TotalInv
  BY DEF Init, StoreInit, EmptyMemory, NoRecord, TotalInv

\* The totals the listing shows of a job are those of all its files, although
\* save_result caches them before they are durable.
THEOREM TotalsShownAreFinal == Spec => []TotalsAreFinal
<1>1. Init => SafeInv /\ TotalInv
  BY SafeInit, TotalInit
<1>2. SafeInv /\ TotalInv /\ [Next]_vars => (SafeInv /\ TotalInv)'
  BY SafeNext, TotalNext
<1>3. SafeInv /\ TotalInv => TotalsAreFinal
  BY DEF TotalInv, SafeInv, JobInv, ResultPart, TotalsAreFinal, ShowsTotals
<1> QED  BY <1>1, <1>2, <1>3, PTL DEF Spec

-----------------------------------------------------------------------------
(* What the polls see.                                                     *)

LEMMA SeenNext == TypeInv /\ PollsSeeTheWorker /\ [Next]_vars => PollsSeeTheWorker'
<1> SUFFICES ASSUME TypeInv, PollsSeeTheWorker, [Next]_vars,
                    NEW k \in Jobs, pc'[k] \notin {"idle", "lost"}, k \notin cleared'
             PROVE  cached'[k] = "live"
  BY DEF PollsSeeTheWorker
<1>1. ASSUME NEW j \in Jobs, WorkerSees(j) PROVE cached'[k] = "live"
  BY <1>1 DEF WorkerSees, Untouched, PollsSeeTheWorker
\* An entry that a read of the bucket makes was absent before.
<1>2. CASE ReadSees
  BY <1>2 DEF ReadSees, PollsSeeTheWorker
<1>3. CASE Nothing
  BY <1>3 DEF Nothing, PollsSeeTheWorker
\* A clear notes the jobs it takes from the polls.
<1>4. CASE Clear
  BY <1>4 DEF Clear, ClearCaches, workerVars, PollsSeeTheWorker
<1>5. CASE Crash
  BY <1>5 DEF Crash
<1> QED  BY <1>1, <1>2, <1>3, <1>4, <1>5, Steps

\* A read of the bucket that a clear let through, and that comes back when the
\* worker has stored its record again, does not cover the record: polls see
\* the worker's values, whatever the reads, clears and crashes.
THEOREM WorkerIsSeen == Spec => []PollsSeeTheWorker
<1>1. Init => TypeInv /\ PollsSeeTheWorker
  BY TypeInit DEF Init, StoreInit, EmptyMemory, PollsSeeTheWorker
<1>2. TypeInv /\ PollsSeeTheWorker /\ [Next]_vars => (TypeInv /\ PollsSeeTheWorker)'
  BY TypeNext, SeenNext
<1> QED  BY <1>1, <1>2, PTL DEF Spec

=============================================================================
