----------------------------- MODULE SourceJobs -----------------------------
(***************************************************************************)
(* From the request of a job to the rows of its result: how the source is  *)
(* chosen, how the files are listed or downloaded, how they go one by one  *)
(* over the local disk, and what is counted on the way.                    *)
(*                                                                         *)
(* Several jobs run at once in their threads.  Meanwhile an operator       *)
(* changes the configuration, somebody rotates a secret, the pipeline that *)
(* fills the buckets delivers files, and the process may be replaced.      *)
(* Semaphore, cancellation, status uploads and events of a job are the     *)
(* subject of BacktestJobs, what is found in one file that of MarketReplay;*)
(* here a file holds markets, each with its bets.                          *)
(***************************************************************************)
EXTENDS Settings, SecretsCache, FiniteSets, Sequences, SequencesExt, FiniteSetsExt

CONSTANTS
    Requests,      \* the requests clients send
    None,          \* a source, or a persist_to_bucket, that is not given
    Days,          \* the days of files and races
    Names,         \* the base names of files
    Stem,          \* what a name is without .bz2; any other name is its own
    Delivered,     \* the objects in the source buckets at the start
    Deliveries,    \* the objects the pipeline may still deliver
    RemoteFiles,   \* what Betfair offers: files with a day, a country, a name
    Content,       \* the markets in a file, by its day and name
    Feed,          \* what the replay of a market gives: day, country, bets, voids
    MaxChanges     \* bound: reconfigurations, rotations, deliveries, restarts,
                   \* and local files that cannot be removed

Jobs == Callers      \* each job asks for credentials in its own thread

(***************************************************************************)
(* A blob is {location}{day prefix}{name}, or lies directly below the      *)
(* location, which is day 0.  A DateRange is the set of the days it spans, *)
(* {} when a request has none (a source always has one, of a day or more). *)
(* One filter, the countries, stands for that and the market types; {} is  *)
(* no filter.  The country "" is that of a market without a country_code.  *)
(***************************************************************************)
Blob == [at : Locations, day : Days \cup {0}, name : Names]
RemoteFile == [day : Days, country : STRING, name : Names]
Bz2 == {n \in Names : Stem[n] # n}
Paths == Names \cup {Stem[n] : n \in Names}     \* in the work directory of a job
Gcs(at, range, countries) ==
    [kind |-> "gcs", at |-> at, range |-> range, countries |-> countries]
Historic(persist, range, countries) ==
    [kind |-> "betfair_historic", at |-> persist, range |-> range, countries |-> countries]
Source == [kind : {"gcs", "betfair_historic"}, at : Locations \cup {None},
           range : (SUBSET Days) \ {{}}, countries : SUBSET STRING]
Request == [inline : Source \cup {None}, override : Source \cup {None},
            range : SUBSET Days, countries : SUBSET STRING]

ASSUME SourcesAssumption ==
    /\ Days \subseteq Nat \ {0}
    /\ \A n \in Bz2 : Stem[n] \notin Names
    /\ \A m, n \in Names : Stem[m] = Stem[n] => m = n
    /\ Delivered \subseteq Blob /\ IsFiniteSet(Delivered) /\ Deliveries \subseteq Blob
    /\ RemoteFiles \subseteq RemoteFile
    /\ Requests \subseteq Request
    /\ None \notin Blob \cup RemoteFile
    /\ \A d \in Days \cup {0}, n \in Names :
         IsFiniteSet(Content[d, n]) /\ Content[d, n] \subseteq DOMAIN Feed
    /\ \A m \in DOMAIN Feed : Feed[m].bets \in Nat /\ Feed[m].voids \in 0 .. Feed[m].bets

VARIABLES
    work,       \* what BacktestService.run has of each job
    blobs,      \* the objects in the source buckets
    docs,       \* the documents in the results buckets
    changes     \* counter for the bound

vars == <<settingsVars, secretsVars, work, blobs, docs, changes>>

Ended == {"succeeded", "failed", "cancelled"}
Place == {"idle", "queued", "listing", "listingRemote", "downloading", "fetching",
          "processing", "streaming", "saving", "lost"} \cup Ended

Counts == [markets : Nat, bets : Nat, voids : Nat]
NoCounts == [markets |-> 0, bets |-> 0, voids |-> 0]

\* The record of a job and the local variables of run().
NoWork ==
    [pc       |-> "idle",
     request  |-> None,        \* record.request
     tag      |-> "gcs",       \* record.source_mode
     source   |-> None,        \* the source _plan_sources resolved
     todo     |-> {},          \* days to list, or remote files to download
     items    |-> <<>>,        \* file_items: blobs, or remote files by local path
     disk     |-> [p \in Paths |-> None],    \* whose bytes are at a path
     next     |-> 1,           \* file_idx
     rows     |-> <<>>,        \* market_rows: per file the markets that have rows
     progress |-> NoCounts,    \* markets_processed, bets_recorded
     summary  |-> NoCounts,    \* the summary of the saved result
     atStart  |-> {},          \* history: the blobs when the listing began
     mirrored |-> {},          \* history: the remote files that were mirrored
     read     |-> <<>>,        \* history: whose bytes made the rows, per file
     stuck    |-> {}]          \* history: the paths a removal failed for

Init ==
    /\ SettingsInit
    /\ SecretsInit
    /\ work = [j \in Jobs |-> NoWork]
    /\ blobs = Delivered
    /\ docs = {}
    /\ changes = 0

-----------------------------------------------------------------------------
Become(j, w) == work' = [work EXCEPT ![j] = w]
At(j, place) == work[j].pc = place

\* status.json or result.json of a job, in a bucket of results.
Document(bucket, j, name) == [bucket |-> bucket, job |-> j, name |-> name]
WriteDocument(j, name) == docs' = docs \cup {Document(ResultsBucket, j, name)}

\* What may remain when some of the paths are removed: an unlink that raises
\* OSError is only logged, and rmtree ignores errors.
OnDisk(w) == {p \in Paths : w.disk[p] # None}
Unremoved(w, paths) ==
    {kept \in SUBSET (paths \cap OnDisk(w)) : changes + Cardinality(kept) <= MaxChanges}

\* Each file that remains counts against the bound.
Leave(kept) == changes' = changes + Cardinality(kept)

RemoveFiles(w, paths, kept) ==
    [w EXCEPT !.disk = [p \in Paths |-> IF p \in paths \ kept THEN None ELSE @[p]],
              !.stuck = @ \cup kept]

\* run() ends: the finally block removes the work directory.
End(j, w, place) ==
    \E kept \in Unremoved(w, Paths) :
        Become(j, [RemoveFiles(w, Paths, kept) EXCEPT !.pc = place]) /\ Leave(kept)

\* The except block: FAILED.
Fail(j, w) == End(j, w, "failed")

\* Mutant: the override is looked at before the plugin's own source.
OverrideTag(r) == IF r.override # None THEN r.override.kind
                  ELSE IF r.inline # None THEN r.inline.kind ELSE "gcs"

\* submit_backtest: the source mode that the record is tagged with.
SourceMode(r) == IF r.inline # None THEN r.inline.kind
                 ELSE IF r.override # None THEN r.override.kind ELSE "gcs"

\* A request is accepted: register() writes the first status document.
Submit(j, r) ==
    /\ At(j, "idle")
    /\ Become(j, [NoWork EXCEPT !.pc = "queued", !.request = r, !.tag = SourceMode(r)])
    /\ WriteDocument(j, "status.json")
    /\ UNCHANGED <<settingsVars, secretsVars, blobs, changes>>

\* _resolve_source, for a request that has a source or a date range.
Resolvable(r) == r.inline # None \/ r.override # None \/ r.range # {}
ResolveSource(r) ==
    IF r.inline # None THEN r.inline
    ELSE IF r.override # None THEN r.override
    ELSE Gcs(settings.source, r.range, r.countries)

\* run() reaches _plan_sources, which resolves the source (or raises) and
\* hands the listing or the download to a thread.
Plan(j) ==
    /\ At(j, "queued")
    /\ IF ~Resolvable(work[j].request)
       THEN Fail(j, work[j]) /\ UNCHANGED fetch
       ELSE LET s == ResolveSource(work[j].request)
                w == [work[j] EXCEPT !.source = s]
            IN  /\ IF s.kind = "gcs"
                   THEN /\ Become(j, [w EXCEPT !.pc = "listing", !.todo = s.range,
                                               !.atStart = blobs])
                        /\ UNCHANGED fetch
                   ELSE Become(j, [w EXCEPT !.pc = "listingRemote"]) /\ StartFetch(j)
                /\ UNCHANGED changes
    /\ UNCHANGED <<settingsVars, latest, bornWith, secretCache, blobs, docs>>

-----------------------------------------------------------------------------
(* GCS: list_historic_files, then one file at a time.                      *)

\* Mutant: the day prefix without its trailing slash.
UnderPrefixOf(b, d) == b.day = d \/ b.day \div 10 = d

\* The name of the blob starts with {year}/{month}/{day}/.
UnderDay(b, d) == b.day = d

DayListing(s, d) == {b \in blobs : b.at = s.at /\ UnderDay(b, d) /\ b.name \in Bz2}

\* One day prefix is listed; after the last one an empty list raises.
ListDay(j) ==
    LET w == work[j]
        d == Min(w.todo)
        found == w.items \o SetToSeq(DayListing(w.source, d))
    IN  /\ At(j, "listing")
        /\ IF w.todo = {d} /\ found = <<>> THEN Fail(j, w)
           ELSE /\ Become(j, [w EXCEPT !.todo = @ \ {d}, !.items = found,
                                       !.pc = IF w.todo = {d} THEN "fetching" ELSE @])
                /\ UNCHANGED changes
        /\ UNCHANGED <<settingsVars, secretsVars, blobs, docs>>

\* download_blob of the file the loop is at, to its base name.
FetchBlob(j) ==
    LET w == work[j]
        b == w.items[w.next]
    IN  /\ At(j, "fetching")
        /\ Become(j, [w EXCEPT !.pc = "processing", !.disk[b.name] = b])
        /\ UNCHANGED <<settingsVars, secretsVars, blobs, docs, changes>>

-----------------------------------------------------------------------------
(* Betfair Historic Data: list_files and download_files, each with its own *)
(* login.                                                                  *)

\* A step of get_betfair_credentials in the thread of the job.
Credentials(j) ==
    /\ FetchStep(j)
    /\ UNCHANGED <<settingsVars, work, blobs, docs, changes>>

\* What get_file_list answers for the range and the filter of a source.
Offered(s) ==
    {f \in RemoteFiles : f.day \in s.range
                         /\ (s.countries = {} \/ f.country \in s.countries)}

\* Logged in: the list of remote files; then the second thread call starts.
ListRemote(j) ==
    /\ At(j, "listingRemote") /\ Ready(j)
    /\ Become(j, [work[j] EXCEPT !.pc = "downloading", !.todo = Offered(work[j].source)])
    /\ StartFetch(j)
    /\ UNCHANGED <<settingsVars, latest, bornWith, secretCache, blobs, docs, changes>>

\* blob_name = target.prefix + local_path.name
MirrorBlob(s, f) == [at |-> s.at, day |-> 0, name |-> f.name]

\* One file is downloaded to its base name, over any other file there, and
\* mirrored if asked for; a refused upload (RuntimeError) is only logged.
Download(j, f, upload) ==
    LET w == work[j]
        mirrors == w.source.at # None /\ upload = "ok"
    IN  /\ At(j, "downloading") /\ Ready(j)
        /\ f \in w.todo
        /\ Become(j, [w EXCEPT !.todo = @ \ {f}, !.items = Append(@, f),
                               !.disk[f.name] = f,
                               !.mirrored = IF mirrors THEN @ \cup {f} ELSE @])
        /\ blobs' = IF mirrors THEN blobs \cup {MirrorBlob(w.source, f)} ELSE blobs
        /\ UNCHANGED <<settingsVars, secretsVars, docs, changes>>

\* download_files returns; no file at all raises.
Downloaded(j) ==
    /\ At(j, "downloading") /\ Ready(j) /\ work[j].todo = {}
    /\ IF work[j].items = <<>> THEN Fail(j, work[j])
       ELSE Become(j, [work[j] EXCEPT !.pc = "processing"]) /\ UNCHANGED changes
    /\ EndFetch(j)
    /\ UNCHANGED <<settingsVars, latest, bornWith, secretCache, blobs, docs>>

-----------------------------------------------------------------------------
(* The loop over the files.                                                *)

\* The head of the loop: a cancelled job leaves it, with no further update().
Cancelled(j) ==
    /\ At(j, "fetching") \/ (At(j, "processing") /\ work[j].source.kind # "gcs")
    /\ End(j, work[j], "cancelled")
    /\ UNCHANGED <<settingsVars, secretsVars, blobs, docs>>

\* The start of _process_file.  A file that is not there any more raises; a
\* decompressed copy that is there already is not made again.
Decompress(j) ==
    LET w == work[j]
        name == w.items[w.next].name
    IN  /\ At(j, "processing")
        /\ IF w.disk[Stem[name]] = None /\ w.disk[name] = None THEN Fail(j, w)
           ELSE /\ Become(j, [w EXCEPT !.pc = "streaming",
                               !.disk[Stem[name]] = IF @ = None THEN w.disk[name] ELSE @])
                /\ UNCHANGED changes
        /\ UNCHANGED <<settingsVars, secretsVars, blobs, docs>>

\* The filter of evaluate(): a market without a country passes.
PassesFilter(s, m) ==
    s.countries = {} \/ Feed[m].country = "" \/ Feed[m].country \in s.countries

\* The markets of a file that get rows: they race within the range of the
\* resolved source, pass its filter, and the strategy bets on them.
MarketsWithRows(s, f) ==
    {m \in Content[f.day, f.name] :
        Feed[m].day \in s.range /\ PassesFilter(s, m) /\ Feed[m].bets > 0}

BetsOf(ms) == SumFunction([m \in ms |-> Feed[m].bets])
VoidsOf(ms) == SumFunction([m \in ms |-> Feed[m].voids])

\* Mutant: a row per market for the progress.
CountRows(c, ms) ==
    [c EXCEPT !.markets = @ + BetsOf(ms), !.bets = @ + BetsOf(ms) - VoidsOf(ms)]

\* The progress after a file with rows of the markets ms: its distinct
\* markets, and its rows that are not void.
CountFile(c, ms) ==
    [c EXCEPT !.markets = @ + Cardinality(ms), !.bets = @ + BetsOf(ms) - VoidsOf(ms)]

\* _summarise: distinct markets over all files, every row, the void ones.
Summarise(fileRows) ==
    [markets |-> Cardinality(UNION Range(fileRows)),
     bets    |-> SumFunction([k \in DOMAIN fileRows |-> BetsOf(fileRows[k])]),
     voids   |-> SumFunction([k \in DOMAIN fileRows |-> VoidsOf(fileRows[k])])]

\* Mutant: only the file that was streamed is removed.
StreamOnly(name) == {Stem[name]}

\* What _process_file removes: the file and what it was decompressed to.
TempFiles(name) == {Stem[name], name}

\* The rest of _process_file, which resolves the source again, and the
\* counters; some of the local files may remain.
ProcessFile(j, kept) ==
    LET w == work[j]
        name == w.items[w.next].name
        f == w.disk[Stem[name]]
        ms == MarketsWithRows(ResolveSource(w.request), f)
        after == [RemoveFiles(w, TempFiles(name), kept) EXCEPT
                    !.rows = Append(@, ms), !.read = Append(@, f),
                    !.progress = CountFile(@, ms), !.next = @ + 1]
    IN  /\ At(j, "streaming")
        /\ kept \in Unremoved(w, TempFiles(name))
        /\ Become(j, [after EXCEPT !.pc =
                        IF w.next = Len(w.items) THEN "saving"
                        ELSE IF w.source.kind = "gcs" THEN "fetching" ELSE "processing"])
        /\ Leave(kept)
        /\ UNCHANGED <<settingsVars, secretsVars, blobs, docs>>

\* save_result, the last status document, and the finally block.
Save(j) ==
    /\ At(j, "saving")
    /\ WriteDocument(j, "result.json")
    /\ End(j, [work[j] EXCEPT !.summary = Summarise(work[j].rows)], "succeeded")
    /\ UNCHANGED <<settingsVars, secretsVars, blobs>>

\* A call into GCS, Secret Manager or Betfair raises.
CallRaises(j) ==
    /\ \/ work[j].pc \in {"listing", "fetching", "processing", "streaming", "saving"}
       \/ /\ work[j].pc \in {"listingRemote", "downloading"}
          /\ fetch[j].doing \in {"access", "ready"}
    /\ Fail(j, work[j])
    /\ EndFetch(j)
    /\ UNCHANGED <<settingsVars, latest, bornWith, secretCache, blobs, docs>>

-----------------------------------------------------------------------------
(* The world around the jobs.                                              *)

Change == changes < MaxChanges /\ changes' = changes + 1

Configure ==
    /\ Change
    /\ \E new \in SettingsValue : new # settings /\ PutConfig(new)
    /\ UNCHANGED <<secretsVars, work, blobs, docs>>

RotateSecret ==
    /\ Change
    /\ \E s \in Secrets : Rotate(s)
    /\ UNCHANGED <<settingsVars, work, blobs, docs>>

\* The pipeline delivers a file.
Deliver ==
    /\ Change
    /\ \E b \in Deliveries \ blobs : blobs' = blobs \cup {b}
    /\ UNCHANGED <<settingsVars, secretsVars, work, docs>>

\* The process dies with its jobs, its disk and its caches; another starts.
Restart ==
    /\ Change
    /\ SettingsRestart
    /\ SecretsRestart
    /\ work' = [j \in Jobs |-> IF work[j].pc \in Ended \cup {"idle"} THEN work[j]
                               ELSE [NoWork EXCEPT !.pc = "lost"]]
    /\ UNCHANGED <<blobs, docs>>

\* What the event loop and the threads do for the job j.
Run(j) ==
    \/ Plan(j) \/ ListDay(j) \/ FetchBlob(j)
    \/ Credentials(j) \/ ListRemote(j)
    \/ \E f \in RemoteFiles, upload \in {"ok", "refused"} : Download(j, f, upload)
    \/ Downloaded(j)
    \/ Decompress(j) \/ (\E kept \in SUBSET Paths : ProcessFile(j, kept))
    \/ Cancelled(j) \/ Save(j) \/ CallRaises(j)

Next ==
    \/ \E j \in Jobs : Run(j) \/ \E r \in Requests : Submit(j, r)
    \/ Configure \/ RotateSecret \/ Deliver \/ Restart

Spec == Init /\ [][Next]_vars

-----------------------------------------------------------------------------
(* Properties.                                                             *)

TypeOK ==
    /\ SettingsTypeOK
    /\ SecretsTypeOK
    /\ DOMAIN work = Jobs
    /\ \A j \in Jobs :
         LET w == work[j]
         IN  /\ w.pc \in Place
             /\ w.request \in Requests \cup {None}
             /\ w.disk \in [Paths -> Blob \cup RemoteFile \cup {None}]
             /\ w.stuck \subseteq Paths
             /\ w.next \in 1 .. Len(w.items) + 1
             /\ w.progress \in Counts /\ w.summary \in Counts
    /\ blobs \subseteq Blob
    /\ \A d \in docs : d.bucket \in Buckets /\ d.job \in Jobs

\* The list of a GCS job holds no blob twice, nothing but .bz2 files of the
\* location and the days of its range, and every such file that was there
\* when the listing began; a file delivered meanwhile may be in it or not.
\* Day 1 does not bring day 10 along.
ListingIsExact ==
    \A j \in Jobs :
        LET w == work[j]
            wanted(bs) == {b \in bs : /\ b.at = w.source.at /\ b.day \in w.source.range
                                      /\ b.name \in Bz2}
        IN  w.pc = "fetching" =>
              /\ IsInjective(w.items)
              /\ wanted(w.atStart) \subseteq Range(w.items)
              /\ Range(w.items) \subseteq wanted(blobs)

\* backtest_service.py:236-241: a month of files would exhaust the memory
\* behind the work directory.  Apart from what could not be removed a GCS job
\* has one file there at a time, the one the loop is at, with its decompressed
\* copy, a job that downloads what the loop has still to read, with the copy
\* of one; and a job that ended, in whatever way, leaves nothing.
WorkDirHoldsOneFile ==
    \A j \in Jobs :
        LET w == work[j]
            names(is) == {w.items[i].name : i \in is}
            copied == IF w.pc = "streaming" THEN {Stem[n] : n \in names({w.next})} ELSE {}
        IN  OnDisk(w) \ w.stuck \subseteq
              CASE w.pc \in {"processing", "streaming"} /\ w.source.kind = "gcs"
                       -> names({w.next}) \cup copied
                [] w.pc \in {"downloading", "processing", "streaming"}
                     /\ w.source.kind # "gcs"
                       -> names(w.next .. Len(w.items)) \cup copied
                [] OTHER -> {}

\* A job succeeds only if each file of its list was read, as what it is: of
\* two remote files with one base name the second download replaces the first,
\* and such a job fails rather than count one file twice.  The exception are
\* files that _process_file could not remove: the loop may read the bytes
\* that stayed again in the place of a later file with the same name.
SuccessReadEverything ==
    \A j \in Jobs :
        LET w == work[j]
        IN  w.pc \in {"saving", "succeeded"} =>
              /\ Len(w.rows) = Len(w.items)
              /\ w.source.kind = "betfair_historic" => Range(w.items) = Offered(w.source)
              /\ \A i \in DOMAIN w.items :
                   LET n == w.items[i].name
                   IN  w.read[i] # w.items[i] => {n, Stem[n]} \cap w.stuck # {}

\* The source of a job is chosen twice, by submit_backtest for the tag of the
\* record (main.py:487-492) and by _resolve_source for the files, and a third
\* time for the filter of the rows, when the default bucket may have changed:
\* all three belong to one source, the plugin's own before the request's
\* before the default.  A row is of the days of that source and of one of its
\* countries, or of a market that names none.
RunsOverItsSource ==
    \A j \in Jobs :
        LET w == work[j]
            given == IF w.request.inline # None THEN w.request.inline ELSE w.request.override
        IN  w.source # None =>
              /\ w.tag = w.source.kind
              /\ given # None => w.source = given
              /\ \A ms \in Range(w.rows) : \A m \in ms :
                    /\ Feed[m].day \in w.source.range
                    /\ w.source.countries # {} =>
                         Feed[m].country \in w.source.countries \cup {""}

\* The counts a job shows while it runs and the totals of its result agree
\* up to what they leave out: bets_recorded lacks the void bets, and
\* markets_processed counts a market once per file it has rows in.
CountersAgree ==
    \A j \in Jobs :
        LET w == work[j]
            twice == \E i, k \in DOMAIN w.rows : i # k /\ w.rows[i] \cap w.rows[k] # {}
        IN  w.pc = "succeeded" =>
              /\ w.summary.bets = w.progress.bets + w.summary.voids
              /\ w.summary.markets <= w.progress.markets
              /\ w.summary.markets = w.progress.markets <=> ~twice

\* job_store.py:3: job records are "persisted to GCS so they survive process
\* restarts".  Wherever a reconfiguration points the settings, what was
\* written is found in the bucket that this process, or the next, reads.
DocumentsAreFound ==
    \A j \in Jobs :
        /\ work[j].pc \notin {"idle", "lost"}
             => Document(ResultsBucket, j, "status.json") \in docs
        /\ work[j].pc = "succeeded" => Document(ResultsBucket, j, "result.json") \in docs

-----------------------------------------------------------------------------
(* What the documentation says and the code does not do.                   *)

\* historic_service.py:88-90: a downloaded file is uploaded "so future runs
\* can use the GCS source mode".  A file that was mirrored is found by a
\* listing of the mirror over the day it was requested for.
MirrorServesLaterRuns ==
    \A j \in Jobs : \A f \in work[j].mirrored :
        \E b \in DayListing(work[j].source, f.day) : b.name = f.name

=============================================================================
