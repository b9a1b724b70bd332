--------------------------- MODULE ResultsListing ---------------------------
(***************************************************************************)
(* GET /api/results: the listing of the jobs in memory, newest first, cut  *)
(* into pages, and a reader who fetches page after page while jobs arrive, *)
(* run and end, while the caches are cleared and while polls bring single  *)
(* jobs back from the bucket.                                              *)
(*                                                                         *)
(* A page is computed from one snapshot under the lock of the store, but   *)
(* nothing ties one page to the next.  Jobs are numbered in the order of   *)
(* their submission.                                                       *)
(***************************************************************************)
EXTENDS Naturals, Sequences, FiniteSets, Functions

CONSTANTS
    NumJobs,      \* bound: the jobs submitted
    PageSizes,    \* the page sizes readers ask for
    PluginOf,     \* the plugin of each job
    Filters,      \* the filters readers use: a plugin and a status, or NoFilter
    MaxClears     \* bound: the clears of the caches

Jobs == 1 .. NumJobs

ASSUME PageSizesAssumption == PageSizes \subseteq Nat \ {0} /\ NumJobs \in Nat

VARIABLES
    status,      \* the status of each job as its worker knows it
    memory,      \* JobStore._jobs: the status in the entry of a job
    reader,      \* the filter, page size and position of a reader
    pages,       \* the pages it got
    stayed,      \* history: the jobs it was entitled to all the time
    arrived,     \* history: some job entered the filtered listing meanwhile
    departed,    \* history: some job left it
    clears       \* counter for the bound

vars == <<status, memory, reader, pages, stayed, arrived, departed, clears>>

Rank == [NONE |-> 0, QUEUED |-> 1, RUNNING |-> 2, SUCCEEDED |-> 3]
Status == DOMAIN Rank
NoFilter == "none"     \* a filter that is not given

NoReader == [doing |-> "idle", plugin |-> NoFilter, status |-> NoFilter, size |-> 1, page |-> 1]

Init ==
    /\ status = [j \in Jobs |-> "NONE"]
    /\ memory = [j \in Jobs |-> "NONE"]
    /\ reader = NoReader
    /\ pages = <<>>
    /\ stayed = {} /\ arrived = FALSE /\ departed = FALSE
    /\ clears = 0

-----------------------------------------------------------------------------
(* JobStore.list_results.                                                  *)

\* The jobs of the memory m that pass the filters of the reader.
Listed(m) == {j \in Jobs : /\ m[j] # "NONE"
                           /\ reader.plugin \in {NoFilter, PluginOf[j]}
                           /\ reader.status \in {NoFilter, m[j]}}

\* Mutant: the sort is not reversed.
Older(i, j) == i < j

\* The order of submitted_at, newest first.
Newer(i, j) == i > j

InOrder(S) ==
    CHOOSE s \in [1 .. Cardinality(S) -> S] : \A i, k \in DOMAIN s : i < k => Newer(s[i], s[k])

Items == InOrder(Listed(memory))

\* Mutant: page numbers start at 0.
StartFromZero(page, size) == page * size

\* The index before the first item of a page.
Start(page, size) == (page - 1) * size

\* Mutant: the end of the slice is taken as inclusive.
EndInclusive(start, size) == start + size + 1

\* The index of the last item of the slice items[start : start + page_size].
End(start, size) == start + size

Page == LET start == Start(reader.page, reader.size)
            end == End(start, reader.size)
        IN  [items |-> SubSeq(Items, start + 1, IF end < Len(Items) THEN end ELSE Len(Items)),
             total |-> Len(Items)]

-----------------------------------------------------------------------------
\* A reader starts; the filters and the size stay the same on every page.
StartReading ==
    /\ reader.doing = "idle"
    /\ \E f \in Filters, n \in PageSizes :
         reader' = [doing |-> "reading", plugin |-> f.plugin, status |-> f.status,
                    size |-> n, page |-> 1]
    /\ UNCHANGED <<status, memory, pages, arrived, departed, clears>>
    /\ stayed' = Listed(memory)'

\* GET /api/results?page=...; the reader goes on while the total says there
\* is more.
GetPage ==
    /\ reader.doing = "reading"
    /\ pages' = Append(pages, Page)
    /\ reader' = [reader EXCEPT !.page = @ + 1,
                    !.doing = IF reader.page * reader.size < Page.total THEN @ ELSE "done"]
    /\ UNCHANGED <<status, memory, stayed, arrived, departed, clears>>

\* What a change of the memory to m does to the listing the reader is at (what
\* comes after the last page is of no interest).
Observe(m) ==
    /\ memory' = m
    /\ reader.doing # "done"
    /\ IF reader.doing = "reading"
       THEN /\ stayed' = stayed \cap Listed(m)
            /\ arrived' = (arrived \/ ~(Listed(m) \subseteq Listed(memory)))
            /\ departed' = (departed \/ ~(Listed(memory) \subseteq Listed(m)))
       ELSE UNCHANGED <<stayed, arrived, departed>>
    /\ UNCHANGED <<reader, pages>>

\* register(), and the worker's update() of each new status.
Submit(j) ==
    /\ status[j] = "NONE" /\ \A i \in 1 .. j - 1 : status[i] # "NONE"
    /\ status' = [status EXCEPT ![j] = "QUEUED"]
    /\ Observe([memory EXCEPT ![j] = "QUEUED"])
    /\ UNCHANGED clears

Progress(j) ==
    \E s \in {"RUNNING", "SUCCEEDED"} :
        /\ status[j] # "NONE" /\ Rank[s] = Rank[status[j]] + 1
        /\ status' = [status EXCEPT ![j] = s]
        /\ Observe([memory EXCEPT ![j] = s])
        /\ UNCHANGED clears

\* clear_results_cache(), or a restart.
Clear ==
    /\ clears < MaxClears
    /\ clears' = clears + 1
    /\ Observe([j \in Jobs |-> "NONE"])
    /\ UNCHANGED status

\* get() of a job that is not in memory: the document in the bucket has the
\* status of the job or an earlier one.
Poll(j) ==
    /\ status[j] # "NONE" /\ memory[j] = "NONE"
    /\ \E s \in Status \ {"NONE"} :
         /\ Rank[s] <= Rank[status[j]]
         /\ Observe([memory EXCEPT ![j] = s])
    /\ UNCHANGED <<status, clears>>

Next ==
    \/ StartReading \/ GetPage \/ Clear
    \/ \E j \in Jobs : Submit(j) \/ Progress(j) \/ Poll(j)

Spec == Init /\ [][Next]_vars

-----------------------------------------------------------------------------
(* Properties.                                                             *)

Seen == UNION {Range(pages[k].items) : k \in DOMAIN pages}

\* The positions of the items, over all pages.
Positions == {p \in (DOMAIN pages) \X (1 .. NumJobs) : p[2] <= Len(pages[p[1]].items)}
ItemAt(p) == pages[p[1]].items[p[2]]

\* Every page, by itself, runs from newer to older, holds no more than was
\* asked for and never less while the total says there is more.
PageIsOrderedAndFull ==
    \A k \in DOMAIN pages :
        LET page == pages[k]
            before == (k - 1) * reader.size
        IN  /\ \A i, l \in DOMAIN page.items : i < l => page.items[i] > page.items[l]
            /\ Len(page.items) <= reader.size
            /\ Len(page.items) < reader.size => before + Len(page.items) >= page.total

\* A job that was in the filtered listing from the first request to the last
\* is on some page, however many jobs were submitted meanwhile; it can only
\* be skipped if some job left the listing, by a change of its status or by
\* a clear.
SkippedOnlyAfterDeparture ==
    reader.doing = "done" /\ ~departed => stayed \subseteq Seen

\* A job is shown twice only if some job entered the listing meanwhile.
RepeatedOnlyAfterArrival ==
    ~arrived => \A p, q \in Positions : ItemAt(p) = ItemAt(q) => p = q

=============================================================================
