-------------------------- MODULE SourceJobsProofs --------------------------
(***************************************************************************)
(* What holds of the files, the documents and the credentials of the jobs, *)
(* for any requests, buckets, days, names and secrets, any deliveries and  *)
(* any number of reconfigurations, rotations, restarts and local files     *)
(* that cannot be removed.                                                 *)
(*                                                                         *)
(*   SourceIsOne               Spec => []RunsOverItsSource                 *)
(*   DiskIsSmall               Spec => []WorkDirHoldsOneFile               *)
(*   DocumentsStayFound        Spec => []DocumentsAreFound                 *)
(*   ListingStaysExact         Spec => []ListingIsExact                    *)
(*   CountersEndUpRight        Spec => []CountersAgree                     *)
(*   EverythingIsRead          Spec => []SuccessReadEverything             *)
(*   BundlesAreOfThisProcess   Spec => []BundleOfThisProcess               *)
(*   CacheSettles              Spec => SettledCacheStays                   *)
(*   SourcesAreTyped           Spec => []TypeOK                            *)
(*                                                                         *)
(* The first three speak of the record of one job: Good says of it from    *)
(* which request its source and its rows come and what is on its disk.     *)
(* ListPart compares the list of a job with the buckets others fill,       *)
(* CountsPart what a job has counted with the sums over its rows, and      *)
(* BytesPart the bytes on its disk, and those it read, with its list.  The *)
(* next two speak of the secrets alone; a step of the service is first     *)
(* projected on them.                                                      *)
(***************************************************************************)
EXTENDS SourceJobs, FiniteSums

(* The record of a job.                                                    *)

Shape(w) ==
    w \in [pc : Place, request : {w.request}, tag : {w.tag}, source : {w.source},
           todo : {w.todo}, items : {w.items}, disk : {w.disk}, next : Nat,
           rows : {w.rows}, progress : {w.progress}, summary : {w.summary},
           atStart : {w.atStart}, mirrored : {w.mirrored}, read : {w.read},
           stuck : {w.stuck}]

IsList(s) == s \in Seq(Range(s))

\* The source comes from the request, or from the settings of some moment.
FromRequest(r, s) ==
    IF r.inline # None THEN s = r.inline
    ELSE IF r.override # None THEN s = r.override
    ELSE \E at \in Locations : s = Gcs(at, r.range, r.countries)

RacesIn(s, m) == Feed[m].day \in s.range /\ PassesFilter(s, m)

SourcePart(w) ==
    /\ w.pc \notin {"idle", "lost"} => w.tag = SourceMode(w.request)
    /\ w.pc \in {"idle", "queued", "lost"} => w.source = None /\ w.rows = <<>>
    /\ w.source # None => FromRequest(w.request, w.source)
    /\ IsList(w.rows)
    /\ w.source # None => \A ms \in Range(w.rows) : \A m \in ms : RacesIn(w.source, m)

\* The file the loop is at, the files that a job which downloads has still to
\* process, and the decompressed copy that is being streamed.
Current(w) == w.items[w.next].name
Ahead(w) == {w.items[i].name : i \in w.next .. Len(w.items)}
Copied(w) == IF w.pc = "streaming" THEN {Stem[Current(w)]} ELSE {}

\* What is on the disk apart from what could not be removed.
DiskPart(w) ==
    /\ DOMAIN w.disk = Paths
    /\ w.pc \in {"idle", "queued", "listing", "listingRemote", "downloading"} => w.next = 1
    /\ w.pc \in {"idle", "queued", "listingRemote"} => w.items = <<>>
    /\ w.pc \in {"listing", "fetching"} => w.source.kind = "gcs"
    /\ w.pc \in {"listingRemote", "downloading"} => w.source.kind # "gcs"
    /\ w.pc \notin {"downloading", "processing", "streaming"} => OnDisk(w) \subseteq w.stuck
    /\ w.pc \in {"processing", "streaming"} /\ w.source.kind = "gcs"
         => OnDisk(w) \ w.stuck \subseteq {Current(w)} \cup Copied(w)
    /\ w.pc \in {"downloading", "processing", "streaming"} /\ w.source.kind # "gcs"
         => IsList(w.items) /\ OnDisk(w) \ w.stuck \subseteq Ahead(w) \cup Copied(w)

\* The loop has the rows and the bytes of every file behind it, and a job
\* that downloads has what Betfair offers.
ReadPart(w) ==
    /\ Len(w.rows) = w.next - 1
    /\ IsList(w.read) /\ Len(w.read) = w.next - 1
    /\ w.pc \in {"saving", "succeeded"} => Len(w.items) = w.next - 1
    /\ w.pc = "downloading" => Range(w.items) \cup w.todo = Offered(w.source)
    /\ w.pc \in {"processing", "streaming", "saving", "succeeded"} /\ w.source.kind # "gcs"
         => IsList(w.items) /\ Range(w.items) = Offered(w.source)

Good(w) == Shape(w) /\ SourcePart(w) /\ DiskPart(w) /\ ReadPart(w)

LEMMA Appended ==
    ASSUME NEW s, IsList(s), NEW e
    PROVE  /\ IsList(Append(s, e))
           /\ Range(Append(s, e)) = Range(s) \cup {e}
           /\ Len(Append(s, e)) = Len(s) + 1 /\ Len(s) \in Nat
           /\ \A i \in 1 .. Len(s) : Append(s, e)[i] = s[i]
           /\ Append(s, e)[Len(s) + 1] = e
<1> DEFINE S == Range(s) \cup {e}
           t == Append(s, e)
<1>1. s \in Seq(Range(s))
  BY DEF IsList
<1>2. s \in Seq(S)
  <2>1. \A i \in 1 .. Len(s) : s[i] \in S
    BY <1>1 DEF Range
  <2> HIDE DEF S
  <2> QED  BY <1>1, <2>1
<1>3. e \in S
  OBVIOUS
<1> HIDE DEF S
<1>4. /\ t \in Seq(S) /\ Len(t) = Len(s) + 1 /\ Len(s) \in Nat
      /\ \A i \in 1 .. Len(s) : t[i] = s[i]
      /\ t[Len(s) + 1] = e
      /\ DOMAIN t = 1 .. Len(s) + 1 /\ DOMAIN s = 1 .. Len(s)
  BY <1>2, <1>3
<1> HIDE DEF t
<1>5. Range(t) = S
  <2>1. \A x \in S : \E i \in 1 .. Len(s) + 1 : t[i] = x
    <3> SUFFICES ASSUME NEW x \in S PROVE \E i \in 1 .. Len(s) + 1 : t[i] = x
      OBVIOUS
    <3>1. CASE x = e
      BY <1>4, <3>1
    <3>2. CASE x \in Range(s)
      <4>1. PICK i \in 1 .. Len(s) : s[i] = x
        BY <1>4, <3>2 DEF Range
      <4> QED  BY <1>4, <4>1
    <3> QED  BY <3>1, <3>2 DEF S
  <2>2. \A i \in 1 .. Len(s) + 1 : t[i] \in S
    BY <1>4
  <2> QED  BY <1>4, <2>1, <2>2 DEF Range
<1> QED  BY <1>4, <1>5 DEF IsList, t, S

LEMMA EmptyIsList == IsList(<<>>) /\ Range(<<>>) = {}
BY DEF IsList, Range

LEMMA NoWorkIsGood == Good(NoWork) /\ Good([NoWork EXCEPT !.pc = "lost"])
<1> DEFINE empty == [p \in Paths |-> None]
<1>1. ASSUME NEW v, Shape(v), v.pc \in {"idle", "lost"}, v.source = None, v.rows = <<>>,
             v.disk = empty, v.next = 1, v.items = <<>>, v.read = <<>>
      PROVE  Good(v)
  <2>1. DOMAIN v.disk = Paths /\ OnDisk(v) = {}
    BY <1>1 DEF OnDisk
  <2> HIDE DEF empty
  <2>2. SourcePart(v) /\ DiskPart(v) /\ ReadPart(v)
    BY <1>1, <2>1, EmptyIsList DEF SourcePart, DiskPart, ReadPart
  <2> QED  BY <1>1, <2>2 DEF Good
<1>2. ASSUME NEW v, v = NoWork \/ v = [NoWork EXCEPT !.pc = "lost"]
      PROVE  /\ Shape(v) /\ v.pc \in {"idle", "lost"} /\ v.source = None /\ v.rows = <<>>
             /\ v.disk = empty /\ v.next = 1 /\ v.items = <<>> /\ v.read = <<>>
  <2> HIDE DEF empty
  <2> QED  BY <1>2 DEF NoWork, Shape, Place, empty
<1> QED  BY <1>1, <1>2

-----------------------------------------------------------------------------
(* The steps of one job: what each makes of its record.                    *)

\* The fields that a step over the files leaves alone.
SameJob(v, w) == /\ v.request = w.request /\ v.tag = w.tag /\ v.source = w.source
                 /\ v.rows = w.rows /\ v.read = w.read

\* What counts, and the list, stay as they are.
SameCounts(v, w) ==
    v.rows = w.rows /\ v.progress = w.progress /\ v.summary = w.summary
SameList(v, w) ==
    /\ v.items = w.items /\ v.source = w.source /\ v.todo = w.todo
    /\ v.atStart = w.atStart

\* A function of the paths.
IsDisk(d) == d = [p \in Paths |-> d[p]]

\* v is w without the paths that could be removed.
Without(v, w, paths) ==
    /\ IsDisk(v.disk) /\ DOMAIN v.disk = Paths
    /\ w.stuck \subseteq v.stuck /\ v.stuck \subseteq w.stuck \cup Paths
    /\ OnDisk(v) \subseteq OnDisk(w)
    /\ \A p \in OnDisk(v) : v.disk[p] = w.disk[p] /\ (p \in paths => p \in v.stuck)

LEMMA Removed ==
    ASSUME NEW w, Shape(w), NEW paths, NEW kept \in Unremoved(w, paths)
    PROVE  LET v == RemoveFiles(w, paths, kept)
           IN  /\ Shape(v) /\ v.pc = w.pc /\ v.next = w.next
               /\ SameJob(v, w) /\ SameCounts(v, w) /\ SameList(v, w)
               /\ Without(v, w, paths)
<1> DEFINE disk == [p \in Paths |-> IF p \in paths \ kept THEN None ELSE w.disk[p]]
           stuck == w.stuck \cup kept
           v == [w EXCEPT !.disk = disk, !.stuck = stuck]
<1>1. v = RemoveFiles(w, paths, kept)
  BY DEF RemoveFiles
<1> HIDE DEF disk, stuck
<1>2. /\ Shape(v) /\ v.pc = w.pc /\ v.next = w.next
      /\ SameJob(v, w) /\ SameCounts(v, w) /\ SameList(v, w)
      /\ v.disk = disk /\ v.stuck = stuck
  BY DEF Shape, SameJob, SameCounts, SameList
<1> HIDE DEF v
<1>3. kept \subseteq Paths
  BY DEF Unremoved, OnDisk
<1>4. DOMAIN disk = Paths /\ IsDisk(disk)
  BY DEF disk, IsDisk
<1>5. ASSUME NEW p \in OnDisk(v)
      PROVE  p \in OnDisk(w) /\ v.disk[p] = w.disk[p] /\ (p \in paths => p \in v.stuck)
  <2>1. p \in Paths /\ disk[p] # None
    BY <1>2 DEF OnDisk
  <2>2. p \notin paths \ kept /\ disk[p] = w.disk[p]
    BY <2>1 DEF disk
  <2> QED  BY <1>2, <2>1, <2>2 DEF OnDisk, stuck
<1>6. w.stuck \subseteq v.stuck /\ v.stuck \subseteq w.stuck \cup Paths
  BY <1>2, <1>3 DEF stuck
<1>7. Without(v, w, paths)
  BY <1>2, <1>4, <1>5, <1>6 DEF Without
<1> QED  BY <1>1, <1>2, <1>7

\* run() has ended: nothing but what could not be removed is left.
EndsAs(v, w, place) ==
    /\ Shape(v) /\ v.pc = place /\ v.next = w.next
    /\ SameJob(v, w) /\ SameCounts(v, w) /\ SameList(v, w)
    /\ Without(v, w, Paths) /\ OnDisk(v) \subseteq v.stuck

LEMMA EndMakes ==
    ASSUME NEW j, NEW w, Shape(w), NEW place \in Ended, End(j, w, place)
    PROVE  \E v : Become(j, v) /\ EndsAs(v, w, place)
<1>1. PICK kept \in Unremoved(w, Paths) :
        Become(j, [RemoveFiles(w, Paths, kept) EXCEPT !.pc = place])
  BY Zenon DEF End
<1> DEFINE u == RemoveFiles(w, Paths, kept)
           v == [u EXCEPT !.pc = place]
<1>2. /\ Shape(u) /\ u.next = w.next /\ SameJob(u, w) /\ SameCounts(u, w) /\ SameList(u, w)
      /\ Without(u, w, Paths)
  BY Removed
<1> HIDE DEF u
<1>3. /\ Shape(v) /\ v.pc = place /\ v.next = w.next /\ v.disk = u.disk /\ v.stuck = u.stuck
      /\ SameJob(v, w) /\ SameCounts(v, w) /\ SameList(v, w)
  BY <1>2 DEF Shape, Place, SameJob, SameCounts, SameList
<1>4. Become(j, v)
  BY <1>1 DEF u
<1> HIDE DEF v
<1>5. OnDisk(v) = OnDisk(u) /\ OnDisk(u) \subseteq Paths
  BY <1>3 DEF OnDisk
<1>6. Without(v, w, Paths) /\ OnDisk(v) \subseteq v.stuck
  BY <1>2, <1>3, <1>5 DEF Without
<1> QED  BY <1>3, <1>4, <1>6 DEF EndsAs

LEMMA EndKeeps ==
    ASSUME NEW w, Good(w), w.pc \notin {"idle", "lost"}, NEW place \in Ended,
           place = "succeeded" => w.pc = "saving", NEW v, EndsAs(v, w, place)
    PROVE  Good(v)
<1>1. /\ Shape(v) /\ v.pc = place /\ v.next = w.next /\ SameJob(v, w) /\ v.items = w.items
      /\ place \in {"succeeded", "failed", "cancelled"}
  BY DEF EndsAs, SameList, Ended
<1>2. SourcePart(v)
  BY <1>1 DEF Good, SourcePart, SameJob
<1>3. DiskPart(v)
  BY <1>1 DEF DiskPart, EndsAs, Without
<1>4. ReadPart(v)
  BY <1>1 DEF Good, ReadPart, SameJob
<1> QED  BY <1>1, <1>2, <1>3, <1>4 DEF Good

\* A step of job j: its record stays in order, and its documents are written
\* in the bucket of the store.
Moves(j) ==
    /\ work[j].pc # "lost" /\ docs \subseteq docs'
    /\ work[j].pc = "idle" => Document(storeBucket, j, "status.json") \in docs'
    /\ \E v : /\ Become(j, v) /\ Good(v) /\ v.pc \notin {"idle", "lost"}
              /\ v.pc = "succeeded" => Document(storeBucket, j, "result.json") \in docs'

\* What a request that was just accepted has.
Fresh(v, r) ==
    /\ Shape(v) /\ v.pc = "queued" /\ v.request = r /\ v.tag = SourceMode(r)
    /\ v.source = None /\ v.rows = <<>> /\ v.read = <<>> /\ v.next = 1 /\ v.items = <<>>
    /\ v.progress = NoCounts /\ v.summary = NoCounts /\ v.stuck = {}
    /\ v.disk = [p \in Paths |-> None] /\ OnDisk(v) = {}

LEMMA SubmitMakes ==
    ASSUME NEW j, NEW r, Submit(j, r) PROVE \E v : Become(j, v) /\ Fresh(v, r)
<1> DEFINE empty == [p \in Paths |-> None]
           v == [NoWork EXCEPT !.pc = "queued", !.request = r, !.tag = SourceMode(r)]
<1> HIDE DEF empty
<1>1. /\ Shape(v) /\ v.pc = "queued" /\ v.request = r /\ v.tag = SourceMode(r)
      /\ v.source = None /\ v.rows = <<>> /\ v.read = <<>> /\ v.next = 1 /\ v.items = <<>>
      /\ v.progress = NoCounts /\ v.summary = NoCounts /\ v.disk = empty /\ v.stuck = {}
  BY DEF NoWork, Shape, Place, empty
<1>2. Become(j, v)
  BY DEF Submit
<1> HIDE DEF v
<1> QED  BY <1>1, <1>2 DEF Fresh, OnDisk, empty

LEMMA SubmitMoves ==
    ASSUME NEW j \in Jobs, NEW r \in Requests, Submit(j, r) PROVE Moves(j)
<1>1. PICK v : Become(j, v) /\ Fresh(v, r)
  BY SubmitMakes
<1>2. Good(v) /\ v.pc = "queued"
  BY <1>1, EmptyIsList DEF Good, SourcePart, DiskPart, ReadPart, Fresh
<1> QED  BY <1>1, <1>2 DEF Moves, Submit, At, WriteDocument, ResultsBucket

\* A step that only moves on in the record of a job that was accepted.
LEMMA RunMoves ==
    ASSUME NEW j \in Jobs, work[j].pc \notin {"idle", "lost"}, UNCHANGED docs,
           NEW v, Become(j, v), Good(v), v.pc \notin {"idle", "lost", "succeeded"}
    PROVE  Moves(j)
BY DEF Moves

LEMMA EndMoves ==
    ASSUME NEW j \in Jobs, Good(work[j]), work[j].pc \notin {"idle", "lost"}, UNCHANGED docs,
           NEW place \in {"failed", "cancelled"}, End(j, work[j], place)
    PROVE  Moves(j)
<1>1. PICK v : Become(j, v) /\ EndsAs(v, work[j], place)
  BY EndMakes DEF Good, Ended
<1>2. Good(v) /\ v.pc = place
  BY <1>1, EndKeeps DEF EndsAs, Ended
<1> QED  BY <1>1, <1>2, RunMoves

LEMMA ResolvedFromRequest ==
    ASSUME settings \in SettingsValue, NEW r PROVE FromRequest(r, ResolveSource(r))
<1>1. settings.source \in Locations
  BY DEF SettingsValue
<1> QED  BY <1>1 DEF FromRequest, ResolveSource

\* However often the source is resolved, what it is differs at most in the
\* location.
LEMMA ResolvedAlike ==
    ASSUME NEW r, NEW s, FromRequest(r, s)
    PROVE  /\ s.kind = SourceMode(r)
           /\ ResolveSource(r).range = s.range /\ ResolveSource(r).countries = s.countries
<1>1. CASE r.inline # None
  BY <1>1 DEF FromRequest, SourceMode, ResolveSource
<1>2. CASE r.inline = None /\ r.override # None
  BY <1>2 DEF FromRequest, SourceMode, ResolveSource
<1>3. CASE r.inline = None /\ r.override = None
  <2>1. PICK at \in Locations : s = Gcs(at, r.range, r.countries)
    BY <1>3 DEF FromRequest
  <2>2. ResolveSource(r) = Gcs(settings.source, r.range, r.countries) /\ SourceMode(r) = "gcs"
    BY <1>3 DEF ResolveSource, SourceMode
  <2> QED  BY <2>1, <2>2 DEF Gcs
<1> QED  BY <1>1, <1>2, <1>3

\* The disk is left alone.
SameDisk(v, w) == v.disk = w.disk /\ v.stuck = w.stuck

LEMMA SameOnDisk ==
    ASSUME NEW v, NEW w, SameDisk(v, w) PROVE OnDisk(v) = OnDisk(w)
BY DEF SameDisk, OnDisk

\* One path is written.
Writes(v, w, path) ==
    /\ IsDisk(v.disk) /\ DOMAIN v.disk = Paths /\ v.stuck = w.stuck
    /\ OnDisk(v) \subseteq OnDisk(w) \cup {path}
    /\ \A p \in Paths : p # path => v.disk[p] = w.disk[p]

LEMMA WritesOnePath ==
    ASSUME NEW w, DOMAIN w.disk = Paths, NEW v, v.stuck = w.stuck, NEW path, NEW b,
           v.disk = [w.disk EXCEPT ![path] = b]
    PROVE  Writes(v, w, path) /\ (path \in Paths => v.disk[path] = b)
<1> DEFINE d == w.disk
           e == v.disk
<1>1. /\ IsDisk(e) /\ DOMAIN e = Paths
      /\ \A p \in Paths : p # path => e[p] = d[p]
      /\ path \in Paths => e[path] = b
  <2>1. e = [d EXCEPT ![path] = b] /\ DOMAIN d = Paths
    OBVIOUS
  <2> HIDE DEF d, e
  <2> QED  BY <2>1 DEF IsDisk
<1> HIDE DEF d, e
<1> QED  BY <1>1 DEF Writes, OnDisk, d, e

LEMMA PlanMoves ==
    ASSUME settings \in SettingsValue, NEW j \in Jobs, Good(work[j]), Plan(j) PROVE Moves(j)
<1> DEFINE w == work[j]
           s == ResolveSource(w.request)
<1>1. w.pc = "queued" /\ UNCHANGED docs
  BY DEF Plan, At
<1>2. CASE ~Resolvable(w.request)
  <2>1. End(j, w, "failed")
    BY <1>2 DEF Plan, Fail
  <2> QED  BY <1>1, <2>1, EndMoves
<1>3. ASSUME NEW v, Become(j, v), Shape(v), v.pc \in {"listing", "listingRemote"},
             v.request = w.request, v.tag = w.tag, v.source = s, v.rows = w.rows,
             v.read = w.read, SameDisk(v, w), v.next = w.next, v.items = w.items,
             v.pc = "listing" <=> s.kind = "gcs"
      PROVE  Moves(j)
  <2>1. FromRequest(w.request, s)
    BY ResolvedFromRequest
  <2>2. SourcePart(v)
    BY <1>1, <1>3, <2>1, EmptyIsList DEF Good, SourcePart
  <2>3. DiskPart(v)
    BY <1>1, <1>3, SameOnDisk DEF Good, DiskPart, SameDisk
  <2>4. ReadPart(v)
    BY <1>3 DEF Good, ReadPart
  <2>5. Good(v)
    BY <1>3, <2>2, <2>3, <2>4 DEF Good
  <2> QED  BY <1>1, <1>3, <2>5, RunMoves
<1>4. CASE Resolvable(w.request) /\ s.kind = "gcs"
  <2> DEFINE v == [[w EXCEPT !.source = s] EXCEPT !.pc = "listing", !.todo = s.range,
                                                  !.atStart = blobs]
  <2>1. Become(j, v)
    BY <1>4 DEF Plan
  <2>2. /\ Shape(v) /\ v.pc = "listing" /\ v.request = w.request /\ v.tag = w.tag
        /\ v.source = s /\ v.rows = w.rows /\ v.read = w.read /\ SameDisk(v, w)
        /\ v.next = w.next /\ v.items = w.items
    BY DEF Good, Shape, Place, SameDisk
  <2> HIDE DEF v
  <2> QED  BY <1>3, <1>4, <2>1, <2>2
<1>5. CASE Resolvable(w.request) /\ s.kind # "gcs"
  <2> DEFINE v == [[w EXCEPT !.source = s] EXCEPT !.pc = "listingRemote"]
  <2>1. Become(j, v)
    BY <1>5 DEF Plan
  <2>2. /\ Shape(v) /\ v.pc = "listingRemote" /\ v.request = w.request /\ v.tag = w.tag
        /\ v.source = s /\ v.rows = w.rows /\ v.read = w.read /\ SameDisk(v, w)
        /\ v.next = w.next /\ v.items = w.items
    BY DEF Good, Shape, Place, SameDisk
  <2> HIDE DEF v
  <2> QED  BY <1>3, <1>5, <2>1, <2>2
<1> QED  BY <1>2, <1>4, <1>5

LEMMA SameJobKeeps ==
    ASSUME NEW v, NEW w, SourcePart(w), SameJob(v, w), w.pc \notin {"idle", "queued", "lost"},
           v.pc \notin {"idle", "queued", "lost"}
    PROVE  SourcePart(v)
BY DEF SourcePart, SameJob

LEMMA ListDayMoves ==
    ASSUME NEW j \in Jobs, Good(work[j]), ListDay(j) PROVE Moves(j)
<1> DEFINE w == work[j]
           d == Min(w.todo)
           found == w.items \o SetToSeq(DayListing(w.source, d))
<1>1. w.pc = "listing" /\ UNCHANGED docs
  BY DEF ListDay, At
<1> HIDE DEF found
<1>2. CASE w.todo = {d} /\ found = <<>>
  <2>1. End(j, w, "failed")
    BY <1>2 DEF ListDay, found, Fail
  <2> QED  BY <1>1, <2>1, EndMoves
<1>3. CASE ~(w.todo = {d} /\ found = <<>>)
  <2> DEFINE place == IF w.todo = {d} THEN "fetching" ELSE w.pc
             v == [w EXCEPT !.todo = @ \ {d}, !.items = found, !.pc = place]
  <2>1. Become(j, v)
    BY <1>3 DEF ListDay, found
  <2>2. place \in {"listing", "fetching"}
    BY <1>1
  <2> HIDE DEF place
  <2>3. /\ Shape(v) /\ v.pc = place /\ SameJob(v, w) /\ SameDisk(v, w) /\ v.next = w.next
    BY <2>2 DEF Good, Shape, Place, SameJob, SameDisk
  <2> HIDE DEF v
  <2>4. SourcePart(v)
    BY <1>1, <2>2, <2>3, SameJobKeeps DEF Good
  <2>5. DiskPart(v)
    BY <1>1, <2>2, <2>3, SameOnDisk DEF Good, DiskPart, SameJob, SameDisk
  <2>6. ReadPart(v)
    BY <2>2, <2>3 DEF Good, ReadPart, SameJob
  <2> QED  BY <1>1, <2>1, <2>2, <2>3, <2>4, <2>5, <2>6, RunMoves DEF Good
<1> QED  BY <1>2, <1>3

\* The file that the loop is at is downloaded.
Fetches(v, w) ==
    /\ Shape(v) /\ v.pc = "processing" /\ SameJob(v, w) /\ SameCounts(v, w) /\ SameList(v, w)
    /\ v.next = w.next /\ Writes(v, w, Current(w))
    /\ Current(w) \in Paths => v.disk[Current(w)] = w.items[w.next]

LEMMA FetchBlobMakes ==
    ASSUME NEW j, Good(work[j]), FetchBlob(j)
    PROVE  work[j].pc = "fetching" /\ \E v : Become(j, v) /\ Fetches(v, work[j])
<1> DEFINE w == work[j]
           b == w.items[w.next]
           disk == [w.disk EXCEPT ![b.name] = b]
           v == [w EXCEPT !.pc = "processing", !.disk = disk]
<1>1. w.pc = "fetching" /\ Become(j, v)
  BY DEF FetchBlob, At
<1> HIDE DEF disk, b
<1>2. /\ Shape(v) /\ v.pc = "processing" /\ SameJob(v, w) /\ SameCounts(v, w) /\ SameList(v, w)
      /\ v.next = w.next /\ v.disk = disk /\ v.stuck = w.stuck
  BY DEF Good, Shape, Place, SameJob, SameCounts, SameList
<1> HIDE DEF v
<1>3. Writes(v, w, b.name) /\ (b.name \in Paths => v.disk[b.name] = b)
  BY <1>2, WritesOnePath DEF Good, DiskPart, disk
<1> QED  BY <1>1, <1>2, <1>3 DEF Fetches, Current, b

LEMMA FetchBlobMoves ==
    ASSUME NEW j \in Jobs, Good(work[j]), FetchBlob(j) PROVE Moves(j)
<1> DEFINE w == work[j]
<1>1. w.pc = "fetching" /\ UNCHANGED docs
  BY DEF FetchBlob, At
<1>2. PICK v : Become(j, v) /\ Fetches(v, w)
  BY FetchBlobMakes
<1>3. /\ Shape(v) /\ v.pc = "processing" /\ SameJob(v, w) /\ v.items = w.items
      /\ v.next = w.next /\ Writes(v, w, Current(w))
  BY <1>2 DEF Fetches, SameList
<1>4. SourcePart(v)
  BY <1>1, <1>3, SameJobKeeps DEF Good
<1>5. DiskPart(v)
  <2>1. OnDisk(w) \subseteq w.stuck /\ w.source.kind = "gcs"
    BY <1>1 DEF Good, DiskPart
  <2>2. Current(v) = Current(w) /\ v.source = w.source
    BY <1>3 DEF Current, SameJob
  <2>3. OnDisk(v) \ v.stuck \subseteq {Current(v)} /\ DOMAIN v.disk = Paths
    BY <1>3, <2>1, <2>2 DEF Writes
  <2> QED  BY <1>3, <2>1, <2>2, <2>3 DEF DiskPart
<1>6. ReadPart(v)
  BY <1>1, <1>3 DEF Good, DiskPart, ReadPart, SameJob
<1> QED  BY <1>1, <1>2, <1>3, <1>4, <1>5, <1>6, RunMoves DEF Good

\* The list of what Betfair offers has come.
ListsRemote(v, w) ==
    /\ Shape(v) /\ v.pc = "downloading" /\ SameJob(v, w) /\ SameCounts(v, w) /\ SameDisk(v, w)
    /\ v.next = w.next /\ v.items = w.items /\ v.todo = Offered(w.source)

LEMMA ListRemoteMakes ==
    ASSUME NEW j, Shape(work[j]), ListRemote(j)
    PROVE  work[j].pc = "listingRemote" /\ \E v : Become(j, v) /\ ListsRemote(v, work[j])
<1> DEFINE w == work[j]
           files == Offered(w.source)
           v == [w EXCEPT !.pc = "downloading", !.todo = files]
<1>1. w.pc = "listingRemote" /\ Become(j, v)
  BY DEF ListRemote, At
<1> HIDE DEF files
<1>2. /\ Shape(v) /\ v.pc = "downloading" /\ SameJob(v, w) /\ SameCounts(v, w) /\ SameDisk(v, w)
      /\ v.next = w.next /\ v.items = w.items /\ v.todo = files
  BY DEF Shape, Place, SameJob, SameCounts, SameDisk
<1> HIDE DEF v
<1> QED  BY <1>1, <1>2 DEF ListsRemote, files

LEMMA ListRemoteMoves ==
    ASSUME NEW j \in Jobs, Good(work[j]), ListRemote(j) PROVE Moves(j)
<1> DEFINE w == work[j]
<1>1. UNCHANGED docs
  BY DEF ListRemote
<1>2. w.pc = "listingRemote" /\ \E v : Become(j, v) /\ ListsRemote(v, w)
  BY ListRemoteMakes DEF Good
<1>3. PICK v : Become(j, v) /\ ListsRemote(v, w)
  BY <1>2
<1>4. /\ Shape(v) /\ v.pc = "downloading" /\ SameJob(v, w) /\ SameDisk(v, w)
      /\ v.next = w.next /\ v.items = w.items /\ v.todo = Offered(w.source)
  BY <1>3 DEF ListsRemote
<1>5. SourcePart(v)
  BY <1>2, <1>4, SameJobKeeps DEF Good
<1>6. DiskPart(v)
  BY <1>2, <1>4, SameOnDisk, EmptyIsList DEF Good, DiskPart, SameJob, SameDisk
<1>7. ReadPart(v)
  <2>1. Range(v.items) = {} /\ v.source = w.source
    BY <1>2, <1>4, EmptyIsList DEF Good, DiskPart, SameJob
  <2> QED  BY <1>4, <2>1 DEF Good, ReadPart, SameJob
<1> QED  BY <1>1, <1>2, <1>3, <1>4, <1>5, <1>6, <1>7, RunMoves DEF Good

\* A remote file is downloaded.
Downloads(v, w, f) ==
    /\ Shape(v) /\ v.pc = "downloading" /\ SameJob(v, w) /\ SameCounts(v, w)
    /\ v.next = w.next /\ v.items = Append(w.items, f) /\ v.todo = w.todo \ {f}
    /\ Writes(v, w, f.name) /\ (f.name \in Paths => v.disk[f.name] = f)

LEMMA DownloadMakes ==
    ASSUME NEW j, NEW f, NEW upload, Good(work[j]), Download(j, f, upload)
    PROVE  /\ work[j].pc = "downloading" /\ f \in work[j].todo
           /\ \E v : Become(j, v) /\ Downloads(v, work[j], f)
<1> DEFINE w == work[j]
           mirrors == w.source.at # None /\ upload = "ok"
           mirrored == IF mirrors THEN w.mirrored \cup {f} ELSE w.mirrored
           more == Append(w.items, f)
           disk == [w.disk EXCEPT ![f.name] = f]
           v == [w EXCEPT !.todo = @ \ {f}, !.items = more, !.disk = disk,
                          !.mirrored = mirrored]
<1>1. w.pc = "downloading" /\ f \in w.todo /\ Become(j, v)
  BY DEF Download, At
<1> HIDE DEF mirrors, mirrored, disk, more
<1>2. /\ Shape(v) /\ v.pc = "downloading" /\ SameJob(v, w) /\ SameCounts(v, w)
      /\ v.next = w.next /\ v.items = more /\ v.todo = w.todo \ {f}
      /\ v.disk = disk /\ v.stuck = w.stuck
  BY <1>1 DEF Good, Shape, Place, SameJob, SameCounts
<1> HIDE DEF v
<1>3. Writes(v, w, f.name) /\ (f.name \in Paths => v.disk[f.name] = f)
  BY <1>2, WritesOnePath DEF Good, DiskPart, disk
<1> QED  BY <1>1, <1>2, <1>3 DEF Downloads, more

LEMMA DownloadMoves ==
    ASSUME NEW j \in Jobs, NEW f, NEW upload, Good(work[j]), Download(j, f, upload)
    PROVE  Moves(j)
<1> DEFINE w == work[j]
<1>1. w.pc = "downloading" /\ UNCHANGED docs /\ f \in w.todo
  BY DEF Download, At
<1>2. PICK v : Become(j, v) /\ Downloads(v, w, f)
  BY DownloadMakes
<1>3. /\ Shape(v) /\ v.pc = "downloading" /\ SameJob(v, w)
      /\ Writes(v, w, f.name) /\ v.next = w.next
      /\ v.items = Append(w.items, f) /\ v.todo = w.todo \ {f}
  BY <1>2 DEF Downloads
<1>4. SourcePart(v)
  BY <1>1, <1>3, SameJobKeeps DEF Good
<1>5. /\ IsList(w.items) /\ w.next = 1 /\ OnDisk(w) \ w.stuck \subseteq Ahead(w)
      /\ w.source.kind # "gcs"
  BY <1>1 DEF Good, DiskPart, Copied
<1>6. /\ IsList(v.items) /\ Len(v.items) = Len(w.items) + 1 /\ Len(w.items) \in Nat
      /\ \A i \in 1 .. Len(w.items) : v.items[i] = w.items[i]
      /\ v.items[Len(w.items) + 1] = f
      /\ Range(v.items) = Range(w.items) \cup {f}
  BY <1>3, <1>5, Appended
<1>7. OnDisk(v) \ v.stuck \subseteq Ahead(v)
  <2>1. f.name \in Ahead(v)
    BY <1>3, <1>5, <1>6 DEF Ahead
  <2>2. \A i \in 1 .. Len(w.items) : w.items[i].name \in Ahead(v)
    <3> SUFFICES ASSUME NEW i \in 1 .. Len(w.items) PROVE w.items[i].name \in Ahead(v)
      OBVIOUS
    <3>1. i \in v.next .. Len(v.items) /\ v.items[i] = w.items[i]
      BY <1>3, <1>5, <1>6
    <3> QED  BY <3>1 DEF Ahead
  <2>3. Ahead(w) \subseteq Ahead(v)
    BY <1>5, <2>2 DEF Ahead
  <2> QED  BY <1>3, <1>5, <2>1, <2>3 DEF Writes
<1>8. DiskPart(v)
  BY <1>3, <1>5, <1>6, <1>7 DEF DiskPart, SameJob, Writes
<1>9. ReadPart(v)
  <2>1. Range(w.items) \cup w.todo = Offered(w.source)
    BY <1>1 DEF Good, ReadPart
  <2>2. Range(v.items) \cup v.todo = Offered(v.source)
    BY <1>1, <1>3, <1>6, <2>1 DEF SameJob
  <2> QED  BY <1>3, <2>2 DEF Good, ReadPart, SameJob
<1> QED  BY <1>1, <1>2, <1>3, <1>4, <1>8, <1>9, RunMoves DEF Good

\* All of them are downloaded.
StartsLoop(v, w) ==
    /\ Shape(v) /\ v.pc = "processing" /\ SameJob(v, w) /\ SameCounts(v, w) /\ SameList(v, w)
    /\ SameDisk(v, w) /\ v.next = w.next

LEMMA DownloadedMakes ==
    ASSUME NEW j, Shape(work[j]), Downloaded(j)
    PROVE  /\ work[j].pc = "downloading" /\ work[j].todo = {}
           /\ \/ End(j, work[j], "failed")
              \/ /\ work[j].items # <<>>
                 /\ \E v : Become(j, v) /\ StartsLoop(v, work[j])
<1> DEFINE w == work[j]
           v == [w EXCEPT !.pc = "processing"]
<1>1. w.pc = "downloading" /\ w.todo = {}
  BY DEF Downloaded, At
<1>2. End(j, w, "failed") \/ (w.items # <<>> /\ Become(j, v))
  BY DEF Downloaded, Fail
<1>3. StartsLoop(v, w)
  BY DEF Shape, Place, SameJob, SameCounts, SameList, SameDisk, StartsLoop
<1> HIDE DEF v
<1> QED  BY <1>1, <1>2, <1>3

LEMMA DownloadedMoves ==
    ASSUME NEW j \in Jobs, Good(work[j]), Downloaded(j) PROVE Moves(j)
<1> DEFINE w == work[j]
<1>1. UNCHANGED docs
  BY DEF Downloaded
<1>2. /\ w.pc = "downloading" /\ w.todo = {}
      /\ End(j, w, "failed") \/ \E v : Become(j, v) /\ StartsLoop(v, w)
  BY DownloadedMakes DEF Good
<1>3. CASE End(j, w, "failed")
  BY <1>1, <1>2, <1>3, EndMoves
<1>4. ASSUME NEW v, Become(j, v), StartsLoop(v, w) PROVE Moves(j)
  <2>1. /\ Shape(v) /\ v.pc = "processing" /\ SameJob(v, w) /\ SameDisk(v, w)
        /\ v.next = w.next /\ v.items = w.items
    BY <1>4 DEF StartsLoop, SameList
  <2>2. SourcePart(v)
    BY <1>2, <2>1, SameJobKeeps DEF Good
  <2>3. DiskPart(v)
    BY <1>2, <2>1, SameOnDisk DEF Good, DiskPart, SameJob, SameDisk, Ahead, Copied
  <2>4. ReadPart(v)
    <3>1. /\ Range(w.items) = Offered(w.source) /\ w.next = 1
          /\ w.source.kind # "gcs" => IsList(w.items)
      BY <1>2 DEF Good, DiskPart, ReadPart
    <3> QED  BY <2>1, <3>1 DEF Good, ReadPart, SameJob
  <2> QED  BY <1>1, <1>2, <1>4, <2>1, <2>2, <2>3, <2>4, RunMoves DEF Good
<1> QED  BY <1>2, <1>3, <1>4

\* The decompressed copy is made, or is there already.
Decompresses(v, w) ==
    LET stem == Stem[Current(w)]
        there == IF w.disk[stem] = None THEN w.disk[Current(w)] ELSE w.disk[stem]
    IN  /\ there # None
        /\ Shape(v) /\ v.pc = "streaming" /\ v.next = w.next
        /\ SameJob(v, w) /\ SameCounts(v, w) /\ SameList(v, w)
        /\ Writes(v, w, stem) /\ (stem \in Paths => v.disk[stem] = there)

LEMMA DecompressMakes ==
    ASSUME NEW j, Good(work[j]), Decompress(j)
    PROVE  /\ work[j].pc = "processing"
           /\ End(j, work[j], "failed") \/ \E v : Become(j, v) /\ Decompresses(v, work[j])
<1> DEFINE w == work[j]
           name == w.items[w.next].name
           stem == Stem[name]
           there == IF w.disk[stem] = None THEN w.disk[name] ELSE w.disk[stem]
           disk == [w.disk EXCEPT ![stem] = there]
           v == [w EXCEPT !.pc = "streaming", !.disk = disk]
<1>1. w.pc = "processing"
  BY DEF Decompress, At
<1>2. CASE w.disk[stem] = None /\ w.disk[name] = None
  BY <1>1, <1>2 DEF Decompress, Fail
<1>3. CASE ~(w.disk[stem] = None /\ w.disk[name] = None)
  <2>1. Become(j, v)
    <3>1. Become(j, [w EXCEPT !.pc = "streaming",
                              !.disk[stem] = IF @ = None THEN w.disk[name] ELSE @])
      BY <1>3 DEF Decompress
    <3>2. v = [w EXCEPT !.pc = "streaming",
                        !.disk[stem] = IF @ = None THEN w.disk[name] ELSE @]
      <4>1. Shape(w)
        BY DEF Good
      <4> HIDE DEF stem, name, w
      <4> QED  BY <4>1 DEF Shape
    <3> QED  BY <3>1, <3>2
  <2>2. there # None
    BY <1>3
  <2> HIDE DEF disk
  <2>3. /\ Shape(v) /\ v.pc = "streaming" /\ v.next = w.next
        /\ SameJob(v, w) /\ SameCounts(v, w) /\ SameList(v, w)
        /\ v.disk = disk /\ v.stuck = w.stuck
    <3>1. Shape(w)
      BY DEF Good
    <3> HIDE DEF w, there
    <3> QED  BY <3>1 DEF Shape, Place, SameJob, SameCounts, SameList
  <2> HIDE DEF v, there
  <2>4. Writes(v, w, stem) /\ (stem \in Paths => v.disk[stem] = there)
    BY <2>3, WritesOnePath DEF Good, DiskPart, disk
  <2>5. Decompresses(v, w)
    BY <2>2, <2>3, <2>4 DEF Decompresses, Current, there
  <2> QED  BY <1>1, <2>1, <2>5
<1> QED  BY <1>2, <1>3

LEMMA DecompressMoves ==
    ASSUME NEW j \in Jobs, Good(work[j]), Decompress(j) PROVE Moves(j)
<1> DEFINE w == work[j]
<1>1. UNCHANGED docs
  BY DEF Decompress
<1>2. /\ w.pc = "processing"
      /\ End(j, w, "failed") \/ \E v : Become(j, v) /\ Decompresses(v, w)
  BY DecompressMakes
<1>3. CASE End(j, w, "failed")
  BY <1>1, <1>2, <1>3, EndMoves
<1>4. ASSUME NEW v, Become(j, v), Decompresses(v, w) PROVE Moves(j)
  <2>1. /\ Shape(v) /\ v.pc = "streaming" /\ SameJob(v, w) /\ v.items = w.items
        /\ v.next = w.next /\ Writes(v, w, Stem[Current(w)])
    BY <1>4 DEF Decompresses, SameList
  <2>2. SourcePart(v)
    BY <1>2, <2>1, SameJobKeeps DEF Good
  <2>3. Copied(v) = {Stem[Current(w)]} /\ Current(v) = Current(w) /\ Ahead(v) = Ahead(w)
        /\ Copied(w) = {} /\ v.source = w.source
    BY <1>2, <2>1 DEF Copied, Current, Ahead, SameJob
  <2>4. DiskPart(v)
    BY <1>2, <2>1, <2>3 DEF Good, DiskPart, Writes
  <2>5. ReadPart(v)
    BY <1>2, <2>1 DEF Good, ReadPart, SameJob
  <2> QED  BY <1>1, <1>2, <1>4, <2>1, <2>2, <2>4, <2>5, RunMoves DEF Good
<1> QED  BY <1>2, <1>3, <1>4

\* The file is read, and its rows ms are counted.
Reads(v, w, ms) ==
    /\ Shape(v) /\ v.next = w.next + 1
    /\ \/ w.next = Len(w.items) /\ v.pc = "saving"
       \/ w.next # Len(w.items) /\ w.source.kind = "gcs" /\ v.pc = "fetching"
       \/ w.next # Len(w.items) /\ w.source.kind # "gcs" /\ v.pc = "processing"
    /\ v.request = w.request /\ v.tag = w.tag /\ SameList(v, w)
    /\ v.rows = Append(w.rows, ms) /\ v.read = Append(w.read, w.disk[Stem[Current(w)]])
    /\ v.progress = CountFile(w.progress, ms) /\ v.summary = w.summary
    /\ Without(v, w, TempFiles(Current(w)))

RowsOf(w) == MarketsWithRows(ResolveSource(w.request), w.disk[Stem[Current(w)]])

LEMMA ProcessFileMakes ==
    ASSUME NEW j, Good(work[j]), NEW kept, ProcessFile(j, kept)
    PROVE  /\ work[j].pc = "streaming"
           /\ \E v : Become(j, v) /\ Reads(v, work[j], RowsOf(work[j]))
<1> DEFINE w == work[j]
           name == w.items[w.next].name
           f == w.disk[Stem[name]]
           ms == MarketsWithRows(ResolveSource(w.request), f)
           u == RemoveFiles(w, TempFiles(name), kept)
           rows == Append(w.rows, ms)
           read == Append(w.read, f)
           counts == CountFile(w.progress, ms)
           place == IF w.next = Len(w.items) THEN "saving"
                    ELSE IF w.source.kind = "gcs" THEN "fetching" ELSE "processing"
           v == [u EXCEPT !.rows = rows, !.read = read, !.progress = counts,
                          !.next = w.next + 1, !.pc = place]
<1>1. /\ w.pc = "streaming" /\ kept \in Unremoved(w, TempFiles(name))
      /\ Become(j, [[u EXCEPT !.rows = Append(@, ms), !.read = Append(@, f),
                              !.progress = CountFile(@, ms), !.next = @ + 1]
                      EXCEPT !.pc = place])
  BY DEF ProcessFile, At
<1>2. Shape(w)
  BY DEF Good
<1> HIDE DEF name
<1>3. /\ Shape(u) /\ u.pc = w.pc /\ u.next = w.next
      /\ SameJob(u, w) /\ SameCounts(u, w) /\ SameList(u, w)
      /\ Without(u, w, TempFiles(name))
  BY <1>1, <1>2, Removed
<1> HIDE DEF u, ms, f
<1>4. v = [[u EXCEPT !.rows = Append(@, ms), !.read = Append(@, f),
                     !.progress = CountFile(@, ms), !.next = @ + 1]
             EXCEPT !.pc = place]
  <2> DEFINE t == [u EXCEPT !.rows = rows, !.read = read, !.progress = counts,
                            !.next = w.next + 1]
  <2>1. t = [u EXCEPT !.rows = Append(@, ms), !.read = Append(@, f),
                      !.progress = CountFile(@, ms), !.next = @ + 1]
    BY <1>3 DEF SameJob, SameCounts
  <2> HIDE DEF rows, read, counts, place, w
  <2>2. v = [t EXCEPT !.pc = place]
    BY <1>3 DEF Shape
  <2> HIDE DEF t
  <2> QED  BY <2>1, <2>2
<1>5. Become(j, v)
  BY <1>1, <1>4
<1>6. /\ place \in {"saving", "fetching", "processing"} /\ w.next \in Nat /\ w.next + 1 \in Nat
      /\ \/ w.next = Len(w.items) /\ place = "saving"
         \/ w.next # Len(w.items) /\ w.source.kind = "gcs" /\ place = "fetching"
         \/ w.next # Len(w.items) /\ w.source.kind # "gcs" /\ place = "processing"
  BY <1>2 DEF Shape
<1> HIDE DEF rows, read, counts, place
<1>7. /\ Shape(v) /\ v.pc = place /\ v.next = w.next + 1
      /\ v.request = u.request /\ v.tag = u.tag /\ SameList(v, u)
      /\ v.rows = rows /\ v.read = read /\ v.progress = counts /\ v.summary = u.summary
      /\ v.disk = u.disk /\ v.stuck = u.stuck
  <2> DEFINE next == w.next + 1
  <2>1. next \in Nat
    BY <1>6
  <2> HIDE DEF w, next
  <2>2. /\ v = [u EXCEPT !.rows = rows, !.read = read, !.progress = counts,
                         !.next = next, !.pc = place]
    BY DEF next
  <2> HIDE DEF v
  <2>3. /\ v.pc = place /\ v.next = next
        /\ v.request = u.request /\ v.tag = u.tag /\ SameList(v, u)
        /\ v.rows = rows /\ v.read = read /\ v.progress = counts /\ v.summary = u.summary
        /\ v.disk = u.disk /\ v.stuck = u.stuck
    BY <1>3, <2>2 DEF Shape, SameList
  <2>4. Shape(v)
    <3>1. place \in Place
      BY <1>6 DEF Place
    <3> QED  BY <1>3, <2>1, <2>2, <3>1 DEF Shape
  <2> QED  BY <2>3, <2>4 DEF next
<1> HIDE DEF v
<1>8. Without(v, w, TempFiles(name))
  BY <1>3, <1>7 DEF Without, OnDisk
<1>9. SameList(v, w) /\ v.request = w.request /\ v.tag = w.tag /\ v.summary = w.summary
  BY <1>3, <1>7 DEF SameJob, SameCounts, SameList
<1>10. v.rows = Append(w.rows, ms) /\ v.read = Append(w.read, f)
       /\ v.progress = CountFile(w.progress, ms)
  BY <1>7 DEF rows, read, counts
<1>11. f = w.disk[Stem[Current(w)]] /\ name = Current(w) /\ ms = RowsOf(w)
  BY DEF f, name, ms, Current, RowsOf
<1>12. Reads(v, w, ms)
  <2> HIDE DEF w
  <2> QED  BY <1>6, <1>7, <1>8, <1>9, <1>10, <1>11 DEF Reads
<1> QED  BY <1>1, <1>5, <1>11, <1>12

\* What is left of a source whose rows grew by those of one more file.
LEMMA RowsRaceIn ==
    ASSUME NEW w, SourcePart(w), w.source # None
    PROVE  \A m \in RowsOf(w) : RacesIn(w.source, m)
<1>1. FromRequest(w.request, w.source)
  BY DEF SourcePart
<1>2. /\ ResolveSource(w.request).range = w.source.range
      /\ ResolveSource(w.request).countries = w.source.countries
  BY <1>1, ResolvedAlike
<1> QED  BY <1>2 DEF RowsOf, MarketsWithRows, RacesIn, PassesFilter

LEMMA ProcessFileMoves ==
    ASSUME NEW j \in Jobs, Good(work[j]), NEW kept, ProcessFile(j, kept) PROVE Moves(j)
<1> DEFINE w == work[j]
           ms == RowsOf(w)
           f == w.disk[Stem[Current(w)]]
<1>1. UNCHANGED docs
  BY DEF ProcessFile
<1>2. w.pc = "streaming" /\ \E v : Become(j, v) /\ Reads(v, w, ms)
  BY ProcessFileMakes
<1>3. PICK v : Become(j, v) /\ Reads(v, w, ms)
  BY <1>2
<1>4. w.source # None => \A m \in ms : RacesIn(w.source, m)
  BY RowsRaceIn DEF Good
<1> HIDE DEF ms, f
<1>5. /\ Shape(v) /\ v.pc \in {"saving", "fetching", "processing"}
      /\ v.request = w.request /\ v.tag = w.tag /\ v.source = w.source /\ v.items = w.items
      /\ v.rows = Append(w.rows, ms) /\ v.read = Append(w.read, f)
      /\ v.next = w.next + 1 /\ Without(v, w, TempFiles(Current(w)))
      /\ v.pc = "saving" <=> w.next = Len(w.items)
      /\ v.pc = "fetching" => w.source.kind = "gcs"
      /\ v.pc = "processing" => w.source.kind # "gcs"
  BY <1>3 DEF Reads, SameList, f
<1>6. /\ IsList(v.rows) /\ Range(v.rows) = Range(w.rows) \cup {ms}
      /\ Len(v.rows) = Len(w.rows) + 1
      /\ IsList(v.read) /\ Len(v.read) = Len(w.read) + 1
  BY <1>5, Appended DEF Good, SourcePart, ReadPart
<1>7. SourcePart(v)
  BY <1>2, <1>4, <1>5, <1>6 DEF Good, SourcePart
<1>8. ReadPart(v)
  <2>1. w.next \in Nat /\ Len(w.rows) = w.next - 1 /\ Len(w.read) = w.next - 1
    BY DEF Good, Shape, ReadPart
  <2>2. Len(v.rows) = v.next - 1 /\ Len(v.read) = v.next - 1
        /\ (v.pc = "saving" => Len(v.items) = v.next - 1)
    BY <1>5, <1>6, <2>1
  <2>3. w.source.kind # "gcs" => IsList(w.items) /\ Range(w.items) = Offered(w.source)
    BY <1>2 DEF Good, ReadPart
  <2> QED  BY <1>5, <1>6, <2>2, <2>3 DEF ReadPart
<1>9. DiskPart(v)
  <2>1. /\ DOMAIN v.disk = Paths
        /\ OnDisk(v) \ v.stuck \subseteq (OnDisk(w) \ w.stuck) \ TempFiles(Current(w))
    BY <1>5 DEF Without
  <2>2. TempFiles(Current(w)) = {Current(w)} \cup Copied(w)
    BY <1>2 DEF TempFiles, Copied
  <2>3. CASE w.source.kind = "gcs"
    <3>1. OnDisk(w) \ w.stuck \subseteq {Current(w)} \cup Copied(w)
      BY <1>2, <2>3 DEF Good, DiskPart
    <3>2. OnDisk(v) \subseteq v.stuck
      BY <2>1, <2>2, <3>1
    <3> QED  BY <1>5, <2>1, <2>3, <3>2 DEF DiskPart
  <2>4. CASE w.source.kind # "gcs"
    <3>1. IsList(w.items) /\ OnDisk(w) \ w.stuck \subseteq Ahead(w) \cup Copied(w) /\ w.next \in Nat
      BY <1>2, <2>4 DEF Good, DiskPart, Shape
    <3>2. OnDisk(v) \ v.stuck \subseteq Ahead(w) \ {Current(w)}
      BY <2>1, <2>2, <3>1
    <3>3. Len(w.items) \in Nat
      BY <3>1, Appended
    <3>4. \A i \in w.next .. Len(w.items) : i = w.next \/ i \in v.next .. Len(v.items)
      BY <1>5, <3>1, <3>3
    <3>5. OnDisk(v) \ v.stuck \subseteq Ahead(v)
      <4> SUFFICES ASSUME NEW x \in OnDisk(v) \ v.stuck PROVE x \in Ahead(v)
        OBVIOUS
      <4>1. PICK i \in w.next .. Len(w.items) : x = w.items[i].name
        BY <3>2 DEF Ahead
      <4>2. i # w.next
        BY <3>2, <4>1 DEF Current
      <4>3. i \in v.next .. Len(v.items) /\ v.items[i].name = x
        BY <1>5, <3>4, <4>1, <4>2
      <4> QED  BY <4>3 DEF Ahead
    <3>6. w.next = Len(w.items) => Ahead(v) = {}
      <4> SUFFICES ASSUME w.next = Len(w.items), NEW x \in Ahead(v) PROVE FALSE
        OBVIOUS
      <4>1. PICK i \in v.next .. Len(v.items) : x = v.items[i].name
        BY DEF Ahead
      <4> QED  BY <1>5, <3>1, <4>1
    <3>7. v.pc = "saving" => OnDisk(v) \subseteq v.stuck
      BY <1>5, <3>5, <3>6
    <3>8. v.pc = "saving" \/ v.pc = "processing"
      BY <1>5, <2>4
    <3> QED  BY <1>5, <2>1, <2>4, <3>1, <3>5, <3>7, <3>8 DEF DiskPart
  <2> QED  BY <2>3, <2>4
<1> QED  BY <1>1, <1>2, <1>3, <1>5, <1>7, <1>8, <1>9, RunMoves DEF Good

\* The result is saved with the totals of the rows.
Totalled(w) == [w EXCEPT !.summary = Summarise(w.rows)]

LEMMA SaveMakes ==
    ASSUME NEW j, Shape(work[j]), Save(j)
    PROVE  LET w == work[j]
               u == Totalled(w)
           IN  /\ w.pc = "saving" /\ u.pc = "saving" /\ u.summary = Summarise(w.rows)
               /\ Shape(u) /\ SameJob(u, w) /\ SameList(u, w) /\ SameDisk(u, w)
               /\ u.next = w.next /\ u.progress = w.progress
               /\ \E v : Become(j, v) /\ EndsAs(v, u, "succeeded")
<1> DEFINE w == work[j]
           total == Summarise(w.rows)
           u == [w EXCEPT !.summary = total]
<1>1. w.pc = "saving" /\ End(j, u, "succeeded")
  BY DEF Save, At
<1> HIDE DEF total
<1>2. /\ u.pc = "saving" /\ u.summary = total /\ Shape(u)
      /\ SameJob(u, w) /\ SameList(u, w) /\ SameDisk(u, w)
      /\ u.next = w.next /\ u.progress = w.progress
  BY <1>1 DEF Shape, SameJob, SameList, SameDisk
<1>3. u = Totalled(w)
  BY DEF Totalled, total
<1> HIDE DEF u
<1>4. \E v : Become(j, v) /\ EndsAs(v, u, "succeeded")
  BY <1>1, <1>2, EndMakes DEF Ended
<1> QED  BY <1>1, <1>2, <1>3, <1>4 DEF total

LEMMA SaveMoves ==
    ASSUME NEW j \in Jobs, Good(work[j]), Save(j) PROVE Moves(j)
<1> DEFINE w == work[j]
           u == Totalled(w)
<1>1. /\ w.pc = "saving" /\ u.pc = "saving" /\ Shape(u) /\ SameJob(u, w) /\ SameList(u, w)
      /\ SameDisk(u, w) /\ u.next = w.next
      /\ \E v : Become(j, v) /\ EndsAs(v, u, "succeeded")
  BY SaveMakes DEF Good
<1>2. PICK v : Become(j, v) /\ EndsAs(v, u, "succeeded")
  BY <1>1
<1> HIDE DEF u
<1>3. WriteDocument(j, "result.json")
  BY DEF Save
<1>4. SourcePart(u)
  BY <1>1, SameJobKeeps DEF Good
<1>5. DiskPart(u) /\ ReadPart(u)
  BY <1>1, SameOnDisk DEF Good, DiskPart, ReadPart, SameJob, SameList, SameDisk
<1>6. Good(v) /\ v.pc = "succeeded"
  <2>1. Good(u)
    BY <1>1, <1>4, <1>5 DEF Good
  <2>2. Good(v)
    BY <1>1, <1>2, <2>1, EndKeeps DEF Ended
  <2> QED  BY <1>2, <2>2 DEF EndsAs
<1> QED  BY <1>1, <1>2, <1>3, <1>6 DEF Moves, WriteDocument, ResultsBucket

LEMMA JobMoves ==
    ASSUME settings \in SettingsValue, NEW j \in Jobs, Good(work[j]),
           Run(j) \/ \E r \in Requests : Submit(j, r)
    PROVE  Moves(j) \/ UNCHANGED <<work, docs>>
<1>1. CASE \E r \in Requests : Submit(j, r)
  BY <1>1, SubmitMoves
<1>2. CASE Credentials(j)
  BY <1>2 DEF Credentials
<1>3. CASE CallRaises(j)
  <2>1. End(j, work[j], "failed") /\ UNCHANGED docs /\ work[j].pc \notin {"idle", "lost"}
    BY <1>3 DEF CallRaises, Fail
  <2> QED  BY <2>1, EndMoves
<1>4. CASE Cancelled(j)
  <2>1. End(j, work[j], "cancelled") /\ UNCHANGED docs /\ work[j].pc \notin {"idle", "lost"}
    BY <1>4 DEF Cancelled, At
  <2> QED  BY <2>1, EndMoves
<1>5. CASE \/ Plan(j) \/ ListDay(j) \/ FetchBlob(j) \/ ListRemote(j)
           \/ Downloaded(j) \/ Decompress(j) \/ Save(j)
  BY <1>5, PlanMoves, ListDayMoves, FetchBlobMoves, ListRemoteMoves, DownloadedMoves,
     DecompressMoves, SaveMoves
<1>6. CASE \E f \in RemoteFiles, upload \in {"ok", "refused"} : Download(j, f, upload)
  BY <1>6, DownloadMoves
<1>7. CASE \E kept \in SUBSET Paths : ProcessFile(j, kept)
  BY <1>7, ProcessFileMoves
<1> QED  BY <1>1, <1>2, <1>3, <1>4, <1>5, <1>6, <1>7 DEF Run

-----------------------------------------------------------------------------
(* All jobs.                                                               *)

DocumentPart(j) ==
    /\ work[j].pc \notin {"idle", "lost"} => Document(Deployed.results, j, "status.json") \in docs
    /\ work[j].pc = "succeeded" => Document(Deployed.results, j, "result.json") \in docs

SourcesInv ==
    /\ settings \in SettingsValue /\ storeBucket = Deployed.results
    /\ DOMAIN work = Jobs
    /\ \A j \in Jobs : Good(work[j]) /\ DocumentPart(j)

LEMMA SourcesInit == Init => SourcesInv
<1> SUFFICES ASSUME Init PROVE SourcesInv
  OBVIOUS
<1>1. \A j \in Jobs : work[j] = NoWork /\ work[j].pc = "idle"
  BY DEF Init, NoWork
<1>2. \A j \in Jobs : Good(work[j]) /\ DocumentPart(j)
  BY <1>1, NoWorkIsGood DEF DocumentPart
<1>3. settings \in SettingsValue /\ storeBucket = Deployed.results /\ DOMAIN work = Jobs
  BY DeployedAssumption DEF Init, SettingsInit
<1> QED  BY <1>2, <1>3 DEF SourcesInv

LEMMA MovesKeeps ==
    ASSUME SourcesInv, UNCHANGED settingsVars, NEW j \in Jobs, Moves(j) PROVE SourcesInv'
<1>1. PICK v : /\ Become(j, v) /\ Good(v) /\ v.pc \notin {"idle", "lost"}
               /\ v.pc = "succeeded" => Document(storeBucket, j, "result.json") \in docs'
  BY Zenon DEF Moves
<1>2. work' = [work EXCEPT ![j] = v]
  BY <1>1 DEF Become
<1>3. work'[j] = v /\ DOMAIN work' = Jobs /\ \A k \in Jobs \ {j} : work'[k] = work[k]
  BY <1>2 DEF SourcesInv
<1>4. ASSUME NEW k \in Jobs PROVE Good(work'[k])
  BY <1>1, <1>3 DEF SourcesInv
<1>5. ASSUME NEW k \in Jobs PROVE DocumentPart(k)'
  <2>1. CASE k = j
    BY <1>1, <1>3, <2>1 DEF DocumentPart, SourcesInv, Moves, Document
  <2>2. CASE k # j
    BY <1>3, <2>2 DEF DocumentPart, SourcesInv, Moves, Document
  <2> QED  BY <2>1, <2>2
<1>6. ASSUME NEW k \in Jobs PROVE Good(work[k])'
  <2>1. Good(work'[k])
    BY <1>4
  <2> QED  BY <2>1, Zenon DEF Good, Shape, SourcePart, DiskPart, ReadPart, Ahead,
                  OnDisk, Current, Copied
<1> QED  BY <1>3, <1>5, <1>6 DEF SourcesInv, settingsVars

LEMMA SourcesNext == SourcesInv /\ [Next]_vars => SourcesInv'
<1> SUFFICES ASSUME SourcesInv, [Next]_vars PROVE SourcesInv'
  OBVIOUS
<1>1. ASSUME UNCHANGED <<work, docs>>, settings' \in SettingsValue, UNCHANGED storeBucket
      PROVE  SourcesInv'
  <2>1. ASSUME NEW k \in Jobs PROVE Good(work[k])'
    <3>1. Good(work'[k])
      BY <1>1 DEF SourcesInv
    <3> QED  BY <3>1, Zenon DEF Good, Shape, SourcePart, DiskPart, ReadPart, Ahead,
                    OnDisk, Current, Copied
  <2>2. ASSUME NEW k \in Jobs PROVE DocumentPart(k)'
    BY <1>1 DEF SourcesInv, DocumentPart
  <2> QED  BY <1>1, <2>1, <2>2 DEF SourcesInv
<1>2. ASSUME NEW j \in Jobs, Run(j) \/ \E r \in Requests : Submit(j, r) PROVE SourcesInv'
  <2>1. UNCHANGED settingsVars
    BY <1>2 DEF Run, Submit, Plan, ListDay, FetchBlob, Credentials, ListRemote, Download,
                Downloaded, Decompress, ProcessFile, Cancelled, Save, CallRaises
  <2>2. Moves(j) \/ UNCHANGED <<work, docs>>
    BY <1>2, JobMoves DEF SourcesInv
  <2>3. settings' \in SettingsValue /\ UNCHANGED storeBucket
    BY <2>1 DEF SourcesInv, settingsVars
  <2> QED  BY <1>1, <2>1, <2>2, <2>3, MovesKeeps
<1>3. CASE Configure
  BY <1>1, <1>3 DEF Configure, PutConfig
<1>4. CASE RotateSecret \/ Deliver
  BY <1>1, <1>4 DEF RotateSecret, Deliver, settingsVars, SourcesInv
<1>5. CASE Restart
  <2>1. /\ settings' \in SettingsValue /\ storeBucket' = Deployed.results /\ docs' = docs
        /\ DOMAIN work' = Jobs
    BY <1>5, DeployedAssumption DEF Restart, SettingsRestart
  <2>2. ASSUME NEW j \in Jobs
        PROVE  \/ work'[j] = work[j]
               \/ work'[j] = [NoWork EXCEPT !.pc = "lost"]
    BY <1>5 DEF Restart
  <2>3. [NoWork EXCEPT !.pc = "lost"].pc = "lost"
    BY DEF NoWork
  <2>4. ASSUME NEW j \in Jobs PROVE Good(work'[j]) /\ DocumentPart(j)'
    BY <2>1, <2>2, <2>3, NoWorkIsGood DEF SourcesInv, DocumentPart
  <2>5. \A j \in Jobs : Good(work[j])' /\ DocumentPart(j)'
    BY <2>4 DEF Good, Shape, SourcePart, DiskPart, ReadPart, Ahead, OnDisk, Current, Copied
  <2> QED  BY <2>1, <2>5 DEF SourcesInv
<1>6. CASE UNCHANGED vars
  BY <1>1, <1>6 DEF vars, settingsVars, SourcesInv
<1> QED  BY <1>2, <1>3, <1>4, <1>5, <1>6 DEF Next

LEMMA SourcesSafety == Spec => []SourcesInv
BY SourcesInit, SourcesNext, PTL DEF Spec

\* The tag, the files and the rows of a job belong to one source, the
\* plugin's own before the request's before the default, whatever
\* reconfigurations happen between the three resolutions.
THEOREM SourceIsOne == Spec => []RunsOverItsSource
<1>1. SourcesInv => RunsOverItsSource
  <2> SUFFICES ASSUME SourcesInv, NEW j \in Jobs, work[j].source # None
               PROVE  LET w == work[j]
                          given == IF w.request.inline # None THEN w.request.inline
                                   ELSE w.request.override
                      IN  /\ w.tag = w.source.kind
                          /\ given # None => w.source = given
                          /\ \A ms \in Range(w.rows) : \A m \in ms :
                                /\ Feed[m].day \in w.source.range
                                /\ w.source.countries # {} =>
                                     Feed[m].country \in w.source.countries \cup {""}
    BY DEF RunsOverItsSource
  <2> DEFINE w == work[j]
  <2>1. SourcePart(w)
    BY DEF SourcesInv, Good
  <2>2. w.tag = SourceMode(w.request) /\ FromRequest(w.request, w.source)
    BY <2>1 DEF SourcePart
  <2>3. w.tag = w.source.kind
    BY <2>2, ResolvedAlike
  <2>4. \A ms \in Range(w.rows) : \A m \in ms : RacesIn(w.source, m)
    BY <2>1 DEF SourcePart
  <2> QED  BY <2>2, <2>3, <2>4 DEF FromRequest, RacesIn, PassesFilter
<1> QED  BY <1>1, SourcesSafety, PTL

\* Apart from what could not be removed a job over a bucket has one file on
\* disk, the one it is at, with its copy, a job that downloads only what the
\* loop has still to read, and a job that ended nothing, however it ended.
THEOREM DiskIsSmall == Spec => []WorkDirHoldsOneFile
<1>1. SourcesInv => WorkDirHoldsOneFile
  <2> SUFFICES ASSUME SourcesInv, NEW j \in Jobs
               PROVE  LET w == work[j]
                          names(is) == {w.items[i].name : i \in is}
                          copied == IF w.pc = "streaming"
                                    THEN {Stem[n] : n \in names({w.next})} ELSE {}
                      IN  OnDisk(w) \ w.stuck \subseteq
                            CASE w.pc \in {"processing", "streaming"} /\ w.source.kind = "gcs"
                                     -> names({w.next}) \cup copied
                              [] w.pc \in {"downloading", "processing", "streaming"}
                                   /\ w.source.kind # "gcs"
                                   -> names(w.next .. Len(w.items)) \cup copied
                              [] OTHER -> {}
    BY DEF WorkDirHoldsOneFile
  <2> DEFINE w == work[j]
             names(is) == {w.items[i].name : i \in is}
             copied == IF w.pc = "streaming" THEN {Stem[n] : n \in names({w.next})} ELSE {}
  <2>1. DiskPart(w)
    BY DEF SourcesInv, Good
  <2>2. names({w.next}) = {Current(w)} /\ names(w.next .. Len(w.items)) = Ahead(w)
    BY DEF Current, Ahead
  <2>3. copied = Copied(w)
    BY <2>2 DEF Copied
  <2> HIDE DEF w, names, copied
  <2>4. CASE w.pc \in {"processing", "streaming"} /\ w.source.kind = "gcs"
    BY <2>1, <2>2, <2>3, <2>4 DEF DiskPart, w, names, copied
  <2>5. CASE w.pc \in {"downloading", "processing", "streaming"} /\ w.source.kind # "gcs"
    BY <2>1, <2>2, <2>3, <2>5 DEF DiskPart, w, names, copied
  <2>6. CASE w.pc \notin {"downloading", "processing", "streaming"}
    BY <2>1, <2>6 DEF DiskPart, w, names, copied
  <2>7. w.pc = "downloading" => w.source.kind # "gcs"
    BY <2>1 DEF DiskPart
  <2> QED  BY <2>4, <2>5, <2>6, <2>7
<1> QED  BY <1>1, SourcesSafety, PTL

\* The documents of a job are in the bucket this process and the next read.
THEOREM DocumentsStayFound == Spec => []DocumentsAreFound
<1>1. SourcesInv => DocumentsAreFound
  BY DEF SourcesInv, DocumentPart, DocumentsAreFound, ResultsBucket
<1> QED  BY <1>1, SourcesSafety, PTL

-----------------------------------------------------------------------------
(* The listing by days.                                                    *)

\* The sequence made of a finite set has its elements, each once.
LEMMA ListOfSet ==
    ASSUME NEW S, IsFiniteSet(S)
    PROVE  LET f == SetToSeq(S) IN IsList(f) /\ IsInjective(f) /\ Range(f) = S
<1> DEFINE n == Cardinality(S)
           f == SetToSeq(S)
<1>1. n \in Nat /\ ExistsBijection(1 .. n, S)
  BY FS_CardinalityType
<1>2. \E g \in [1 .. n -> S] : IsInjective(g)
  BY <1>1 DEF ExistsBijection, Bijection, Injection
<1>3. f \in [1 .. n -> S] /\ IsInjective(f)
  BY <1>2 DEF SetToSeq
<1>4. IsFiniteSet(1 .. n) /\ Cardinality(1 .. n) = n
  BY <1>1, FS_Interval
<1> HIDE DEF f
<1>5. f \in Surjection(1 .. n, S)
  BY <1>3, <1>4, FS_Injection DEF Injection
<1>6. Range(f) = S
  BY <1>3, <1>5 DEF Surjection, Range
<1>7. f \in Seq(S)
  <2> HIDE DEF n
  <2> QED  BY <1>1, <1>3
<1> QED  BY <1>3, <1>6, <1>7 DEF IsList, f

\* Lists without a common element, one after the other.
LEMMA Concatenated ==
    ASSUME NEW s, IsList(s), IsInjective(s), NEW t, IsList(t), IsInjective(t),
           Range(s) \cap Range(t) = {}
    PROVE  IsList(s \o t) /\ IsInjective(s \o t) /\ Range(s \o t) = Range(s) \cup Range(t)
<1> DEFINE S == Range(s) \cup Range(t)
           c == s \o t
           m == Len(s)
           n == Len(t)
<1>1. s \in Seq(S) /\ t \in Seq(S)
  <2>1. \A i \in DOMAIN s : s[i] \in S
    BY DEF Range
  <2>2. \A i \in DOMAIN t : t[i] \in S
    BY DEF Range
  <2>3. s \in Seq(Range(s)) /\ t \in Seq(Range(t))
    BY DEF IsList
  <2> HIDE DEF S
  <2> QED  BY <2>1, <2>2, <2>3
<1>2. /\ m \in Nat /\ n \in Nat /\ DOMAIN s = 1 .. m /\ DOMAIN t = 1 .. n
  <2> HIDE DEF S
  <2> QED  BY <1>1
<1>3. /\ c \in Seq(S) /\ DOMAIN c = 1 .. m + n
      /\ \A i \in 1 .. m : c[i] = s[i] /\ c[i] \in Range(s)
      /\ \A i \in m + 1 .. m + n : i - m \in 1 .. n /\ c[i] = t[i - m] /\ c[i] \in Range(t)
  <2>1. /\ c \in Seq(S) /\ DOMAIN c = 1 .. m + n
        /\ \A i \in 1 .. m : c[i] = s[i]
        /\ \A i \in m + 1 .. m + n : i - m \in 1 .. n /\ c[i] = t[i - m]
    <3> HIDE DEF S
    <3> QED  BY <1>1, <1>2
  <2> HIDE DEF c, S
  <2> QED  BY <1>2, <2>1 DEF Range
<1> HIDE DEF c, m, n, S
<1>4. \A i \in 1 .. m + n : i \in 1 .. m \/ i \in m + 1 .. m + n
  BY <1>2
<1>5. IsInjective(c)
  <2> SUFFICES ASSUME NEW i \in 1 .. m + n, NEW k \in 1 .. m + n, c[i] = c[k] PROVE i = k
    BY <1>3 DEF IsInjective
  <2>1. CASE i \in 1 .. m /\ k \in 1 .. m
    BY <1>2, <1>3, <2>1 DEF IsInjective
  <2>2. CASE i \in m + 1 .. m + n /\ k \in m + 1 .. m + n
    <3>1. t[i - m] = t[k - m] /\ i - m \in DOMAIN t /\ k - m \in DOMAIN t
      BY <1>2, <1>3, <2>2
    <3>2. i - m = k - m
      BY <3>1 DEF IsInjective
    <3> QED  BY <1>2, <3>2
  <2>3. CASE i \in 1 .. m /\ k \in m + 1 .. m + n
    BY <1>3, <2>3
  <2>4. CASE k \in 1 .. m /\ i \in m + 1 .. m + n
    BY <1>3, <2>4
  <2> QED  BY <1>4, <2>1, <2>2, <2>3, <2>4
<1>6. Range(c) = S
  <2>1. \A i \in 1 .. m + n : c[i] \in S
    BY <1>3, <1>4 DEF S
  <2>2. \A x \in Range(s) : \E i \in 1 .. m + n : c[i] = x
    <3> SUFFICES ASSUME NEW i \in 1 .. m PROVE \E k \in 1 .. m + n : c[k] = s[i]
      BY <1>2 DEF Range
    <3> QED  BY <1>2, <1>3
  <2>3. \A x \in Range(t) : \E i \in 1 .. m + n : c[i] = x
    <3> SUFFICES ASSUME NEW i \in 1 .. n PROVE \E k \in 1 .. m + n : c[k] = t[i]
      BY <1>2 DEF Range
    <3>1. i + m \in m + 1 .. m + n /\ (i + m) - m = i /\ i + m \in 1 .. m + n
      BY <1>2
    <3> QED  BY <1>3, <3>1
  <2>4. \A x \in S : \E i \in 1 .. m + n : c[i] = x
    BY <2>2, <2>3 DEF S
  <2> QED  BY <1>3, <2>1, <2>4 DEF Range
<1> QED  BY <1>3, <1>5, <1>6 DEF IsList, c, S

\* The first of the days that are left is one of them.
LEMMA FirstDay == ASSUME NEW days, days \subseteq Nat, days # {} PROVE Min(days) \in days
<1>1. PICK x \in days : \A y \in days : ~(<<y, x>> \in OpToRel(<, Nat))
  BY NatLessThanWellFounded, WFMin
<1>2. \A y \in days : ~(y < x)
  BY <1>1 DEF OpToRel
<1>3. \A y \in days : x <= y
  BY <1>2
<1> QED  BY <1>3 DEF Min

\* The blobs of bs that a source wants from some days.
Wanted(bs, s, days) == {b \in bs : b.at = s.at /\ b.day \in days /\ b.name \in Bz2}

\* While a job reads a bucket, its list covers the days that are no more to
\* do: it has what was there when the listing began, and nothing that is not
\* there now.
ListPart(w, bs) ==
    w.pc \in {"listing", "fetching", "processing", "streaming"} /\ w.source.kind = "gcs" =>
      /\ w.todo \subseteq w.source.range /\ w.source.range \subseteq Days
      /\ w.pc = "listing" <=> w.todo # {}
      /\ IsList(w.items) /\ IsInjective(w.items)
      /\ w.atStart \subseteq bs
      /\ Wanted(w.atStart, w.source, w.source.range \ w.todo) \subseteq Range(w.items)
      /\ Range(w.items) \subseteq Wanted(bs, w.source, w.source.range \ w.todo)

ListsInv ==
    /\ IsFiniteSet(blobs)
    /\ \A j \in Jobs : /\ ListPart(work[j], blobs)
                       /\ work[j].pc = "queued" => work[j].request \in Requests

\* Blobs are only added.
LEMMA ListPartStays ==
    ASSUME NEW w, NEW bs, ListPart(w, bs), NEW cs, bs \subseteq cs PROVE ListPart(w, cs)
<1>1. Wanted(bs, w.source, w.source.range \ w.todo)
        \subseteq Wanted(cs, w.source, w.source.range \ w.todo)
  BY DEF Wanted
<1> QED  BY <1>1 DEF ListPart

\* What a step of job j does to its list.
Lists(j) ==
    /\ blobs \subseteq blobs' /\ IsFiniteSet(blobs')
    /\ \/ UNCHANGED work
       \/ \E v : /\ Become(j, v) /\ ListPart(v, blobs')
                 /\ v.pc = "queued" => v.request \in Requests

\* A step that goes on with the list as it is.
LEMMA SameListKeeps ==
    ASSUME ListsInv, NEW j \in Jobs, UNCHANGED blobs,
           work[j].pc \in {"fetching", "processing", "streaming"},
           NEW v, Become(j, v), SameList(v, work[j]), v.pc \notin {"listing", "queued"}
    PROVE  Lists(j)
<1>1. ListPart(work[j], blobs) /\ IsFiniteSet(blobs)
  BY DEF ListsInv
<1>2. ListPart(v, blobs')
  BY <1>1 DEF ListPart, SameList
<1> QED  BY <1>1, <1>2 DEF Lists

LEMMA OffTheList ==
    ASSUME NEW j \in Jobs, blobs \subseteq blobs', IsFiniteSet(blobs'),
           NEW v, Become(j, v),
           v.pc \notin {"listing", "fetching", "processing", "streaming", "queued"}
    PROVE  Lists(j)
BY DEF Lists, ListPart

LEMMA EndLists ==
    ASSUME ListsInv, NEW j \in Jobs, UNCHANGED blobs, NEW w, Shape(w),
           NEW place \in Ended, End(j, w, place)
    PROVE  Lists(j)
<1>1. PICK v : Become(j, v) /\ EndsAs(v, w, place)
  BY EndMakes
<1>2. v.pc \in {"succeeded", "failed", "cancelled"}
  BY <1>1 DEF EndsAs, Ended
<1>3. blobs \subseteq blobs' /\ IsFiniteSet(blobs')
  BY DEF ListsInv
<1> QED  BY <1>1, <1>2, <1>3, OffTheList

\* A list of Gcs(..) is of days, and of one at least.
LEMMA RangeOfGcs ==
    ASSUME NEW r \in Requests, Resolvable(r), ResolveSource(r).kind = "gcs"
    PROVE  ResolveSource(r).range \subseteq Days /\ ResolveSource(r).range # {}
<1>1. r \in Request
  BY SourcesAssumption
<1>2. CASE r.inline # None
  <2>1. r.inline \in Source
    BY <1>1, <1>2 DEF Request
  <2> QED  BY <1>2, <2>1 DEF Source, ResolveSource
<1>3. CASE r.inline = None /\ r.override # None
  <2>1. r.override \in Source
    BY <1>1, <1>3 DEF Request
  <2> QED  BY <1>3, <2>1 DEF Source, ResolveSource
<1>4. CASE r.inline = None /\ r.override = None
  BY <1>1, <1>4 DEF Request, Resolvable, ResolveSource, Gcs
<1> QED  BY <1>2, <1>3, <1>4

LEMMA PlanLists ==
    ASSUME SourcesInv, ListsInv, NEW j \in Jobs, Plan(j) PROVE Lists(j)
<1> DEFINE w == work[j]
           s == ResolveSource(w.request)
<1>1. /\ w.pc = "queued" /\ blobs' = blobs /\ IsFiniteSet(blobs)
      /\ w.request \in Requests /\ Shape(w) /\ w.items = <<>>
  BY DEF Plan, At, ListsInv, SourcesInv, Good, DiskPart
<1>2. CASE ~Resolvable(w.request)
  <2>1. End(j, w, "failed")
    BY <1>2 DEF Plan, Fail
  <2> QED  BY <1>1, <2>1, EndLists DEF Ended
<1>3. CASE Resolvable(w.request) /\ s.kind = "gcs"
  <2> DEFINE v == [[w EXCEPT !.source = s] EXCEPT !.pc = "listing", !.todo = s.range,
                                                  !.atStart = blobs]
  <2>1. Become(j, v)
    BY <1>3 DEF Plan
  <2>2. /\ v.pc = "listing" /\ v.source = s /\ v.todo = s.range /\ v.atStart = blobs
        /\ v.items = <<>>
    BY <1>1 DEF Shape
  <2> HIDE DEF v
  <2>3. v.todo \subseteq Days /\ v.todo # {}
    BY <1>1, <1>3, <2>2, RangeOfGcs
  <2>4. IsList(v.items) /\ IsInjective(v.items) /\ Range(v.items) = {}
    BY <2>2, EmptyIsList DEF IsInjective
  <2>5. Wanted(v.atStart, v.source, v.source.range \ v.todo) = {}
    BY <2>2 DEF Wanted
  <2>6. ListPart(v, blobs')
    BY <1>1, <2>2, <2>3, <2>4, <2>5 DEF ListPart
  <2> QED  BY <1>1, <2>1, <2>2, <2>6 DEF Lists
<1>4. CASE Resolvable(w.request) /\ s.kind # "gcs"
  <2> DEFINE v == [[w EXCEPT !.source = s] EXCEPT !.pc = "listingRemote"]
  <2>1. Become(j, v) /\ v.pc = "listingRemote"
    BY <1>1, <1>4 DEF Plan, Shape
  <2> HIDE DEF v
  <2> QED  BY <1>1, <2>1, OffTheList
<1> QED  BY <1>2, <1>3, <1>4

\* The day that is listed next, and the list with its blobs.
Today(w) == Min(w.todo)
Longer(w) == w.items \o SetToSeq(DayListing(w.source, Today(w)))

LEMMA DayIsAdded ==
    ASSUME SourcesInv, ListsInv, NEW j \in Jobs, ListDay(j),
           NEW v, v.pc \in {"listing", "fetching"}, v.source = work[j].source,
           v.todo = work[j].todo \ {Today(work[j])}, v.atStart = work[j].atStart,
           v.items = Longer(work[j]),
           v.pc = "listing" <=> v.todo # {}
    PROVE  ListPart(v, blobs)
<1> DEFINE w == work[j]
           s == w.source
           d == Today(w)
           found == DayListing(s, d)
<1>1. w.pc = "listing" /\ s.kind = "gcs"
  BY DEF ListDay, At, SourcesInv, Good, DiskPart
<1>2. /\ w.todo \subseteq s.range /\ s.range \subseteq Days /\ w.todo # {}
      /\ IsList(w.items) /\ IsInjective(w.items) /\ w.atStart \subseteq blobs
      /\ Wanted(w.atStart, s, s.range \ w.todo) \subseteq Range(w.items)
      /\ Range(w.items) \subseteq Wanted(blobs, s, s.range \ w.todo)
  BY <1>1 DEF ListsInv, ListPart
<1>3. d \in w.todo
  BY <1>2, FirstDay, SourcesAssumption DEF Today
<1>4. IsFiniteSet(found)
  BY FS_Subset DEF ListsInv, DayListing
<1>5. found = Wanted(blobs, s, {d})
  BY DEF DayListing, UnderDay, Wanted
<1>6. /\ IsList(SetToSeq(found)) /\ IsInjective(SetToSeq(found))
      /\ Range(SetToSeq(found)) = found
  BY <1>4, ListOfSet
<1> HIDE DEF found
<1> HIDE DEF d
<1>7. Range(w.items) \cap found = {}
  BY <1>2, <1>3, <1>5 DEF Wanted
<1>8. /\ IsList(v.items) /\ IsInjective(v.items)
      /\ Range(v.items) = Range(w.items) \cup found
  BY <1>2, <1>6, <1>7, Concatenated DEF found, d, Longer
<1>9. s.range \ v.todo = (s.range \ w.todo) \cup {d}
  BY <1>2, <1>3 DEF d
<1>10. \A bs : Wanted(bs, s, s.range \ v.todo)
                 = Wanted(bs, s, s.range \ w.todo) \cup Wanted(bs, s, {d})
  BY <1>9 DEF Wanted
<1>11. Wanted(w.atStart, s, {d}) \subseteq found
  BY <1>2, <1>5 DEF Wanted
<1>12. /\ Wanted(w.atStart, s, s.range \ v.todo) \subseteq Range(v.items)
       /\ Range(v.items) \subseteq Wanted(blobs, s, s.range \ v.todo)
  BY <1>2, <1>5, <1>8, <1>10, <1>11
<1> QED  BY <1>2, <1>8, <1>12 DEF ListPart

LEMMA ListDayLists ==
    ASSUME SourcesInv, ListsInv, NEW j \in Jobs, ListDay(j) PROVE Lists(j)
<1> DEFINE w == work[j]
           d == Today(w)
           found == Longer(w)
<1>1. w.pc = "listing" /\ blobs' = blobs /\ IsFiniteSet(blobs) /\ Shape(w)
  BY DEF ListDay, At, ListsInv, SourcesInv, Good
<1>2. w.todo # {}
  BY <1>1 DEF ListsInv, ListPart, SourcesInv, Good, DiskPart
<1> HIDE DEF found, d
<1>3. CASE w.todo = {d} /\ found = <<>>
  <2>1. End(j, w, "failed")
    BY <1>3 DEF ListDay, found, d, Longer, Today, Fail
  <2> QED  BY <1>1, <2>1, EndLists DEF Ended
<1>4. CASE ~(w.todo = {d} /\ found = <<>>)
  <2> DEFINE place == IF w.todo = {d} THEN "fetching" ELSE w.pc
             v == [w EXCEPT !.todo = @ \ {d}, !.items = found, !.pc = place]
  <2>1. Become(j, v)
    BY <1>4 DEF ListDay, found, d, Longer, Today
  <2>2. /\ place \in {"listing", "fetching"}
        /\ place = "listing" <=> w.todo \ {d} # {}
    BY <1>1, <1>2
  <2> HIDE DEF place
  <2>3. /\ v.pc = place /\ v.source = w.source /\ v.todo = w.todo \ {d}
        /\ v.atStart = w.atStart /\ v.items = found
    BY <1>1 DEF Shape
  <2> HIDE DEF v
  <2>4. ListPart(v, blobs)
    BY <2>2, <2>3, DayIsAdded DEF found, d
  <2>5. ListPart(v, blobs') /\ blobs \subseteq blobs' /\ IsFiniteSet(blobs') /\ v.pc # "queued"
    BY <1>1, <2>2, <2>3, <2>4
  <2> HIDE DEF w
  <2> QED  BY <2>1, <2>5 DEF Lists
<1> QED  BY <1>3, <1>4

LEMMA LoopLists ==
    ASSUME SourcesInv, ListsInv, NEW j \in Jobs,
           FetchBlob(j) \/ Decompress(j) \/ \E kept \in SUBSET Paths : ProcessFile(j, kept)
    PROVE  Lists(j)
<1> DEFINE w == work[j]
<1>1. Good(w) /\ Shape(w)
  BY DEF SourcesInv, Good
<1>2. CASE FetchBlob(j)
  <2>1. w.pc = "fetching" /\ \E v : Become(j, v) /\ Fetches(v, w)
    BY <1>1, <1>2, FetchBlobMakes
  <2>2. UNCHANGED blobs
    BY <1>2 DEF FetchBlob
  <2> QED  BY <2>1, <2>2, SameListKeeps DEF Fetches
<1>3. CASE Decompress(j)
  <2>1. /\ w.pc = "processing"
        /\ End(j, w, "failed") \/ \E v : Become(j, v) /\ Decompresses(v, w)
    BY <1>1, <1>3, DecompressMakes
  <2>2. UNCHANGED blobs
    BY <1>3 DEF Decompress
  <2> QED  BY <1>1, <2>1, <2>2, EndLists, SameListKeeps DEF Decompresses, Ended
<1>4. ASSUME NEW kept, ProcessFile(j, kept) PROVE Lists(j)
  <2>1. w.pc = "streaming" /\ \E v : Become(j, v) /\ Reads(v, w, RowsOf(w))
    BY <1>1, <1>4, ProcessFileMakes
  <2>2. UNCHANGED blobs
    BY <1>4 DEF ProcessFile
  <2>3. PICK v : Become(j, v) /\ Reads(v, w, RowsOf(w))
    BY <2>1
  <2>4. SameList(v, w) /\ v.pc \notin {"listing", "queued"}
    BY <2>3 DEF Reads
  <2> QED  BY <2>1, <2>2, <2>3, <2>4, SameListKeeps
<1> QED  BY <1>2, <1>3, <1>4

\* The steps of a job that reads no bucket, or reads it no longer.
LEMMA OtherLists ==
    ASSUME SourcesInv, ListsInv, NEW j \in Jobs,
           \/ ListRemote(j) \/ Downloaded(j) \/ Cancelled(j) \/ Save(j) \/ CallRaises(j)
           \/ \E f \in RemoteFiles, upload \in {"ok", "refused"} : Download(j, f, upload)
           \/ \E r \in Requests : Submit(j, r)
    PROVE  Lists(j)
<1> DEFINE w == work[j]
<1>1. Good(w) /\ Shape(w) /\ DiskPart(w) /\ IsFiniteSet(blobs)
  BY DEF SourcesInv, Good, ListsInv
<1>2. CASE ListRemote(j)
  <2>1. UNCHANGED blobs /\ \E v : Become(j, v) /\ ListsRemote(v, w)
    BY <1>1, <1>2, ListRemoteMakes DEF ListRemote
  <2> QED  BY <1>1, <2>1, OffTheList DEF ListsRemote
<1>3. CASE Downloaded(j)
  <2>1. /\ w.pc = "downloading" /\ UNCHANGED blobs
        /\ End(j, w, "failed") \/ \E v : Become(j, v) /\ StartsLoop(v, w)
    BY <1>1, <1>3, DownloadedMakes DEF Downloaded
  <2>2. ASSUME NEW v, Become(j, v), StartsLoop(v, w) PROVE Lists(j)
    <3>1. v.pc = "processing" /\ v.source.kind # "gcs"
      BY <1>1, <2>1, <2>2 DEF StartsLoop, SameList, DiskPart
    <3>2. ListPart(v, blobs')
      BY <3>1 DEF ListPart
    <3> QED  BY <1>1, <2>1, <2>2, <3>1, <3>2 DEF Lists
  <2> QED  BY <1>1, <2>1, <2>2, EndLists DEF Ended
<1>4. CASE Cancelled(j) \/ CallRaises(j)
  <2>1. UNCHANGED blobs /\ (End(j, w, "cancelled") \/ End(j, w, "failed"))
    BY <1>4 DEF Cancelled, CallRaises, Fail
  <2> QED  BY <1>1, <2>1, EndLists DEF Ended
<1>5. CASE Save(j)
  <2>1. UNCHANGED blobs /\ \E v : Become(j, v) /\ EndsAs(v, Totalled(w), "succeeded")
    BY <1>1, <1>5, SaveMakes DEF Save
  <2> QED  BY <1>1, <2>1, OffTheList DEF EndsAs
<1>6. ASSUME NEW f \in RemoteFiles, NEW upload \in {"ok", "refused"}, Download(j, f, upload)
      PROVE  Lists(j)
  <2>1. \E v : Become(j, v) /\ Downloads(v, w, f)
    BY <1>1, <1>6, DownloadMakes
  <2>2. blobs' = blobs \/ blobs' = blobs \cup {MirrorBlob(w.source, f)}
    BY <1>6 DEF Download
  <2>3. blobs \subseteq blobs' /\ IsFiniteSet(blobs')
    BY <1>1, <2>2, FS_AddElement
  <2> QED  BY <2>1, <2>3, OffTheList DEF Downloads
<1>7. ASSUME NEW r \in Requests, Submit(j, r) PROVE Lists(j)
  <2>1. UNCHANGED blobs /\ \E v : Become(j, v) /\ Fresh(v, r)
    BY <1>7, SubmitMakes DEF Submit
  <2>2. PICK v : Become(j, v) /\ Fresh(v, r)
    BY <2>1
  <2>3. v.pc = "queued" /\ v.request = r
    BY <2>2 DEF Fresh
  <2>4. ListPart(v, blobs')
    BY <2>3 DEF ListPart
  <2> QED  BY <1>1, <2>1, <2>2, <2>3, <2>4 DEF Lists
<1> QED  BY <1>2, <1>3, <1>4, <1>5, <1>6, <1>7

LEMMA ListsInit == Init => ListsInv
<1> SUFFICES ASSUME Init PROVE ListsInv
  OBVIOUS
<1>1. \A j \in Jobs : work[j].pc = "idle"
  BY DEF Init, NoWork
<1> QED  BY <1>1, SourcesAssumption DEF Init, ListsInv, ListPart

LEMMA ListsKeeps ==
    ASSUME SourcesInv, ListsInv, NEW j \in Jobs, Lists(j) PROVE ListsInv'
<1>1. \A k \in Jobs : ListPart(work[k], blobs')
  BY ListPartStays DEF Lists, ListsInv
<1>2. CASE UNCHANGED work
  BY <1>1, <1>2 DEF Lists, ListsInv
<1>3. ASSUME NEW v, Become(j, v), ListPart(v, blobs'), v.pc = "queued" => v.request \in Requests
      PROVE  ListsInv'
  <2>1. work'[j] = v /\ \A k \in Jobs \ {j} : work'[k] = work[k]
    BY <1>3 DEF Become, SourcesInv
  <2>2. ASSUME NEW k \in Jobs
        PROVE  ListPart(work'[k], blobs') /\ (work'[k].pc = "queued" => work'[k].request \in Requests)
    BY <1>1, <1>3, <2>1 DEF ListsInv
  <2> QED  BY <2>2 DEF Lists, ListsInv
<1> QED  BY <1>2, <1>3 DEF Lists

LEMMA ListsNext == SourcesInv /\ ListsInv /\ [Next]_vars => ListsInv'
<1> SUFFICES ASSUME SourcesInv, ListsInv, [Next]_vars PROVE ListsInv'
  OBVIOUS
<1>1. ASSUME NEW j \in Jobs, Run(j) \/ \E r \in Requests : Submit(j, r) PROVE ListsInv'
  <2>1. CASE Credentials(j)
    BY <2>1 DEF Credentials, ListsInv
  <2>2. CASE ~Credentials(j)
    <3>1. Lists(j)
      BY <1>1, <2>2, PlanLists, ListDayLists, LoopLists, OtherLists DEF Run
    <3> QED  BY <3>1, ListsKeeps
  <2> QED  BY <2>1, <2>2
<1>2. CASE Configure \/ RotateSecret \/ UNCHANGED vars
  BY <1>2 DEF Configure, RotateSecret, vars, ListsInv
<1>3. CASE Deliver
  <2>1. work' = work /\ \E b \in Deliveries : blobs' = blobs \cup {b}
    BY <1>3 DEF Deliver
  <2>2. blobs \subseteq blobs' /\ IsFiniteSet(blobs')
    BY <2>1, FS_AddElement DEF ListsInv
  <2>3. \A k \in Jobs : ListPart(work[k], blobs')
    BY <2>2, ListPartStays DEF ListsInv
  <2> QED  BY <2>1, <2>2, <2>3 DEF ListsInv
<1>4. CASE Restart
  <2>1. /\ blobs' = blobs
        /\ \A k \in Jobs : work'[k] = work[k] \/ work'[k] = [NoWork EXCEPT !.pc = "lost"]
    BY <1>4 DEF Restart
  <2>2. [NoWork EXCEPT !.pc = "lost"].pc = "lost"
    BY DEF NoWork
  <2>3. ASSUME NEW k \in Jobs
        PROVE  ListPart(work'[k], blobs') /\ (work'[k].pc = "queued" => work'[k].request \in Requests)
    BY <2>1, <2>2 DEF ListsInv, ListPart
  <2> QED  BY <2>1, <2>3 DEF ListsInv
<1> QED  BY <1>1, <1>2, <1>3, <1>4 DEF Next

\* A list of blobs is exactly what the source asks for, once each, of what was
\* there when the listing began and of what was delivered meanwhile.
THEOREM ListingStaysExact == Spec => []ListingIsExact
<1>1. Init => SourcesInv /\ ListsInv
  BY SourcesInit, ListsInit
<1>2. SourcesInv /\ ListsInv /\ [Next]_vars => (SourcesInv /\ ListsInv)'
  BY SourcesNext, ListsNext
<1>3. SourcesInv /\ ListsInv => ListingIsExact
  <2> SUFFICES ASSUME SourcesInv, ListsInv, NEW j \in Jobs, work[j].pc = "fetching"
               PROVE  LET w == work[j]
                          wanted(bs) == {b \in bs : /\ b.at = w.source.at /\ b.day \in w.source.range
                                                    /\ b.name \in Bz2}
                      IN  /\ IsInjective(w.items)
                          /\ wanted(w.atStart) \subseteq Range(w.items)
                          /\ Range(w.items) \subseteq wanted(blobs)
    BY DEF ListingIsExact
  <2>1. work[j].source.kind = "gcs"
    BY DEF SourcesInv, Good, DiskPart
  <2>2. ListPart(work[j], blobs)
    BY DEF ListsInv
  <2>3. work[j].todo = {} /\ work[j].source.range \ work[j].todo = work[j].source.range
    BY <2>1, <2>2 DEF ListPart
  <2> QED  BY <2>1, <2>2, <2>3 DEF ListPart, Wanted
<1> QED  BY <1>1, <1>2, <1>3, PTL DEF Spec

-----------------------------------------------------------------------------
(* What the job counts.                                                    *)

\* The markets of one file: finitely many, of those the replay knows.
Markets(ms) == IsFiniteSet(ms) /\ ms \subseteq DOMAIN Feed

\* The bets and the void ones of a file; no more are void than there are.
LEMMA BetsAreCounted ==
    ASSUME NEW ms, Markets(ms)
    PROVE  BetsOf(ms) \in Nat /\ VoidsOf(ms) \in Nat /\ VoidsOf(ms) <= BetsOf(ms)
<1> DEFINE bets == [m \in ms |-> Feed[m].bets]
           voids == [m \in ms |-> Feed[m].voids]
<1>1. \A m \in ms : Feed[m].bets \in Nat /\ Feed[m].voids \in 0 .. Feed[m].bets
  BY SourcesAssumption DEF Markets
<1>2. /\ DOMAIN bets = ms /\ DOMAIN voids = ms /\ IsFiniteSet(ms)
      /\ \A m \in ms : bets[m] \in Nat /\ voids[m] \in Nat /\ voids[m] <= bets[m]
  BY <1>1 DEF Markets
<1> HIDE DEF bets, voids
<1>3. Summands(bets) /\ Summands(voids)
  BY <1>2 DEF Summands
<1>4. SumFunction(bets) \in Nat /\ SumFunction(voids) \in Nat
  BY <1>2, SumIsNatural
<1>5. SumFunction(voids) <= SumFunction(bets)
  BY <1>2, <1>3, SumMonotone
<1> QED  BY <1>4, <1>5 DEF BetsOf, VoidsOf, bets, voids

\* The markets of all files.
Every(rows) == UNION Range(rows)

LEMMA InEvery ==
    ASSUME NEW rows PROVE \A m : m \in Every(rows) <=> \E k \in DOMAIN rows : m \in rows[k]
BY Zenon DEF Every, Range

Bets(rows) == [k \in DOMAIN rows |-> BetsOf(rows[k])]
Voids(rows) == [k \in DOMAIN rows |-> VoidsOf(rows[k])]

\* Two files of the list have rows in one market.
Overlap(rows) == \E i, k \in DOMAIN rows : i # k /\ rows[i] \cap rows[k] # {}

\* The rows of the files so far, and what their sums are natural numbers of.
RowsPart(rows) ==
    /\ IsList(rows)
    /\ \A ms \in Range(rows) : Markets(ms)
    /\ IsFiniteSet(Every(rows))

\* The progress c against the summary of the rows so far.
CountsPart(c, rows) ==
    /\ c \in Counts
    /\ Summarise(rows).bets = c.bets + Summarise(rows).voids
    /\ Summarise(rows).markets <= c.markets
    /\ Summarise(rows).markets = c.markets <=> ~Overlap(rows)

LEMMA SummaryIsCounts ==
    ASSUME NEW rows, RowsPart(rows) PROVE Summarise(rows) \in Counts
<1>1. /\ DOMAIN rows = 1 .. Len(rows) /\ Len(rows) \in Nat
      /\ \A k \in DOMAIN rows : Markets(rows[k])
  BY DEF RowsPart, IsList, Range
<1>2. IsFiniteSet(DOMAIN rows)
  BY <1>1, FS_Interval
<1>3. \A k \in DOMAIN rows : BetsOf(rows[k]) \in Nat /\ VoidsOf(rows[k]) \in Nat
  BY <1>1, BetsAreCounted
<1> DEFINE b == Bets(rows)
           v == Voids(rows)
<1>4. /\ DOMAIN b = DOMAIN rows /\ DOMAIN v = DOMAIN rows
      /\ \A k \in DOMAIN rows : b[k] \in Nat /\ v[k] \in Nat
  BY <1>3 DEF Bets, Voids
<1> HIDE DEF b, v
<1>5. SumFunction(b) \in Nat /\ SumFunction(v) \in Nat
  BY <1>2, <1>4, SumIsNatural
<1>6. Cardinality(Every(rows)) \in Nat
  BY FS_CardinalityType DEF RowsPart
<1> QED  BY <1>5, <1>6 DEF Summarise, Counts, b, v, Bets, Voids, Every

\* One more file.
LEMMA RowsAppended ==
    ASSUME NEW rows, RowsPart(rows), NEW ms, Markets(ms)
    PROVE  LET more == Append(rows, ms)
           IN  /\ RowsPart(more)
               /\ Summarise(more).bets = Summarise(rows).bets + BetsOf(ms)
               /\ Summarise(more).voids = Summarise(rows).voids + VoidsOf(ms)
               /\ Every(more) = Every(rows) \cup ms
               /\ Overlap(more) <=> Overlap(rows) \/ Every(rows) \cap ms # {}
<1> DEFINE more == Append(rows, ms)
           n == Len(rows)
<1>1. /\ IsList(more) /\ Range(more) = Range(rows) \cup {ms}
      /\ Len(more) = n + 1 /\ n \in Nat
      /\ \A i \in 1 .. n : more[i] = rows[i]
      /\ more[n + 1] = ms
  BY Appended DEF RowsPart
<1>2. DOMAIN rows = 1 .. n /\ DOMAIN more = 1 .. n + 1
  BY <1>1 DEF IsList, RowsPart
<1> HIDE DEF more, n
<1>3. RowsPart(more) /\ Every(more) = Every(rows) \cup ms
  <2>1. Every(more) = Every(rows) \cup ms
    BY <1>1, Zenon DEF Every
  <2>2. IsFiniteSet(Every(rows)) /\ IsFiniteSet(ms)
    BY DEF RowsPart, Markets
  <2>3. IsFiniteSet(Every(rows) \cup ms)
    BY <2>2, FS_Union
  <2>4. \A r \in Range(more) : Markets(r)
    BY <1>1 DEF RowsPart
  <2>5. RowsPart(more)
    <3>1. IsList(more) /\ IsFiniteSet(Every(more))
      BY <1>1, <2>1, <2>3
    <3> QED  BY <2>4, <3>1, Zenon DEF RowsPart
  <2> QED  BY <2>1, <2>5
<1>4. DOMAIN more = DOMAIN rows \cup {n + 1} /\ n + 1 \notin DOMAIN rows /\ IsFiniteSet(DOMAIN rows)
  <2>1. n \in Nat
    BY <1>1
  <2>2. 1 .. n + 1 = (1 .. n) \cup {n + 1} /\ n + 1 \notin 1 .. n
    BY <2>1
  <2>3. IsFiniteSet(1 .. n)
    BY <2>1, FS_Interval
  <2> QED  BY <1>2, <2>2, <2>3
<1>5. /\ \A k \in DOMAIN rows : BetsOf(rows[k]) \in Nat /\ VoidsOf(rows[k]) \in Nat
      /\ BetsOf(ms) \in Nat /\ VoidsOf(ms) \in Nat
  BY BetsAreCounted DEF RowsPart, Range
<1>6. SumFunction(Bets(more)) = SumFunction(Bets(rows)) + BetsOf(ms)
  <2> DEFINE f == Bets(rows)
             g == Bets(more)
             x == n + 1
  <2>1. /\ DOMAIN f = DOMAIN rows /\ DOMAIN g = DOMAIN f \cup {x} /\ x \notin DOMAIN f
        /\ \A k \in DOMAIN f : g[k] = f[k] /\ f[k] \in Int
        /\ g[x] = BetsOf(ms) /\ g[x] \in Int
    BY <1>1, <1>2, <1>4, <1>5 DEF Bets
  <2> HIDE DEF f, g, x
  <2>2. Summands(f)
    BY <1>4, <2>1 DEF Summands
  <2>3. SumFunction(g) = SumFunction(f) + g[x]
    BY <2>1, <2>2, SumExtended
  <2> QED  BY <2>1, <2>3 DEF f, g
<1>7. SumFunction(Voids(more)) = SumFunction(Voids(rows)) + VoidsOf(ms)
  <2> DEFINE f == Voids(rows)
             g == Voids(more)
             x == n + 1
  <2>1. /\ DOMAIN f = DOMAIN rows /\ DOMAIN g = DOMAIN f \cup {x} /\ x \notin DOMAIN f
        /\ \A k \in DOMAIN f : g[k] = f[k] /\ f[k] \in Int
        /\ g[x] = VoidsOf(ms) /\ g[x] \in Int
    BY <1>1, <1>2, <1>4, <1>5 DEF Voids
  <2> HIDE DEF f, g, x
  <2>2. Summands(f)
    BY <1>4, <2>1 DEF Summands
  <2>3. SumFunction(g) = SumFunction(f) + g[x]
    BY <2>1, <2>2, SumExtended
  <2> QED  BY <2>1, <2>3 DEF f, g
<1>8. Overlap(more) <=> Overlap(rows) \/ Every(rows) \cap ms # {}
  <2>1. ASSUME Overlap(more) PROVE Overlap(rows) \/ Every(rows) \cap ms # {}
    <3>1. PICK i, k \in DOMAIN more : i # k /\ more[i] \cap more[k] # {}
      BY <2>1 DEF Overlap
    <3>2. CASE i \in DOMAIN rows /\ k \in DOMAIN rows
      BY <1>1, <1>2, <3>1, <3>2 DEF Overlap
    <3>3. ASSUME NEW h \in DOMAIN rows, rows[h] \cap ms # {}
          PROVE  Every(rows) \cap ms # {}
      BY <3>3, InEvery
    <3>4. CASE i = n + 1 \/ k = n + 1
      BY <1>1, <1>2, <1>4, <3>1, <3>3, <3>4
    <3> QED  BY <1>4, <3>2, <3>4
  <2>2. ASSUME Overlap(rows) PROVE Overlap(more)
    BY <1>1, <1>2, <1>4, <2>2 DEF Overlap
  <2>3. ASSUME Every(rows) \cap ms # {} PROVE Overlap(more)
    <3>1. PICK i \in DOMAIN rows : rows[i] \cap ms # {}
      BY <2>3, InEvery
    <3>2. /\ i \in DOMAIN more /\ n + 1 \in DOMAIN more /\ i # n + 1
          /\ more[i] = rows[i] /\ more[n + 1] = ms
      BY <1>1, <1>2, <1>4
    <3> QED  BY <3>1, <3>2 DEF Overlap
  <2> QED  BY <2>1, <2>2, <2>3
<1> QED  BY <1>3, <1>6, <1>7, <1>8 DEF more, Summarise, Bets, Voids

LEMMA CountsAppended ==
    ASSUME NEW rows, RowsPart(rows), NEW c, CountsPart(c, rows), NEW ms, Markets(ms)
    PROVE  RowsPart(Append(rows, ms)) /\ CountsPart(CountFile(c, ms), Append(rows, ms))
<1> DEFINE more == Append(rows, ms)
           U == Every(rows)
           s == Summarise(rows)
           t == Summarise(more)
           e == CountFile(c, ms)
           b == BetsOf(ms)
           v == VoidsOf(ms)
           k == Cardinality(ms)
           both == Cardinality(U \cap ms)
<1>1. /\ RowsPart(more) /\ t.bets = s.bets + b /\ t.voids = s.voids + v
      /\ Every(more) = U \cup ms
      /\ Overlap(more) <=> Overlap(rows) \/ U \cap ms # {}
  BY RowsAppended
<1>2. s \in Counts /\ t \in Counts /\ c \in Counts
  BY <1>1, SummaryIsCounts DEF CountsPart
<1>3. b \in Nat /\ v \in Nat /\ v <= b
  BY BetsAreCounted
<1>4. /\ k \in Nat /\ both \in Nat /\ (both = 0 <=> U \cap ms = {})
      /\ t.markets = s.markets + k - both
  <2>1. IsFiniteSet(U) /\ IsFiniteSet(ms)
    BY DEF RowsPart, Markets
  <2>2. IsFiniteSet(U \cap ms)
    BY <2>1, FS_Intersection
  <2>3. Cardinality(U \cup ms) = Cardinality(U) + Cardinality(ms) - Cardinality(U \cap ms)
    BY <2>1, FS_Union
  <2>4. k \in Nat /\ both \in Nat
    BY <2>1, <2>2, FS_CardinalityType
  <2>5. both = 0 <=> U \cap ms = {}
    BY <2>2, FS_EmptySet
  <2>6. t.markets = Cardinality(U \cup ms) /\ s.markets = Cardinality(U)
    BY <1>1 DEF Summarise, Every
  <2> QED  BY <2>3, <2>4, <2>5, <2>6
<1>5. /\ s.bets = c.bets + s.voids /\ s.markets <= c.markets
      /\ (s.markets = c.markets <=> ~Overlap(rows))
  BY DEF CountsPart
<1>6. /\ e.markets = c.markets + k /\ e.bets = c.bets + b - v /\ e.voids = c.voids
      /\ e = [markets |-> e.markets, bets |-> e.bets, voids |-> e.voids]
  <2> HIDE DEF k, b, v
  <2>1. e = [c EXCEPT !.markets = @ + k, !.bets = @ + b - v]
    BY DEF CountFile, k, b, v
  <2> HIDE DEF e
  <2> QED  BY <1>2, <2>1 DEF Counts
<1> DEFINE cm == c.markets
           cb == c.bets
           cv == c.voids
           sm == s.markets
           sb == s.bets
           sv == s.voids
<1>7. /\ cm \in Nat /\ cb \in Nat /\ cv \in Nat /\ sm \in Nat /\ sb \in Nat /\ sv \in Nat
  BY <1>2 DEF Counts
<1> HIDE DEF more, U, s, t, e, b, v, k, both
<1>8. e.markets \in Nat /\ e.bets \in Nat /\ e.voids \in Nat
  <2>1. cm + k \in Nat /\ cb + b - v \in Nat
    BY <1>3, <1>4, <1>7
  <2> QED  BY <1>6, <1>7, <2>1
<1>9. e \in Counts
  BY <1>6, <1>8 DEF Counts
<1>10. t.bets = e.bets + t.voids
  <2>1. sb = cb + sv
    BY <1>5
  <2>2. sb + b = (cb + b - v) + (sv + v)
    <3> HIDE DEF sb, cb, sv
    <3> QED  BY <1>3, <1>7, <2>1
  <2> QED  BY <1>1, <1>6, <2>2
<1>11. sm <= cm /\ (sm = cm <=> ~Overlap(rows)) /\ t.markets = sm + k - both /\ e.markets = cm + k
  BY <1>4, <1>5, <1>6
<1>12. t.markets <= e.markets /\ (t.markets = e.markets <=> sm = cm /\ both = 0)
  <2> HIDE DEF sm, cm
  <2> QED  BY <1>4, <1>7, <1>11
<1>13. t.markets = e.markets <=> ~Overlap(more)
  BY <1>1, <1>4, <1>11, <1>12
<1> QED  BY <1>1, <1>9, <1>10, <1>12, <1>13 DEF CountsPart, more, t, e

\* What a job has counted, and what its result says once it is saved.
Counted(w) ==
    /\ RowsPart(w.rows) /\ CountsPart(w.progress, w.rows)
    /\ w.summary \in Counts
    /\ w.pc = "succeeded" => w.summary = Summarise(w.rows)

File == Blob \cup RemoteFile

\* The files a job has: on its list, on its disk, and where it is in the list.
Tidy(w) ==
    /\ w.request \in Requests \cup {None}
    /\ w.pc \notin {"idle", "lost"} => w.request \in Requests
    /\ w.disk \in [Paths -> File \cup {None}] /\ w.stuck \subseteq Paths
    /\ IsList(w.items) /\ Range(w.items) \subseteq File
    /\ w.next \in 1 .. Len(w.items) + 1
    /\ w.pc \in {"fetching", "processing", "streaming"} => w.next <= Len(w.items)
    /\ w.pc = "streaming" => w.disk[Stem[Current(w)]] # None
    /\ w.pc = "downloading" => w.todo \subseteq RemoteFiles
    /\ w.pc \in {"listingRemote", "downloading"} => w.source \in Source

RecordsInv ==
    /\ blobs \subseteq Blob
    /\ \A j \in Jobs : Counted(work[j]) /\ Tidy(work[j])

\* A file of the list, by its name and by its day.
LEMMA FilesAre ==
    ASSUME NEW f \in File
    PROVE  /\ f # None /\ f.name \in Names /\ f.day \in Days \cup {0}
           /\ f.name \in Paths /\ Stem[f.name] \in Paths
<1>1. f.name \in Names /\ f.day \in Days \cup {0}
  BY DEF File, Blob, RemoteFile
<1> QED  BY <1>1, SourcesAssumption DEF File, Paths

LEMMA FileAt ==
    ASSUME NEW w, Tidy(w), NEW i \in 1 .. Len(w.items)
    PROVE  w.items[i] \in File /\ w.items[i] \in Range(w.items)
<1>1. i \in DOMAIN w.items
  BY DEF Tidy, IsList
<1> QED  BY <1>1 DEF Tidy, Range

\* The file that the loop is at is one of them.
LEMMA CurrentIs ==
    ASSUME NEW w, Tidy(w), w.pc \in {"fetching", "processing", "streaming"}
    PROVE  /\ w.next \in 1 .. Len(w.items)
           /\ w.items[w.next] \in File /\ w.items[w.next] \in Range(w.items)
           /\ Current(w) \in Names /\ Current(w) \in Paths /\ Stem[Current(w)] \in Paths
<1>1. w.next \in 1 .. Len(w.items)
  BY DEF Tidy, IsList
<1> QED  BY <1>1, FileAt, FilesAre DEF Current

LEMMA WithoutIsTyped ==
    ASSUME NEW v, NEW w, Tidy(w), NEW paths, Without(v, w, paths)
    PROVE  v.disk \in [Paths -> File \cup {None}] /\ v.stuck \subseteq Paths
<1>1. \A p \in Paths : v.disk[p] = w.disk[p] \/ v.disk[p] = None
  BY DEF Without, OnDisk
<1>2. \A p \in Paths : v.disk[p] \in File \cup {None}
  BY <1>1 DEF Tidy
<1> QED  BY <1>2 DEF Without, IsDisk, Tidy

LEMMA WritesIsTyped ==
    ASSUME NEW v, NEW w, Tidy(w), NEW path, Writes(v, w, path),
           path \in Paths => v.disk[path] \in File
    PROVE  v.disk \in [Paths -> File \cup {None}] /\ v.stuck \subseteq Paths
<1>1. \A p \in Paths : v.disk[p] \in File \cup {None}
  BY DEF Tidy, Writes
<1> QED  BY <1>1 DEF Writes, IsDisk, Tidy

LEMMA NothingCounted ==
    ASSUME NEW v, v.rows = <<>>, v.progress = NoCounts, v.summary = NoCounts,
           v.pc # "succeeded"
    PROVE  Counted(v)
<1>1. IsList(<<>>) /\ Range(<<>>) = {} /\ DOMAIN <<>> = {}
  BY EmptyIsList
<1>2. Every(<<>>) = {} /\ IsFiniteSet({}) /\ Cardinality({}) = 0
  BY <1>1, FS_EmptySet, Zenon DEF Every
<1>3. RowsPart(<<>>)
  BY <1>1, <1>2 DEF RowsPart
<1>4. ~Overlap(<<>>)
  BY <1>1 DEF Overlap
<1>5. SumFunction(Bets(<<>>)) = 0 /\ SumFunction(Voids(<<>>)) = 0
  BY <1>1, SumOfNothing DEF Bets, Voids
<1>6. Summarise(<<>>) = NoCounts
  BY <1>2, <1>5 DEF Summarise, NoCounts, Bets, Voids, Every
<1>7. NoCounts \in Counts
  BY DEF NoCounts, Counts
<1>8. CountsPart(NoCounts, <<>>)
  BY <1>4, <1>6, <1>7 DEF CountsPart, NoCounts
<1> QED  BY <1>3, <1>7, <1>8 DEF Counted

LEMMA NoWorkIsTidy ==
    ASSUME NEW v, v.pc \in {"idle", "lost"} \/ v.request \in Requests,
           v.request \in Requests \cup {None}, v.disk = [p \in Paths |-> None],
           v.stuck = {}, v.items = <<>>, v.next = 1, v.pc \in {"idle", "lost", "queued"}
    PROVE  Tidy(v)
<1>1. IsList(<<>>) /\ Range(<<>>) = {} /\ Len(<<>>) = 0
  BY EmptyIsList
<1>2. v.disk \in [Paths -> File \cup {None}]
  OBVIOUS
<1> QED  BY <1>1, <1>2 DEF Tidy

LEMMA NewRecords ==
    /\ Counted(NoWork) /\ Tidy(NoWork)
    /\ Counted([NoWork EXCEPT !.pc = "lost"]) /\ Tidy([NoWork EXCEPT !.pc = "lost"])
<1> DEFINE empty == [p \in Paths |-> None]
<1>1. ASSUME NEW v, v \in {NoWork, [NoWork EXCEPT !.pc = "lost"]} PROVE Counted(v) /\ Tidy(v)
  <2> HIDE DEF empty
  <2>1. /\ v.pc \in {"idle", "lost"} /\ v.request = None /\ v.disk = empty /\ v.items = <<>>
        /\ v.next = 1 /\ v.rows = <<>> /\ v.progress = NoCounts /\ v.summary = NoCounts
        /\ v.stuck = {}
    BY <1>1 DEF NoWork, empty
  <2> QED  BY <2>1, NothingCounted, NoWorkIsTidy DEF empty
<1> QED  BY <1>1

LEMMA SameCountsKeeps ==
    ASSUME NEW w, Counted(w), NEW v, SameCounts(v, w), v.pc # "succeeded" PROVE Counted(v)
BY DEF Counted, SameCounts

\* The list of a record is left alone.
LEMMA SameFilesKeeps ==
    ASSUME NEW w, Tidy(w), w.pc \notin {"idle", "lost"}, NEW v, v.request = w.request,
           v.items = w.items, v.next = w.next,
           v.disk \in [Paths -> File \cup {None}], v.stuck \subseteq Paths,
           v.pc \in {"fetching", "processing", "streaming"} => v.next <= Len(v.items),
           v.pc = "streaming" => v.disk[Stem[Current(v)]] # None,
           v.pc = "downloading" => v.todo \subseteq RemoteFiles,
           v.pc \in {"listingRemote", "downloading"} => v.source \in Source
    PROVE  Tidy(v)
BY DEF Tidy

\* What a step of job j does to its record.
Records(j) ==
    \/ UNCHANGED work
    \/ \E v : Become(j, v) /\ Counted(v) /\ Tidy(v)

LEMMA EndIsTidy ==
    ASSUME NEW w, Tidy(w), w.pc \notin {"idle", "lost"}, NEW place \in Ended,
           NEW v, EndsAs(v, w, place)
    PROVE  Tidy(v)
<1>1. /\ v.pc \in {"succeeded", "failed", "cancelled"} /\ v.request = w.request
      /\ v.items = w.items /\ v.next = w.next
  BY DEF EndsAs, Ended, SameJob, SameList
<1>2. v.disk \in [Paths -> File \cup {None}] /\ v.stuck \subseteq Paths
  BY WithoutIsTyped DEF EndsAs
<1> QED  BY <1>1, <1>2, SameFilesKeeps

LEMMA EndRecords ==
    ASSUME SourcesInv, RecordsInv, NEW j \in Jobs, work[j].pc \notin {"idle", "lost"},
           NEW place \in {"failed", "cancelled"}, End(j, work[j], place)
    PROVE  Records(j)
<1> DEFINE w == work[j]
<1>1. Shape(w) /\ Counted(w) /\ Tidy(w) /\ place \in Ended
  BY DEF SourcesInv, Good, RecordsInv, Ended
<1>2. PICK v : Become(j, v) /\ EndsAs(v, w, place)
  BY <1>1, EndMakes
<1>3. SameCounts(v, w) /\ v.pc # "succeeded"
  BY <1>2 DEF EndsAs
<1>4. Counted(v)
  BY <1>1, <1>3, SameCountsKeeps
<1>5. Tidy(v)
  BY <1>1, <1>2, EndIsTidy
<1> QED  BY <1>2, <1>4, <1>5 DEF Records

LEMMA SubmitRecords ==
    ASSUME NEW j \in Jobs, NEW r \in Requests, Submit(j, r) PROVE Records(j)
<1>1. PICK v : Become(j, v) /\ Fresh(v, r)
  BY SubmitMakes
<1> QED  BY <1>1, NothingCounted, NoWorkIsTidy DEF Records, Fresh

LEMMA PlanRecords ==
    ASSUME SourcesInv, RecordsInv, NEW j \in Jobs, Plan(j) PROVE Records(j)
<1> DEFINE w == work[j]
           s == ResolveSource(w.request)
<1>1. w.pc = "queued" /\ Shape(w) /\ Counted(w) /\ Tidy(w)
  BY DEF Plan, At, SourcesInv, Good, RecordsInv
<1>2. ASSUME NEW v, Become(j, v), v.pc \in {"listing", "listingRemote"}, SameCounts(v, w),
             v.request = w.request, v.items = w.items, v.next = w.next, SameDisk(v, w),
             v.pc = "listingRemote" => v.source \in Source
      PROVE  Records(j)
  <2>1. Tidy(v)
    BY <1>1, <1>2, SameFilesKeeps DEF Tidy, SameDisk
  <2> QED  BY <1>1, <1>2, <2>1, SameCountsKeeps DEF Records
<1>3. CASE ~Resolvable(w.request)
  <2>1. End(j, w, "failed")
    BY <1>3 DEF Plan, Fail
  <2> QED  BY <1>1, <2>1, EndRecords
<1>4. CASE Resolvable(w.request) /\ s.kind = "gcs"
  <2> DEFINE v == [[w EXCEPT !.source = s] EXCEPT !.pc = "listing", !.todo = s.range,
                                                  !.atStart = blobs]
  <2>1. Become(j, v)
    BY <1>4 DEF Plan
  <2>2. /\ v.pc = "listing" /\ SameCounts(v, w) /\ v.request = w.request
        /\ v.items = w.items /\ v.next = w.next /\ SameDisk(v, w)
    BY <1>1 DEF Shape, SameCounts, SameDisk
  <2> HIDE DEF v
  <2> QED  BY <1>2, <2>1, <2>2
<1>5. CASE Resolvable(w.request) /\ s.kind # "gcs"
  <2> DEFINE v == [[w EXCEPT !.source = s] EXCEPT !.pc = "listingRemote"]
  <2>1. Become(j, v)
    BY <1>5 DEF Plan
  <2>2. /\ v.pc = "listingRemote" /\ SameCounts(v, w) /\ v.request = w.request
        /\ v.items = w.items /\ v.next = w.next /\ SameDisk(v, w) /\ v.source = s
    BY <1>1 DEF Shape, SameCounts, SameDisk
  <2>3. s \in Source
    <3>1. w.request \in Request
      BY <1>1, SourcesAssumption DEF Tidy
    <3> QED  BY <1>5, <3>1 DEF ResolveSource, Request, Gcs
  <2> HIDE DEF v
  <2> QED  BY <1>2, <2>1, <2>2, <2>3
<1> QED  BY <1>3, <1>4, <1>5

\* The list so far is of blobs of the bucket.
LEMMA ListDayRecords ==
    ASSUME SourcesInv, ListsInv, ListsInv', RecordsInv, NEW j \in Jobs, ListDay(j)
    PROVE  Records(j)
<1> DEFINE w == work[j]
           d == Min(w.todo)
           found == w.items \o SetToSeq(DayListing(w.source, d))
<1>1. /\ w.pc = "listing" /\ w.source.kind = "gcs" /\ w.next = 1
      /\ Shape(w) /\ Counted(w) /\ Tidy(w) /\ DOMAIN work = Jobs /\ blobs' = blobs
      /\ ListPart(w, blobs)
  BY DEF ListDay, At, SourcesInv, Good, DiskPart, RecordsInv, ListsInv
<1> HIDE DEF found
<1>2. CASE w.todo = {d} /\ found = <<>>
  <2>1. End(j, w, "failed")
    BY <1>2 DEF ListDay, found, Fail
  <2> QED  BY <1>1, <2>1, EndRecords
<1>3. CASE ~(w.todo = {d} /\ found = <<>>)
  <2> DEFINE place == IF w.todo = {d} THEN "fetching" ELSE w.pc
             v == [w EXCEPT !.todo = @ \ {d}, !.items = found, !.pc = place]
  <2>1. Become(j, v)
    BY <1>3 DEF ListDay, found
  <2>2. place \in {"listing", "fetching"} /\ (place = "fetching" => found # <<>>)
    BY <1>1, <1>3
  <2> HIDE DEF place
  <2>3. /\ v.pc = place /\ SameCounts(v, w) /\ v.request = w.request
        /\ v.source = w.source /\ v.next = w.next /\ SameDisk(v, w) /\ v.items = found
    BY <1>1 DEF Shape, SameCounts, SameDisk
  <2> HIDE DEF v
  <2>4. work'[j] = v
    BY <1>1, <2>1 DEF Become
  <2>5. ListPart(v, blobs)
    BY <1>1, <2>4 DEF ListsInv
  <2>6. IsList(v.items) /\ Range(v.items) \subseteq blobs
    BY <1>1, <2>2, <2>3, <2>5 DEF ListPart, Wanted
  <2>7. blobs \subseteq File
    BY DEF RecordsInv, File
  <2>8. /\ Len(v.items) \in Nat
        /\ v.items # <<>> => Len(v.items) >= 1
    BY <2>6 DEF IsList
  <2>9. Tidy(v)
    BY <1>1, <2>2, <2>3, <2>6, <2>7, <2>8 DEF Tidy, SameDisk
  <2>10. Counted(v)
    BY <1>1, <2>2, <2>3, SameCountsKeeps
  <2> QED  BY <2>1, <2>9, <2>10 DEF Records
<1> QED  BY <1>2, <1>3

LEMMA FetchBlobRecords ==
    ASSUME SourcesInv, RecordsInv, NEW j \in Jobs, FetchBlob(j) PROVE Records(j)
<1> DEFINE w == work[j]
<1>1. Good(w) /\ Counted(w) /\ Tidy(w)
  BY DEF SourcesInv, RecordsInv
<1>2. w.pc = "fetching" /\ \E v : Become(j, v) /\ Fetches(v, w)
  BY <1>1, FetchBlobMakes
<1>3. PICK v : Become(j, v) /\ Fetches(v, w)
  BY <1>2
<1>4. /\ v.pc = "processing" /\ SameCounts(v, w) /\ v.request = w.request
      /\ v.items = w.items /\ v.next = w.next
  BY <1>3 DEF Fetches, SameJob, SameList
<1>5. w.next \in 1 .. Len(w.items) /\ w.items[w.next] \in File
  BY <1>1, <1>2, CurrentIs
<1>6. v.disk \in [Paths -> File \cup {None}] /\ v.stuck \subseteq Paths
  BY <1>1, <1>3, <1>5, WritesIsTyped DEF Fetches
<1>7. Tidy(v)
  BY <1>1, <1>2, <1>4, <1>5, <1>6, SameFilesKeeps
<1>8. Counted(v)
  BY <1>1, <1>4, SameCountsKeeps
<1> QED  BY <1>3, <1>7, <1>8 DEF Records

LEMMA ListRemoteRecords ==
    ASSUME SourcesInv, RecordsInv, NEW j \in Jobs, ListRemote(j) PROVE Records(j)
<1> DEFINE w == work[j]
<1>1. Shape(w) /\ Counted(w) /\ Tidy(w)
  BY DEF SourcesInv, Good, RecordsInv
<1>2. w.pc = "listingRemote" /\ \E v : Become(j, v) /\ ListsRemote(v, w)
  BY <1>1, ListRemoteMakes
<1>3. PICK v : Become(j, v) /\ ListsRemote(v, w)
  BY <1>2
<1>4. Offered(w.source) \subseteq RemoteFiles
  BY DEF Offered
<1>5. Tidy(v)
  BY <1>1, <1>2, <1>3, <1>4, SameFilesKeeps DEF Tidy, ListsRemote, SameJob, SameDisk
<1>6. Counted(v)
  BY <1>1, <1>3, SameCountsKeeps DEF ListsRemote
<1> QED  BY <1>3, <1>5, <1>6 DEF Records

\* One remote file more, on the list and on the disk.
LEMMA DownloadRecords ==
    ASSUME SourcesInv, RecordsInv, NEW j \in Jobs,
           NEW f \in RemoteFiles, NEW upload \in {"ok", "refused"}, Download(j, f, upload)
    PROVE  Records(j)
<1> DEFINE w == work[j]
<1>1. Good(w) /\ Counted(w) /\ Tidy(w)
  BY DEF SourcesInv, RecordsInv
<1>2. w.pc = "downloading" /\ \E v : Become(j, v) /\ Downloads(v, w, f)
  BY <1>1, DownloadMakes
<1>3. PICK v : Become(j, v) /\ Downloads(v, w, f)
  BY <1>2
<1>4. /\ v.pc = "downloading" /\ SameCounts(v, w) /\ v.request = w.request
      /\ v.items = Append(w.items, f) /\ v.next = 1
      /\ v.todo = w.todo \ {f} /\ v.source = w.source
  BY <1>1, <1>2, <1>3 DEF Downloads, SameJob, Good, DiskPart
<1>5. f \in File
  BY SourcesAssumption DEF File
<1>6. v.disk \in [Paths -> File \cup {None}] /\ v.stuck \subseteq Paths
  BY <1>1, <1>3, <1>5, WritesIsTyped DEF Downloads
<1>7. /\ IsList(v.items) /\ Range(v.items) = Range(w.items) \cup {f}
      /\ Len(v.items) = Len(w.items) + 1 /\ Len(w.items) \in Nat
  BY <1>1, <1>4, Appended DEF Tidy
<1>8. Tidy(v)
  BY <1>1, <1>2, <1>4, <1>5, <1>6, <1>7 DEF Tidy
<1>9. Counted(v)
  BY <1>1, <1>4, SameCountsKeeps
<1> QED  BY <1>3, <1>8, <1>9 DEF Records

LEMMA DownloadedRecords ==
    ASSUME SourcesInv, RecordsInv, NEW j \in Jobs, Downloaded(j) PROVE Records(j)
<1> DEFINE w == work[j]
<1>1. Good(w) /\ Shape(w) /\ Counted(w) /\ Tidy(w)
  BY DEF SourcesInv, Good, RecordsInv
<1>2. /\ w.pc = "downloading"
      /\ \/ End(j, w, "failed")
         \/ w.items # <<>> /\ \E v : Become(j, v) /\ StartsLoop(v, w)
  BY <1>1, DownloadedMakes
<1>3. CASE End(j, w, "failed")
  BY <1>2, <1>3, EndRecords
<1>4. ASSUME w.items # <<>>, NEW v, Become(j, v), StartsLoop(v, w) PROVE Records(j)
  <2>1. w.next = 1 /\ Len(w.items) >= 1
    BY <1>1, <1>2, <1>4 DEF Good, DiskPart, Tidy, IsList
  <2>2. Tidy(v)
    BY <1>1, <1>2, <1>4, <2>1, SameFilesKeeps DEF Tidy, StartsLoop, SameJob, SameList, SameDisk
  <2>3. Counted(v)
    BY <1>1, <1>4, SameCountsKeeps DEF StartsLoop
  <2> QED  BY <1>4, <2>2, <2>3 DEF Records
<1> QED  BY <1>2, <1>3, <1>4

LEMMA DecompressRecords ==
    ASSUME SourcesInv, RecordsInv, NEW j \in Jobs, Decompress(j) PROVE Records(j)
<1> DEFINE w == work[j]
           stem == Stem[Current(w)]
<1>1. Good(w) /\ Counted(w) /\ Tidy(w)
  BY DEF SourcesInv, RecordsInv
<1>2. /\ w.pc = "processing"
      /\ End(j, w, "failed") \/ \E v : Become(j, v) /\ Decompresses(v, w)
  BY <1>1, DecompressMakes
<1>3. CASE End(j, w, "failed")
  BY <1>2, <1>3, EndRecords
<1>4. ASSUME NEW v, Become(j, v), Decompresses(v, w) PROVE Records(j)
  <2>1. w.next \in 1 .. Len(w.items) /\ stem \in Paths /\ Current(w) \in Paths
    BY <1>1, <1>2, CurrentIs
  <2>2. /\ v.pc = "streaming" /\ SameCounts(v, w) /\ v.request = w.request
        /\ v.items = w.items /\ v.next = w.next /\ Writes(v, w, stem)
        /\ v.disk[stem] # None
        /\ v.disk[stem] = w.disk[stem] \/ v.disk[stem] = w.disk[Current(w)]
    BY <1>4, <2>1 DEF Decompresses, SameJob, SameList
  <2>3. v.disk[stem] \in File
    BY <1>1, <2>1, <2>2 DEF Tidy
  <2>4. v.disk \in [Paths -> File \cup {None}] /\ v.stuck \subseteq Paths
    BY <1>1, <2>2, <2>3, WritesIsTyped
  <2>5. Current(v) = Current(w)
    BY <2>2 DEF Current
  <2>6. Tidy(v)
    BY <1>1, <1>2, <2>1, <2>2, <2>4, <2>5, SameFilesKeeps
  <2>7. Counted(v)
    BY <1>1, <2>2, SameCountsKeeps
  <2> QED  BY <1>4, <2>6, <2>7 DEF Records
<1> QED  BY <1>2, <1>3, <1>4

\* One file is counted.
LEMMA ProcessFileRecords ==
    ASSUME SourcesInv, RecordsInv, NEW j \in Jobs, NEW kept, ProcessFile(j, kept)
    PROVE  Records(j)
<1> DEFINE w == work[j]
           ms == RowsOf(w)
           f == w.disk[Stem[Current(w)]]
<1>1. Good(w) /\ Counted(w) /\ Tidy(w)
  BY DEF SourcesInv, RecordsInv
<1>2. w.pc = "streaming" /\ \E v : Become(j, v) /\ Reads(v, w, ms)
  BY <1>1, ProcessFileMakes
<1>3. PICK v : Become(j, v) /\ Reads(v, w, ms)
  BY <1>2
<1>4. w.next \in 1 .. Len(w.items) /\ Stem[Current(w)] \in Paths
  BY <1>1, <1>2, CurrentIs
<1>5. Markets(ms)
  <2>1. f \in File
    BY <1>1, <1>2, <1>4 DEF Tidy
  <2>2. ms \subseteq Content[f.day, f.name]
    BY DEF RowsOf, MarketsWithRows
  <2>3. IsFiniteSet(Content[f.day, f.name]) /\ Content[f.day, f.name] \subseteq DOMAIN Feed
    BY <2>1, FilesAre, SourcesAssumption
  <2> HIDE DEF ms
  <2> QED  BY <2>2, <2>3, FS_Subset DEF Markets
<1> HIDE DEF ms, f
<1>6. /\ v.pc \in {"saving", "fetching", "processing"}
      /\ v.rows = Append(w.rows, ms) /\ v.progress = CountFile(w.progress, ms)
      /\ v.summary = w.summary /\ v.request = w.request /\ v.items = w.items
      /\ v.next = w.next + 1 /\ Without(v, w, TempFiles(Current(w)))
      /\ v.pc \in {"fetching", "processing"} => w.next # Len(w.items)
  BY <1>3 DEF Reads, SameList
<1>7. Counted(v)
  <2>1. RowsPart(v.rows) /\ CountsPart(v.progress, v.rows)
    BY <1>1, <1>5, <1>6, CountsAppended DEF Counted
  <2> QED  BY <1>1, <1>6, <2>1 DEF Counted
<1>8. Tidy(v)
  <2>1. v.disk \in [Paths -> File \cup {None}] /\ v.stuck \subseteq Paths
    BY <1>1, <1>6, WithoutIsTyped
  <2>2. Len(w.items) \in Nat /\ w.next \in Nat /\ w.next >= 1 /\ w.next <= Len(w.items)
    BY <1>1, <1>4 DEF Tidy, IsList
  <2>3. /\ w.next + 1 \in 1 .. Len(w.items) + 1
        /\ w.next # Len(w.items) => w.next + 1 <= Len(w.items)
    BY <2>2
  <2> QED  BY <1>1, <1>2, <1>6, <2>1, <2>3 DEF Tidy
<1> QED  BY <1>3, <1>7, <1>8 DEF Records

LEMMA SaveRecords ==
    ASSUME SourcesInv, RecordsInv, NEW j \in Jobs, Save(j) PROVE Records(j)
<1> DEFINE w == work[j]
           u == Totalled(w)
<1>1. Shape(w) /\ Counted(w) /\ Tidy(w)
  BY DEF SourcesInv, Good, RecordsInv
<1>2. /\ w.pc = "saving" /\ u.pc = "saving" /\ u.summary = Summarise(w.rows)
      /\ SameJob(u, w) /\ SameList(u, w) /\ SameDisk(u, w)
      /\ u.next = w.next /\ u.progress = w.progress
      /\ \E v : Become(j, v) /\ EndsAs(v, u, "succeeded")
  BY <1>1, SaveMakes
<1>3. PICK v : Become(j, v) /\ EndsAs(v, u, "succeeded")
  BY <1>2
<1> HIDE DEF u
<1>4. Summarise(w.rows) \in Counts
  BY <1>1, SummaryIsCounts DEF Counted
<1>5. Tidy(u)
  BY <1>1, <1>2, SameFilesKeeps DEF Tidy, SameJob, SameList, SameDisk
<1>6. Tidy(v)
  BY <1>2, <1>3, <1>5, EndIsTidy DEF Ended
<1>7. Counted(v)
  BY <1>1, <1>2, <1>3, <1>4 DEF Counted, EndsAs, SameCounts, SameJob
<1> QED  BY <1>3, <1>6, <1>7 DEF Records

\* The objects in the source buckets are those of the pipeline and of mirrors.
LEMMA BlobsStayTyped ==
    ASSUME SourcesInv, RecordsInv, NEW j \in Jobs,
           NEW f \in RemoteFiles, NEW upload \in {"ok", "refused"}, Download(j, f, upload)
    PROVE  blobs' \subseteq Blob
<1> DEFINE w == work[j]
<1>1. CASE w.source.at # None /\ upload = "ok"
  <2>1. w.source \in Source
    BY DEF Download, At, RecordsInv, Tidy
  <2>2. w.source.at \in Locations
    BY <1>1, <2>1 DEF Source
  <2>3. f.name \in Names
    BY SourcesAssumption DEF RemoteFile
  <2>4. MirrorBlob(w.source, f) \in Blob
    BY <2>2, <2>3 DEF MirrorBlob, Blob
  <2> QED  BY <1>1, <2>4 DEF Download, RecordsInv
<1>2. CASE ~(w.source.at # None /\ upload = "ok")
  BY <1>2 DEF Download, RecordsInv
<1> QED  BY <1>1, <1>2

LEMMA RecordsInit == Init => RecordsInv
<1> SUFFICES ASSUME Init PROVE RecordsInv
  OBVIOUS
<1>1. \A j \in Jobs : work[j] = NoWork
  BY DEF Init
<1>2. blobs \subseteq Blob
  BY SourcesAssumption DEF Init
<1> QED  BY <1>1, <1>2, NewRecords DEF RecordsInv

LEMMA RecordsKeeps ==
    ASSUME SourcesInv, RecordsInv, blobs' \subseteq Blob, NEW j \in Jobs, Records(j)
    PROVE  RecordsInv'
<1>1. CASE UNCHANGED work
  BY <1>1 DEF RecordsInv
<1>2. ASSUME NEW v, Become(j, v), Counted(v), Tidy(v) PROVE RecordsInv'
  <2>1. work'[j] = v /\ \A k \in Jobs \ {j} : work'[k] = work[k]
    BY <1>2 DEF Become, SourcesInv
  <2>2. ASSUME NEW k \in Jobs PROVE Counted(work'[k]) /\ Tidy(work'[k])
    BY <1>2, <2>1 DEF RecordsInv
  <2> QED  BY <2>2 DEF RecordsInv
<1> QED  BY <1>1, <1>2 DEF Records

LEMMA RecordsNext == SourcesInv /\ ListsInv /\ RecordsInv /\ [Next]_vars => RecordsInv'
<1> SUFFICES ASSUME SourcesInv, ListsInv, RecordsInv, [Next]_vars PROVE RecordsInv'
  OBVIOUS
<1>1. ListsInv'
  BY ListsNext
<1>2. ASSUME NEW j \in Jobs, Run(j) \/ \E r \in Requests : Submit(j, r) PROVE RecordsInv'
  <2>1. ASSUME NEW f \in RemoteFiles, NEW upload \in {"ok", "refused"}, Download(j, f, upload)
        PROVE  RecordsInv'
    BY <2>1, BlobsStayTyped, DownloadRecords, RecordsKeeps
  <2>2. CASE ~\E f \in RemoteFiles, upload \in {"ok", "refused"} : Download(j, f, upload)
    <3>1. blobs' \subseteq Blob
      <4>1. UNCHANGED blobs
        BY <1>2, <2>2 DEF Run, Submit, Plan, ListDay, FetchBlob, Credentials, ListRemote,
           Downloaded, Decompress, ProcessFile, Cancelled, Save, CallRaises
      <4> QED  BY <4>1 DEF RecordsInv
    <3>2. ASSUME Credentials(j) PROVE Records(j)
      BY <3>2 DEF Credentials, Records
    <3>3. ASSUME CallRaises(j) \/ Cancelled(j) PROVE Records(j)
      <4>1. /\ End(j, work[j], "failed") \/ End(j, work[j], "cancelled")
            /\ work[j].pc \notin {"idle", "lost"}
        BY <3>3 DEF CallRaises, Cancelled, Fail, At
      <4> QED  BY <4>1, EndRecords
    <3>4. ASSUME ~Credentials(j) /\ ~CallRaises(j) /\ ~Cancelled(j) PROVE Records(j)
      BY <1>1, <1>2, <2>2, <3>4, PlanRecords, ListDayRecords, FetchBlobRecords,
         ListRemoteRecords, DownloadedRecords, DecompressRecords, ProcessFileRecords,
         SaveRecords, SubmitRecords DEF Run
    <3>5. Records(j)
      BY <3>2, <3>3, <3>4
    <3> QED  BY <3>1, <3>5, RecordsKeeps
  <2> QED  BY <2>1, <2>2
<1>3. CASE Configure \/ RotateSecret \/ UNCHANGED vars
  BY <1>3 DEF Configure, RotateSecret, vars, RecordsInv
<1>4. CASE Deliver
  <2>1. work' = work /\ \E b \in Deliveries : blobs' = blobs \cup {b}
    BY <1>4 DEF Deliver
  <2>2. blobs' \subseteq Blob
    BY <2>1, SourcesAssumption DEF RecordsInv
  <2> QED  BY <2>1, <2>2 DEF RecordsInv
<1>5. CASE Restart
  <2>1. /\ blobs' = blobs
        /\ \A k \in Jobs : work'[k] = work[k] \/ work'[k] = [NoWork EXCEPT !.pc = "lost"]
    BY <1>5 DEF Restart
  <2>2. ASSUME NEW k \in Jobs PROVE Counted(work'[k]) /\ Tidy(work'[k])
    BY <2>1, NewRecords DEF RecordsInv
  <2> QED  BY <2>1, <2>2 DEF RecordsInv
<1> QED  BY <1>2, <1>3, <1>4, <1>5 DEF Next

LEMMA RecordsSafety == Spec => [](SourcesInv /\ RecordsInv)
<1>1. Init => SourcesInv /\ ListsInv /\ RecordsInv
  BY SourcesInit, ListsInit, RecordsInit
<1>2. SourcesInv /\ ListsInv /\ RecordsInv /\ [Next]_vars
        => (SourcesInv /\ ListsInv /\ RecordsInv)'
  BY SourcesNext, ListsNext, RecordsNext
<1> QED  BY <1>1, <1>2, PTL DEF Spec

\* What a job showed while it ran and what its result says differ by the void
\* bets, and in the markets exactly if two files have rows in one market,
\* whatever the files hold.
THEOREM CountersEndUpRight == Spec => []CountersAgree
<1>1. RecordsInv => CountersAgree
  <2> SUFFICES ASSUME RecordsInv, NEW j \in Jobs, work[j].pc = "succeeded"
               PROVE  LET w == work[j]
                          twice == \E i, k \in DOMAIN w.rows :
                                      i # k /\ w.rows[i] \cap w.rows[k] # {}
                      IN  /\ w.summary.bets = w.progress.bets + w.summary.voids
                          /\ w.summary.markets <= w.progress.markets
                          /\ w.summary.markets = w.progress.markets <=> ~twice
    BY DEF CountersAgree
  <2>1. CountsPart(work[j].progress, work[j].rows) /\ work[j].summary = Summarise(work[j].rows)
    BY DEF RecordsInv, Counted
  <2> QED  BY <2>1 DEF CountsPart, Overlap
<1> QED  BY <1>1, RecordsSafety, PTL

-----------------------------------------------------------------------------
(* Whose bytes are on the disk, and whose were read.                       *)

\* Neither the file n nor its copy ever failed to be removed.
Clean(w, n) == n \notin w.stuck /\ Stem[n] \notin w.stuck

\* The files of the list with a name.
Called(w, n) == {f \in Range(w.items) : f.name = n}

\* Over a bucket: the file that the loop is at is the only one there.
GcsBytes(w) ==
    /\ \A i \in 1 .. w.next - 1 : Clean(w, w.items[i].name) => w.read[i] = w.items[i]
    /\ w.pc = "processing" => w.disk[Current(w)] = w.items[w.next]
    /\ w.pc = "streaming" /\ Clean(w, Current(w))
         => w.disk[Stem[Current(w)]] = w.items[w.next]

\* After a download: at a path are bytes of some file with that name.  Of the
\* files behind the loop nothing is left, and no two had one name: when the
\* second was read the first would have removed it.
RemoteBytes(w) ==
    /\ \A n \in Names : Clean(w, n) /\ w.disk[n] # None => w.disk[n] \in Called(w, n)
    /\ w.pc = "streaming" /\ Clean(w, Current(w))
         => w.disk[Stem[Current(w)]] \in Called(w, Current(w))
    /\ \A i \in 1 .. w.next - 1 : Clean(w, w.items[i].name) =>
         /\ w.read[i] \in Called(w, w.items[i].name)
         /\ w.items[i].name \notin OnDisk(w) /\ Stem[w.items[i].name] \notin OnDisk(w)
    /\ \A i, k \in 1 .. w.next - 1 :
         Clean(w, w.items[i].name) /\ w.items[i].name = w.items[k].name => i = k

BytesPart(w) ==
    /\ w.source.kind = "gcs"
       /\ w.pc \in {"fetching", "processing", "streaming", "saving", "succeeded"}
         => GcsBytes(w)
    /\ w.source.kind # "gcs"
       /\ w.pc \in {"downloading", "processing", "streaming", "saving", "succeeded"}
         => RemoteBytes(w)

BytesInv == \A j \in Jobs : BytesPart(work[j])

\* What a step of job j makes of its bytes.
Bytes(j) == UNCHANGED work \/ \E v : Become(j, v) /\ BytesPart(v)

LEMMA NoBytes ==
    ASSUME NEW v, v.pc \notin {"fetching", "downloading", "processing", "streaming", "saving",
                               "succeeded"}
    PROVE  BytesPart(v)
BY DEF BytesPart

\* Less on the disk, and more of it that could not be removed.
LEMMA FewerBytes ==
    ASSUME NEW w, BytesPart(w), w.pc = "saving", NEW v, v.pc = "succeeded",
           v.items = w.items, v.source = w.source, v.next = w.next, v.read = w.read,
           NEW paths, Without(v, w, paths)
    PROVE  BytesPart(v)
<1>1. \A n : Clean(v, n) => Clean(w, n)
  BY DEF Clean, Without
<1>2. \A n : Called(v, n) = Called(w, n)
  BY DEF Called
<1>3. ASSUME w.source.kind = "gcs" PROVE GcsBytes(v)
  <2>1. GcsBytes(w)
    BY <1>3 DEF BytesPart
  <2> QED  BY <1>1, <2>1 DEF GcsBytes
<1>4. ASSUME w.source.kind # "gcs" PROVE RemoteBytes(v)
  <2>1. RemoteBytes(w)
    BY <1>4 DEF BytesPart
  <2>2. \A n \in Names : v.disk[n] # None => v.disk[n] = w.disk[n]
    BY DEF Without, OnDisk, Paths
  <2>3. OnDisk(v) \subseteq OnDisk(w)
    BY DEF Without
  <2> QED  BY <1>1, <1>2, <2>1, <2>2, <2>3 DEF RemoteBytes
<1> QED  BY <1>3, <1>4 DEF BytesPart

LEMMA EndBytes ==
    ASSUME SourcesInv, NEW j \in Jobs, NEW place \in {"failed", "cancelled"},
           End(j, work[j], place)
    PROVE  Bytes(j)
<1>1. PICK v : Become(j, v) /\ EndsAs(v, work[j], place)
  BY EndMakes DEF SourcesInv, Good, Ended
<1>2. BytesPart(v)
  BY <1>1, NoBytes DEF EndsAs
<1> QED  BY <1>1, <1>2 DEF Bytes

LEMMA PlanBytes ==
    ASSUME SourcesInv, NEW j \in Jobs, Plan(j) PROVE Bytes(j)
<1> DEFINE w == work[j]
           s == ResolveSource(w.request)
<1>1. w.pc = "queued" /\ Shape(w)
  BY DEF Plan, At, SourcesInv, Good
<1>2. CASE ~Resolvable(w.request)
  <2>1. End(j, w, "failed")
    BY <1>2 DEF Plan, Fail
  <2> QED  BY <2>1, EndBytes
<1>3. CASE Resolvable(w.request) /\ s.kind = "gcs"
  <2> DEFINE v == [[w EXCEPT !.source = s] EXCEPT !.pc = "listing", !.todo = s.range,
                                                  !.atStart = blobs]
  <2>1. Become(j, v)
    BY <1>3 DEF Plan
  <2>2. v.pc = "listing"
    BY <1>1 DEF Shape
  <2> HIDE DEF v
  <2> QED  BY <2>1, <2>2, NoBytes DEF Bytes
<1>4. CASE Resolvable(w.request) /\ s.kind # "gcs"
  <2> DEFINE v == [[w EXCEPT !.source = s] EXCEPT !.pc = "listingRemote"]
  <2>1. Become(j, v)
    BY <1>4 DEF Plan
  <2>2. v.pc = "listingRemote"
    BY <1>1 DEF Shape
  <2> HIDE DEF v
  <2> QED  BY <2>1, <2>2, NoBytes DEF Bytes
<1> QED  BY <1>2, <1>3, <1>4

\* The loop starts: no file is behind it yet.
LEMMA ListDayBytes ==
    ASSUME SourcesInv, NEW j \in Jobs, ListDay(j) PROVE Bytes(j)
<1> DEFINE w == work[j]
           d == Min(w.todo)
           found == w.items \o SetToSeq(DayListing(w.source, d))
<1>1. w.pc = "listing" /\ Shape(w) /\ w.next = 1 /\ w.source.kind = "gcs"
  BY DEF ListDay, At, SourcesInv, Good, DiskPart
<1> HIDE DEF found, d
<1>2. CASE w.todo = {d} /\ found = <<>>
  <2>1. End(j, w, "failed")
    BY <1>2 DEF ListDay, found, d, Fail
  <2> QED  BY <2>1, EndBytes
<1>3. CASE ~(w.todo = {d} /\ found = <<>>)
  <2> DEFINE place == IF w.todo = {d} THEN "fetching" ELSE w.pc
             v == [w EXCEPT !.todo = @ \ {d}, !.items = found, !.pc = place]
  <2>1. Become(j, v)
    BY <1>3 DEF ListDay, found, d
  <2>2. place \in {"listing", "fetching"}
    BY <1>1
  <2> HIDE DEF place
  <2>3. v.pc = place /\ v.source = w.source /\ v.next = 1
    BY <1>1 DEF Shape
  <2> HIDE DEF v
  <2>4. GcsBytes(v)
    BY <2>2, <2>3 DEF GcsBytes
  <2>5. BytesPart(v)
    BY <1>1, <2>2, <2>3, <2>4 DEF BytesPart
  <2> QED  BY <2>1, <2>5 DEF Bytes
<1> QED  BY <1>2, <1>3

LEMMA FetchBlobBytes ==
    ASSUME SourcesInv, RecordsInv, BytesInv, NEW j \in Jobs, FetchBlob(j) PROVE Bytes(j)
<1> DEFINE w == work[j]
<1>1. w.pc = "fetching" /\ \E v : Become(j, v) /\ Fetches(v, w)
  BY FetchBlobMakes DEF SourcesInv
<1>2. PICK v : Become(j, v) /\ Fetches(v, w)
  BY <1>1
<1>3. w.source.kind = "gcs" /\ GcsBytes(w)
  BY <1>1 DEF SourcesInv, Good, DiskPart, BytesInv, BytesPart
<1>4. Current(w) \in Paths
  BY <1>1, CurrentIs DEF RecordsInv
<1>5. /\ v.pc = "processing" /\ v.items = w.items /\ v.next = w.next /\ v.source = w.source
      /\ v.read = w.read /\ v.stuck = w.stuck /\ v.disk[Current(w)] = w.items[w.next]
  BY <1>2, <1>4 DEF Fetches, SameJob, SameList, Writes
<1>6. GcsBytes(v)
  BY <1>3, <1>5 DEF GcsBytes, Clean, Current
<1> QED  BY <1>2, <1>3, <1>5, <1>6 DEF Bytes, BytesPart

LEMMA ListRemoteBytes ==
    ASSUME SourcesInv, NEW j \in Jobs, ListRemote(j) PROVE Bytes(j)
<1> DEFINE w == work[j]
<1>1. w.pc = "listingRemote" /\ \E v : Become(j, v) /\ ListsRemote(v, w)
  BY ListRemoteMakes DEF SourcesInv, Good
<1>2. PICK v : Become(j, v) /\ ListsRemote(v, w)
  BY <1>1
<1>3. OnDisk(w) \subseteq w.stuck /\ w.next = 1 /\ w.source.kind # "gcs"
  BY <1>1 DEF SourcesInv, Good, DiskPart
<1>4. /\ v.pc = "downloading" /\ v.next = 1 /\ v.source = w.source
      /\ v.disk = w.disk /\ v.stuck = w.stuck
  BY <1>2, <1>3 DEF ListsRemote, SameJob, SameDisk
<1>5. \A n \in Names : Clean(v, n) => v.disk[n] = None
  BY <1>3, <1>4 DEF Clean, OnDisk, Paths
<1>6. RemoteBytes(v)
  BY <1>4, <1>5 DEF RemoteBytes
<1> QED  BY <1>2, <1>3, <1>4, <1>6 DEF Bytes, BytesPart

LEMMA DownloadBytes ==
    ASSUME SourcesInv, RecordsInv, BytesInv, NEW j \in Jobs,
           NEW f \in RemoteFiles, NEW upload \in {"ok", "refused"}, Download(j, f, upload)
    PROVE  Bytes(j)
<1> DEFINE w == work[j]
<1>1. Good(w) /\ Tidy(w)
  BY DEF SourcesInv, RecordsInv
<1>2. w.pc = "downloading" /\ \E v : Become(j, v) /\ Downloads(v, w, f)
  BY <1>1, DownloadMakes
<1>3. PICK v : Become(j, v) /\ Downloads(v, w, f)
  BY <1>2
<1>4. w.next = 1 /\ w.source.kind # "gcs" /\ RemoteBytes(w)
  BY <1>1, <1>2 DEF Good, DiskPart, BytesInv, BytesPart
<1>5. f \in File /\ f.name \in Paths
  BY SourcesAssumption, FilesAre DEF File
<1>6. /\ v.pc = "downloading" /\ v.next = 1 /\ v.source = w.source /\ v.stuck = w.stuck
      /\ v.items = Append(w.items, f) /\ v.disk[f.name] = f
      /\ \A p \in Paths : p # f.name => v.disk[p] = w.disk[p]
  BY <1>3, <1>4, <1>5 DEF Downloads, SameJob, Writes
<1>7. Range(v.items) = Range(w.items) \cup {f}
  BY <1>1, <1>6, Appended DEF Tidy
<1>8. ASSUME NEW n \in Names, Clean(v, n), v.disk[n] # None PROVE v.disk[n] \in Called(v, n)
  <2>1. CASE n = f.name
    BY <1>6, <1>7, <2>1 DEF Called
  <2>2. CASE n # f.name
    <3>1. v.disk[n] = w.disk[n] /\ Clean(w, n)
      BY <1>6, <1>8, <2>2 DEF Paths, Clean
    <3>2. w.disk[n] \in Called(w, n)
      BY <1>4, <1>8, <3>1 DEF RemoteBytes
    <3> QED  BY <1>7, <3>1, <3>2 DEF Called
  <2> QED  BY <2>1, <2>2
<1>9. RemoteBytes(v)
  BY <1>6, <1>8 DEF RemoteBytes
<1> QED  BY <1>3, <1>4, <1>6, <1>9 DEF Bytes, BytesPart

LEMMA DownloadedBytes ==
    ASSUME SourcesInv, BytesInv, NEW j \in Jobs, Downloaded(j) PROVE Bytes(j)
<1> DEFINE w == work[j]
<1>1. /\ w.pc = "downloading"
      /\ End(j, w, "failed") \/ \E v : Become(j, v) /\ StartsLoop(v, w)
  BY DownloadedMakes DEF SourcesInv, Good
<1>2. ASSUME NEW v, Become(j, v), StartsLoop(v, w) PROVE Bytes(j)
  <2>1. w.source.kind # "gcs" /\ w.next = 1 /\ RemoteBytes(w)
    BY <1>1 DEF SourcesInv, Good, DiskPart, BytesInv, BytesPart
  <2>2. /\ v.pc = "processing" /\ v.items = w.items /\ v.next = 1 /\ v.source = w.source
        /\ v.disk = w.disk /\ v.stuck = w.stuck
    BY <1>2, <2>1 DEF StartsLoop, SameList, SameDisk
  <2>3. RemoteBytes(v)
    BY <2>1, <2>2 DEF RemoteBytes, Clean, Called
  <2> QED  BY <1>2, <2>1, <2>2, <2>3 DEF Bytes, BytesPart
<1> QED  BY <1>1, <1>2, EndBytes

\* Only the file itself is what it is decompressed to, or nothing with a name
\* that a file can have.
LEMMA StemsAre ==
    ASSUME NEW m \in Names, NEW n \in Names
    PROVE  /\ Stem[m] \in Names => Stem[m] = m
           /\ Stem[m] = n => m = n
           /\ Stem[m] = Stem[n] => m = n
BY SourcesAssumption DEF Bz2

LEMMA DecompressBytes ==
    ASSUME SourcesInv, RecordsInv, BytesInv, NEW j \in Jobs, Decompress(j) PROVE Bytes(j)
<1> DEFINE w == work[j]
           name == Current(w)
           stem == Stem[name]
<1>1. Good(w) /\ Tidy(w) /\ BytesPart(w)
  BY DEF SourcesInv, RecordsInv, BytesInv
<1>2. /\ w.pc = "processing"
      /\ End(j, w, "failed") \/ \E v : Become(j, v) /\ Decompresses(v, w)
  BY <1>1, DecompressMakes
<1>3. name \in Names /\ name \in Paths /\ stem \in Paths
  BY <1>1, <1>2, CurrentIs
<1>4. ASSUME NEW v, Become(j, v), Decompresses(v, w) PROVE Bytes(j)
  <2> HIDE DEF name, stem
  <2> DEFINE there == IF w.disk[stem] = None THEN w.disk[name] ELSE w.disk[stem]
  <2>1. /\ there # None /\ v.pc = "streaming" /\ v.items = w.items /\ v.next = w.next
        /\ v.source = w.source /\ v.read = w.read /\ v.stuck = w.stuck
        /\ v.disk[stem] = there /\ \A p \in Paths : p # stem => v.disk[p] = w.disk[p]
        /\ OnDisk(v) \subseteq OnDisk(w) \cup {stem}
    BY <1>3, <1>4 DEF Decompresses, SameJob, SameList, Writes, name, stem
  <2>2. Current(v) = name /\ \A n : Called(v, n) = Called(w, n) /\ (Clean(v, n) <=> Clean(w, n))
    BY <2>1 DEF Current, Called, Clean, name
  <2>3. ASSUME Clean(w, name), w.disk[stem] # None, NEW S, name \in S, S \subseteq Names,
               OnDisk(w) \ w.stuck \subseteq S
        PROVE  stem = name
    <3>1. stem \in OnDisk(w) /\ stem \notin w.stuck
      BY <1>3, <2>3 DEF OnDisk, Clean, stem
    <3>2. stem \in Names
      BY <2>3, <3>1
    <3> QED  BY <1>3, <3>2, StemsAre DEF stem
  <2>4. CASE w.source.kind = "gcs"
    <3>1. GcsBytes(w) /\ OnDisk(w) \ w.stuck \subseteq {name}
      BY <1>1, <1>2, <2>4 DEF BytesPart, Good, DiskPart, Copied, name
    <3>2. w.disk[name] = w.items[w.next]
      BY <1>2, <3>1 DEF GcsBytes, name
    <3>3. Clean(w, name) => v.disk[stem] = w.items[w.next]
      BY <1>3, <2>1, <2>3, <3>1, <3>2
    <3>4. GcsBytes(v)
      BY <2>1, <2>2, <3>1, <3>3 DEF GcsBytes, stem
    <3> QED  BY <1>4, <2>1, <2>4, <3>4 DEF Bytes, BytesPart
  <2>5. CASE w.source.kind # "gcs"
    <3>1. RemoteBytes(w) /\ OnDisk(w) \ w.stuck \subseteq Ahead(w)
      BY <1>1, <1>2, <2>5 DEF BytesPart, Good, DiskPart, Copied
    <3>2. name \in Ahead(w) /\ Ahead(w) \subseteq Names
      <4>1. w.next \in 1 .. Len(w.items) /\ Len(w.items) \in Nat /\ w.next \in Nat
        BY <1>1, <1>2, CurrentIs DEF Tidy, IsList
      <4>2. \A i \in 1 .. Len(w.items) : w.items[i].name \in Names
        BY <1>1, FileAt, FilesAre
      <4> QED  BY <4>1, <4>2 DEF Ahead, Current, name
    <3>3. Clean(w, name) => there \in Called(w, name)
      <4> SUFFICES ASSUME Clean(w, name) PROVE there \in Called(w, name)
        OBVIOUS
      <4>1. CASE w.disk[stem] = None
        BY <1>3, <2>1, <3>1, <4>1 DEF RemoteBytes
      <4>2. CASE w.disk[stem] # None
        <5>1. stem = name
          BY <2>3, <3>1, <3>2, <4>2
        <5> QED  BY <1>3, <3>1, <4>2, <5>1 DEF RemoteBytes
      <4> QED  BY <4>1, <4>2
    <3>4. ASSUME NEW n \in Names, Clean(v, n), v.disk[n] # None
          PROVE  v.disk[n] \in Called(v, n)
      <4>1. CASE n = stem
        <5>1. n = name
          BY <1>3, <4>1, StemsAre DEF stem
        <5> QED  BY <2>1, <2>2, <3>3, <3>4, <4>1, <5>1
      <4>2. CASE n # stem
        BY <2>1, <2>2, <3>1, <3>4, <4>2 DEF RemoteBytes, Paths
      <4> QED  BY <4>1, <4>2
    <3>5. ASSUME NEW i \in 1 .. v.next - 1, Clean(v, v.items[i].name)
          PROVE  /\ v.read[i] \in Called(v, v.items[i].name)
                 /\ v.items[i].name \notin OnDisk(v) /\ Stem[v.items[i].name] \notin OnDisk(v)
      <4> DEFINE n == w.items[i].name
      <4>1. /\ i \in 1 .. w.next - 1 /\ Clean(w, n) /\ v.items[i].name = n
        BY <2>1, <2>2, <3>5
      <4>2. /\ w.read[i] \in Called(w, n) /\ n \notin OnDisk(w) /\ Stem[n] \notin OnDisk(w)
        BY <3>1, <4>1 DEF RemoteBytes
      <4>3. i \in 1 .. Len(w.items)
        <5>1. w.next \in 1 .. Len(w.items) /\ Len(w.items) \in Nat
          BY <1>1, <1>2, CurrentIs DEF Tidy, IsList
        <5> QED  BY <4>1, <5>1
      <4>4. n \in Names
        BY <1>1, <4>3, FileAt, FilesAre
      <4> HIDE DEF n
      <4>5. n # name
        <5> SUFFICES ASSUME n = name PROVE FALSE
          OBVIOUS
        <5>1. w.disk[name] = None /\ w.disk[stem] = None
          BY <1>3, <4>2 DEF OnDisk, stem
        <5> QED  BY <2>1, <5>1
      <4>6. stem # n /\ stem # Stem[n]
        BY <1>3, <4>4, <4>5, StemsAre DEF stem
      <4> QED  BY <2>1, <2>2, <4>1, <4>2, <4>6
    <3>6. \A i, k \in 1 .. v.next - 1 :
             Clean(v, v.items[i].name) /\ v.items[i].name = v.items[k].name => i = k
      BY <2>1, <2>2, <3>1 DEF RemoteBytes
    <3>7. Clean(v, Current(v)) => v.disk[Stem[Current(v)]] \in Called(v, Current(v))
      BY <2>1, <2>2, <3>3 DEF stem
    <3>8. RemoteBytes(v)
      BY <3>4, <3>5, <3>6, <3>7 DEF RemoteBytes
    <3> QED  BY <1>4, <2>1, <2>5, <3>8 DEF Bytes, BytesPart
  <2> QED  BY <2>4, <2>5
<1> QED  BY <1>2, <1>4, EndBytes

LEMMA ProcessFileBytes ==
    ASSUME SourcesInv, RecordsInv, BytesInv, NEW j \in Jobs, NEW kept, ProcessFile(j, kept)
    PROVE  Bytes(j)
<1> DEFINE w == work[j]
           name == Current(w)
           stem == Stem[name]
           f == w.disk[stem]
           at == w.next
<1>1. Good(w) /\ Tidy(w) /\ BytesPart(w)
  BY DEF SourcesInv, RecordsInv, BytesInv
<1>2. w.pc = "streaming" /\ \E v : Become(j, v) /\ Reads(v, w, RowsOf(w))
  BY <1>1, ProcessFileMakes
<1>3. PICK v : Become(j, v) /\ Reads(v, w, RowsOf(w))
  BY <1>2
<1>4. name \in Paths /\ stem \in Paths /\ at \in 1 .. Len(w.items) /\ f # None
  BY <1>1, <1>2, CurrentIs DEF Tidy
<1>5. /\ v.pc \in {"saving", "fetching", "processing"} /\ v.items = w.items
      /\ v.source = w.source /\ v.next = at + 1 /\ v.read = Append(w.read, f)
      /\ v.pc = "fetching" => w.source.kind = "gcs"
      /\ v.pc = "processing" => w.source.kind # "gcs"
      /\ Without(v, w, {stem, name})
  BY <1>3 DEF Reads, SameList, TempFiles
<1>6. at \in Nat /\ \A i \in 1 .. v.next - 1 : i = at \/ i \in 1 .. at - 1
  <2>1. at \in Nat
    BY <1>1 DEF Good, Shape
  <2> QED  BY <1>5, <2>1
<1>7. v.read[at] = f /\ \A i \in 1 .. at - 1 : v.read[i] = w.read[i]
  <2>1. IsList(w.read) /\ Len(w.read) = at - 1
    BY DEF Good, ReadPart, SourcesInv
  <2> QED  BY <1>5, <1>6, <2>1, Appended
<1>8. \A n : Clean(v, n) => Clean(w, n)
  BY <1>5 DEF Clean, Without
<1>9. \A n : Called(v, n) = Called(w, n)
  BY <1>5 DEF Called
<1>10. Clean(v, name) => name \notin OnDisk(v) /\ stem \notin OnDisk(v)
  BY <1>5 DEF Clean, Without
<1>11. w.items[at].name = name
  BY DEF Current
<1> HIDE DEF name, stem, f, at
<1>12. CASE w.source.kind = "gcs"
  <2>1. /\ \A i \in 1 .. at - 1 : Clean(w, w.items[i].name) => w.read[i] = w.items[i]
        /\ Clean(w, name) => f = w.items[at]
    BY <1>1, <1>2, <1>12 DEF BytesPart, GcsBytes, name, stem, f, at
  <2>2. \A i \in 1 .. v.next - 1 : Clean(v, v.items[i].name) => v.read[i] = v.items[i]
    BY <1>5, <1>6, <1>7, <1>8, <1>11, <2>1
  <2>3. GcsBytes(v)
    BY <1>5, <1>12, <2>2 DEF GcsBytes
  <2> QED  BY <1>3, <1>5, <1>12, <2>3 DEF Bytes, BytesPart
<1>13. CASE w.source.kind # "gcs"
  <2>1. RemoteBytes(w) /\ (Clean(w, name) => f \in Called(w, name))
    BY <1>1, <1>2, <1>13 DEF BytesPart, RemoteBytes, name, stem, f
  <2>2. ASSUME NEW n \in Names, Clean(v, n), v.disk[n] # None PROVE v.disk[n] \in Called(v, n)
    <3>1. n \in OnDisk(v)
      BY <2>2 DEF OnDisk, Paths
    <3>2. v.disk[n] = w.disk[n]
      BY <1>5, <3>1 DEF Without
    <3> QED  BY <1>8, <1>9, <2>1, <2>2, <3>2 DEF RemoteBytes
  <2>3. ASSUME NEW i \in 1 .. at - 1, Clean(w, w.items[i].name)
        PROVE  /\ w.read[i] \in Called(w, w.items[i].name)
               /\ w.items[i].name \notin OnDisk(w) /\ Stem[w.items[i].name] \notin OnDisk(w)
    BY <2>1, <2>3 DEF RemoteBytes, at
  <2>4. OnDisk(v) \subseteq OnDisk(w)
    BY <1>5 DEF Without
  <2>5. ASSUME NEW i \in 1 .. v.next - 1, Clean(v, v.items[i].name)
        PROVE  /\ v.read[i] \in Called(v, v.items[i].name)
               /\ v.items[i].name \notin OnDisk(v) /\ Stem[v.items[i].name] \notin OnDisk(v)
    <3>1. CASE i = at
      <4>1. v.items[i].name = name /\ v.read[i] = f /\ Clean(w, name)
        BY <1>5, <1>7, <1>8, <1>11, <2>5, <3>1
      <4>2. f \in Called(v, name)
        BY <1>9, <2>1, <4>1 DEF stem
      <4> QED  BY <1>10, <2>5, <4>1, <4>2 DEF stem
    <3>2. CASE i \in 1 .. at - 1
      <4>1. v.items[i] = w.items[i] /\ v.read[i] = w.read[i] /\ Clean(w, w.items[i].name)
        BY <1>5, <1>7, <1>8, <2>5, <3>2
      <4>2. /\ w.read[i] \in Called(w, w.items[i].name)
            /\ w.items[i].name \notin OnDisk(w) /\ Stem[w.items[i].name] \notin OnDisk(w)
        BY <2>3, <3>2, <4>1
      <4> QED  BY <1>9, <2>4, <4>1, <4>2
    <3> QED  BY <1>6, <3>1, <3>2
  <2>6. ASSUME NEW i \in 1 .. at - 1, Clean(w, w.items[i].name) PROVE w.items[i].name # name
    <3>1. stem \in OnDisk(w)
      BY <1>4 DEF OnDisk, f
    <3> QED  BY <2>3, <2>6, <3>1 DEF stem
  <2>7. \A i, k \in 1 .. at - 1 :
           Clean(w, w.items[i].name) /\ w.items[i].name = w.items[k].name => i = k
    BY <2>1 DEF RemoteBytes, at
  <2>8. ASSUME NEW i \in 1 .. v.next - 1, NEW k \in 1 .. v.next - 1,
               Clean(v, v.items[i].name), v.items[i].name = v.items[k].name
        PROVE  i = k
    <3>1. Clean(w, w.items[i].name) /\ w.items[i].name = w.items[k].name
      BY <1>5, <1>8, <2>8
    <3> QED  BY <1>6, <1>11, <2>6, <2>7, <2>8, <3>1
  <2>9. RemoteBytes(v)
    BY <1>5, <2>2, <2>5, <2>8 DEF RemoteBytes
  <2> QED  BY <1>3, <1>5, <1>13, <2>9 DEF Bytes, BytesPart
<1> QED  BY <1>12, <1>13

LEMMA SaveBytes ==
    ASSUME SourcesInv, BytesInv, NEW j \in Jobs, Save(j) PROVE Bytes(j)
<1> DEFINE w == work[j]
           u == Totalled(w)
<1>1. /\ w.pc = "saving" /\ u.pc = "saving" /\ SameJob(u, w) /\ SameList(u, w) /\ SameDisk(u, w)
      /\ u.next = w.next /\ \E v : Become(j, v) /\ EndsAs(v, u, "succeeded")
  BY SaveMakes DEF SourcesInv, Good
<1>2. PICK v : Become(j, v) /\ EndsAs(v, u, "succeeded")
  BY <1>1
<1> HIDE DEF u
<1>3. Without(v, w, Paths)
  BY <1>1, <1>2, SameOnDisk DEF EndsAs, Without, SameDisk
<1>4. BytesPart(v)
  BY <1>1, <1>2, <1>3, FewerBytes DEF EndsAs, SameJob, SameList, BytesInv
<1> QED  BY <1>2, <1>4 DEF Bytes

LEMMA JobBytes ==
    ASSUME SourcesInv, RecordsInv, BytesInv, NEW j \in Jobs,
           Run(j) \/ \E r \in Requests : Submit(j, r)
    PROVE  Bytes(j)
<1>1. ASSUME NEW r \in Requests, Submit(j, r) PROVE Bytes(j)
  BY <1>1, SubmitMakes, NoBytes DEF Bytes, Fresh
<1>2. CASE Credentials(j)
  BY <1>2 DEF Credentials, Bytes
<1>3. CASE CallRaises(j) \/ Cancelled(j)
  BY <1>3, EndBytes DEF CallRaises, Cancelled, Fail
<1>4. CASE \/ Plan(j) \/ ListDay(j) \/ FetchBlob(j) \/ ListRemote(j)
           \/ Downloaded(j) \/ Decompress(j) \/ Save(j)
  BY <1>4, PlanBytes, ListDayBytes, FetchBlobBytes, ListRemoteBytes, DownloadedBytes,
     DecompressBytes, SaveBytes
<1>5. CASE \E f \in RemoteFiles, upload \in {"ok", "refused"} : Download(j, f, upload)
  BY <1>5, DownloadBytes
<1>6. CASE \E kept \in SUBSET Paths : ProcessFile(j, kept)
  BY <1>6, ProcessFileBytes
<1> QED  BY <1>1, <1>2, <1>3, <1>4, <1>5, <1>6 DEF Run

LEMMA BytesInit == Init => BytesInv
<1> SUFFICES ASSUME Init PROVE BytesInv
  OBVIOUS
<1>1. \A j \in Jobs : work[j].pc = "idle"
  BY DEF Init, NoWork
<1> QED  BY <1>1, NoBytes DEF BytesInv

LEMMA BytesNext == SourcesInv /\ RecordsInv /\ BytesInv /\ [Next]_vars => BytesInv'
<1> SUFFICES ASSUME SourcesInv, RecordsInv, BytesInv, [Next]_vars PROVE BytesInv'
  OBVIOUS
<1>1. ASSUME NEW j \in Jobs, Bytes(j) PROVE BytesInv'
  <2>1. CASE UNCHANGED work
    BY <2>1 DEF BytesInv
  <2>2. ASSUME NEW v, Become(j, v), BytesPart(v) PROVE BytesInv'
    <3>1. work'[j] = v /\ \A k \in Jobs \ {j} : work'[k] = work[k]
      BY <2>2 DEF Become, SourcesInv
    <3>2. ASSUME NEW k \in Jobs PROVE BytesPart(work'[k])
      BY <2>2, <3>1 DEF BytesInv
    <3> QED  BY <3>2 DEF BytesInv
  <2> QED  BY <1>1, <2>1, <2>2 DEF Bytes
<1>2. ASSUME NEW j \in Jobs, Run(j) \/ \E r \in Requests : Submit(j, r) PROVE BytesInv'
  BY <1>1, <1>2, JobBytes
<1>3. CASE Configure \/ RotateSecret \/ Deliver \/ UNCHANGED vars
  BY <1>3 DEF Configure, RotateSecret, Deliver, vars, BytesInv
<1>4. CASE Restart
  <2>1. \A k \in Jobs : work'[k] = work[k] \/ work'[k] = [NoWork EXCEPT !.pc = "lost"]
    BY <1>4 DEF Restart
  <2>2. [NoWork EXCEPT !.pc = "lost"].pc = "lost"
    BY DEF NoWork
  <2>3. ASSUME NEW k \in Jobs PROVE BytesPart(work'[k])
    BY <2>1, <2>2, NoBytes DEF BytesInv
  <2> QED  BY <2>3 DEF BytesInv
<1> QED  BY <1>2, <1>3, <1>4 DEF Next

LEMMA BytesSafety == Spec => [](SourcesInv /\ RecordsInv /\ BytesInv)
<1>1. Init => SourcesInv /\ ListsInv /\ RecordsInv /\ BytesInv
  BY SourcesInit, ListsInit, RecordsInit, BytesInit
<1>2. SourcesInv /\ ListsInv /\ RecordsInv /\ BytesInv /\ [Next]_vars
        => (SourcesInv /\ ListsInv /\ RecordsInv /\ BytesInv)'
  BY SourcesNext, ListsNext, RecordsNext, BytesNext
<1> QED  BY <1>1, <1>2, PTL DEF Spec

\* A job that succeeds has read each file of its list, of Betfair's files all
\* it asked for.  What it read for a file are the bytes of that very file,
\* also where the base names of two of them are the same, unless a file of
\* that name, or its decompressed copy, could not be removed.
THEOREM EverythingIsRead == Spec => []SuccessReadEverything
<1>1. SourcesInv /\ RecordsInv /\ BytesInv => SuccessReadEverything
  <2> SUFFICES ASSUME SourcesInv, RecordsInv, BytesInv,
                      NEW j \in Jobs, work[j].pc \in {"saving", "succeeded"}
               PROVE  LET w == work[j]
                      IN  /\ Len(w.rows) = Len(w.items)
                          /\ w.source.kind = "betfair_historic"
                               => Range(w.items) = Offered(w.source)
                          /\ \A i \in DOMAIN w.items :
                               LET n == w.items[i].name
                               IN  w.read[i] # w.items[i] => {n, Stem[n]} \cap w.stuck # {}
    BY DEF SuccessReadEverything
  <2> DEFINE w == work[j]
  <2>1. Shape(w) /\ ReadPart(w) /\ Tidy(w) /\ BytesPart(w)
    BY DEF SourcesInv, Good, RecordsInv, BytesInv
  <2> HIDE DEF w
  <2>2. w.pc \in {"saving", "succeeded"}
    BY DEF w
  <2>3. /\ Len(w.items) = w.next - 1 /\ Len(w.rows) = w.next - 1 /\ w.next \in Nat
    BY <2>1, <2>2 DEF ReadPart, Shape
  <2>4. DOMAIN w.items = 1 .. w.next - 1
    BY <2>1, <2>3 DEF Tidy, IsList
  <2>5. ASSUME NEW i \in DOMAIN w.items, Clean(w, w.items[i].name)
        PROVE  w.read[i] = w.items[i]
    <3>1. CASE w.source.kind = "gcs"
      BY <2>1, <2>2, <2>4, <2>5, <3>1 DEF BytesPart, GcsBytes
    <3>2. CASE w.source.kind # "gcs"
      <4>1. RemoteBytes(w)
        BY <2>1, <2>2, <3>2 DEF BytesPart
      <4>2. w.read[i] \in Range(w.items) /\ w.read[i].name = w.items[i].name
        BY <2>4, <2>5, <4>1 DEF RemoteBytes, Called
      <4>3. PICK k \in DOMAIN w.items : w.read[i] = w.items[k]
        BY <4>2 DEF Range
      <4>4. i = k
        BY <2>4, <2>5, <4>1, <4>2, <4>3 DEF RemoteBytes
      <4> QED  BY <4>3, <4>4
    <3> QED  BY <3>1, <3>2
  <2>6. \A i \in DOMAIN w.items :
           w.read[i] # w.items[i]
             => {w.items[i].name, Stem[w.items[i].name]} \cap w.stuck # {}
    BY <2>5 DEF Clean
  <2>7. w.source.kind = "betfair_historic" => Range(w.items) = Offered(w.source)
    BY <2>1, <2>2 DEF ReadPart
  <2> QED  BY <2>3, <2>6, <2>7 DEF w
<1> QED  BY <1>1, BytesSafety, PTL

-----------------------------------------------------------------------------
(* The secrets.                                                            *)

\* What a step of the service is for the secrets.
SecretsStep ==
    \/ UNCHANGED secretsVars
    \/ \E c \in Callers : /\ StartFetch(c) \/ EndFetch(c)
                          /\ UNCHANGED <<latest, bornWith, secretCache>>
    \/ \E c \in Callers : FetchStep(c)
    \/ \E s \in Secrets : Rotate(s)
    \/ SecretsRestart

LEMMA StepsOfSecrets == [Next]_vars => SecretsStep
<1> SUFFICES ASSUME [Next]_vars PROVE SecretsStep
  OBVIOUS
<1>1. ASSUME NEW j \in Jobs, Run(j) \/ \E r \in Requests : Submit(j, r) PROVE SecretsStep
  <2>1. CASE Plan(j)
    BY <2>1 DEF Plan, SecretsStep, Jobs, secretsVars
  <2>2. CASE ListRemote(j) \/ Downloaded(j) \/ CallRaises(j)
    BY <2>2 DEF ListRemote, Downloaded, CallRaises, SecretsStep, Jobs
  <2>3. CASE Credentials(j)
    BY <2>3 DEF Credentials, SecretsStep, Jobs
  <2>4. CASE \/ ListDay(j) \/ FetchBlob(j) \/ Decompress(j) \/ Cancelled(j) \/ Save(j)
             \/ \E kept \in SUBSET Paths : ProcessFile(j, kept)
             \/ \E r \in Requests : Submit(j, r)
             \/ \E f \in RemoteFiles, upload \in {"ok", "refused"} : Download(j, f, upload)
    BY <2>4 DEF ListDay, FetchBlob, Decompress, ProcessFile, Cancelled, Save, Submit, Download,
                SecretsStep
  <2> QED  BY <1>1, <2>1, <2>2, <2>3, <2>4 DEF Run
<1>2. CASE Configure \/ RotateSecret \/ Deliver \/ Restart \/ UNCHANGED vars
  BY <1>2 DEF Configure, RotateSecret, Deliver, Restart, vars, SecretsStep
<1> QED  BY <1>1, <1>2 DEF Next

Known(s) == bornWith[s] .. latest[s]

\* How far a thread has come, and what it holds.
FetchPart(c) ==
    LET f == fetch[c] IN
    /\ f.doing = "store" => f.value \in Known(f.at)
    /\ f.doing \in {"check", "access", "store"}
         => \A s \in Secrets : s < f.at => secretCache[s] # 0
    /\ f.doing \in {"build", "ready"} => \A s \in Secrets : secretCache[s] # 0
    /\ f.doing = "build" => \A s \in Secrets : s < f.at => f.bundle[s] \in Known(s)
    /\ f.doing = "ready" => \A s \in Secrets : f.bundle[s] \in Known(s)

SecretsInv ==
    /\ SecretsTypeOK
    /\ \A s \in Secrets : /\ bornWith[s] <= latest[s]
                          /\ secretCache[s] = 0 \/ secretCache[s] \in Known(s)
    /\ \A c \in Callers : FetchPart(c)

LEMMA NoFetchIsTyped == NoFetch \in Fetch /\ NoFetch.doing = "nothing" /\ NoFetch.at = 1
<1>1. 1 \in Secrets /\ [s \in Secrets |-> 0] \in [Secrets -> Nat]
  BY NumSecretsAssumption DEF Secrets
<1> QED  BY <1>1 DEF NoFetch, Fetch

LEMMA SecretsInvInit == Init => SecretsInv
<1> SUFFICES ASSUME Init PROVE SecretsInv
  OBVIOUS
<1>1. SecretsTypeOK
  BY NoFetchIsTyped DEF Init, SecretsInit, SecretsTypeOK
<1>2. \A c \in Callers : fetch[c] = NoFetch
  BY DEF Init, SecretsInit
<1>3. \A c \in Callers : FetchPart(c)
  BY <1>2, NoFetchIsTyped DEF FetchPart
<1> QED  BY <1>1, <1>3 DEF SecretsInv, Init, SecretsInit

\* A thread takes a step; what is cached stays cached, and in its place.
LEMMA FetchKeeps ==
    ASSUME SecretsInv, NEW c \in Callers, NEW f \in Fetch,
           fetch' = [fetch EXCEPT ![c] = f], UNCHANGED <<latest, bornWith>>,
           secretCache' \in [Secrets -> Nat],
           \A s \in Secrets : \/ secretCache'[s] = secretCache[s]
                              \/ secretCache'[s] # 0 /\ secretCache'[s] \in Known(s),
           FetchPart(c)'
    PROVE  SecretsInv'
<1>1. SecretsTypeOK'
  BY DEF SecretsInv, SecretsTypeOK
<1>2. ASSUME NEW s \in Secrets
      PROVE  /\ (bornWith[s] <= latest[s])'
             /\ (secretCache[s] = 0 \/ secretCache[s] \in Known(s))'
  BY DEF SecretsInv, Known
<1>3. \A s \in Secrets : secretCache[s] # 0 => secretCache'[s] # 0
  OBVIOUS
<1>4. ASSUME NEW d \in Callers, d # c PROVE FetchPart(d)'
  <2>1. fetch'[d] = fetch[d] /\ FetchPart(d)
    BY <1>4 DEF SecretsInv, SecretsTypeOK
  <2>2. \A s \in Secrets : Known(s)' = Known(s)
    BY DEF Known
  <2>3. fetch[d].at \in Secrets
    BY DEF SecretsInv, SecretsTypeOK, Fetch
  <2> QED  BY <1>3, <2>1, <2>2, <2>3 DEF FetchPart
<1> QED  BY <1>1, <1>2, <1>4 DEF SecretsInv

\* What the next secret, or the bundle, finds.
LEMMA NextSecretIs ==
    ASSUME NEW f \in Fetch
    PROVE  LET g == NextSecret(f) IN
           /\ g \in Fetch /\ g.value = f.value
           /\ \/ f.at < NumSecrets /\ g.doing = "check" /\ g.at = f.at + 1
              \/ f.at = NumSecrets /\ g.doing = "build" /\ g.at = 1
<1>1. f.at \in 1 .. NumSecrets /\ NumSecrets \in Nat \ {0}
  BY NumSecretsAssumption DEF Fetch, Secrets
<1>2. CASE f.at < NumSecrets
  <2>1. f.at + 1 \in Secrets
    BY <1>1, <1>2 DEF Secrets
  <2> QED  BY <1>2, <2>1 DEF NextSecret, Fetch
<1>3. CASE f.at = NumSecrets
  <2>1. 1 \in Secrets /\ ~(f.at < NumSecrets)
    BY <1>1, <1>3 DEF Secrets
  <2> QED  BY <1>3, <2>1 DEF NextSecret, Fetch
<1> QED  BY <1>1, <1>2, <1>3

LEMMA AllOfThem ==
    ASSUME NEW f \in Fetch
    PROVE  /\ \A s \in Secrets : s < f.at + 1 => s < f.at \/ s = f.at
           /\ f.at = NumSecrets => \A s \in Secrets : s < f.at \/ s = f.at
           /\ \A s \in Secrets : ~(s < 1)
BY NumSecretsAssumption DEF Fetch, Secrets

LEMMA CheckCacheKeeps ==
    ASSUME SecretsInv, NEW c \in Callers, CheckCache(c) PROVE SecretsInv'
<1> DEFINE f == fetch[c]
<1>1. f \in Fetch /\ f.doing = "check" /\ fetch \in [Callers -> Fetch]
  BY DEF CheckCache, SecretsInv, SecretsTypeOK
<1>2. FetchPart(c) /\ secretCache \in [Secrets -> Nat]
  BY DEF SecretsInv, SecretsTypeOK
<1>3. CASE Cached(f.at)
  <2> DEFINE g == NextSecret(f)
  <2>1. fetch' = [fetch EXCEPT ![c] = g] /\ UNCHANGED <<latest, bornWith, secretCache>>
    BY <1>3 DEF CheckCache
  <2>2. /\ g \in Fetch
        /\ \/ f.at < NumSecrets /\ g.doing = "check" /\ g.at = f.at + 1
           \/ f.at = NumSecrets /\ g.doing = "build" /\ g.at = 1
    BY <1>1, NextSecretIs
  <2>3. fetch'[c] = g
    BY <1>1, <2>1
  <2> HIDE DEF g
  <2>4. FetchPart(c)'
    BY <1>1, <1>2, <1>3, <2>1, <2>2, <2>3, AllOfThem DEF FetchPart, Cached
  <2> QED  BY <1>2, <2>1, <2>2, <2>4, FetchKeeps
<1>4. CASE ~Cached(f.at)
  <2> DEFINE g == [f EXCEPT !.doing = "access"]
  <2>1. fetch' = [fetch EXCEPT ![c] = g] /\ UNCHANGED <<latest, bornWith, secretCache>>
    BY <1>4 DEF CheckCache
  <2>2. g \in Fetch /\ g.doing = "access" /\ g.at = f.at
    BY <1>1 DEF Fetch
  <2>3. fetch'[c] = g
    BY <1>1, <2>1
  <2> HIDE DEF g
  <2>4. FetchPart(c)'
    BY <1>1, <1>2, <2>1, <2>2, <2>3 DEF FetchPart
  <2> QED  BY <1>2, <2>1, <2>2, <2>4, FetchKeeps
<1> QED  BY <1>3, <1>4

LEMMA AccessSecretKeeps ==
    ASSUME SecretsInv, NEW c \in Callers, AccessSecret(c) PROVE SecretsInv'
<1> DEFINE f == fetch[c]
           g == [f EXCEPT !.doing = "store", !.value = latest[f.at]]
<1>1. f \in Fetch /\ f.doing = "access" /\ fetch \in [Callers -> Fetch] /\ f.at \in Secrets
  BY DEF AccessSecret, SecretsInv, SecretsTypeOK, Fetch
<1>2. FetchPart(c) /\ secretCache \in [Secrets -> Nat]
  BY DEF SecretsInv, SecretsTypeOK
<1>3. fetch' = [fetch EXCEPT ![c] = g] /\ UNCHANGED <<latest, bornWith, secretCache>>
  BY <1>1 DEF AccessSecret, LatestVersion
<1>4. latest[f.at] \in Known(f.at) /\ latest[f.at] \in Nat
  BY <1>1 DEF SecretsInv, SecretsTypeOK, Known
<1>5. g \in Fetch /\ g.doing = "store" /\ g.at = f.at /\ g.value = latest[f.at]
  BY <1>1, <1>4 DEF Fetch
<1>6. fetch'[c] = g
  BY <1>1, <1>3
<1> HIDE DEF g
<1>7. FetchPart(c)'
  BY <1>1, <1>2, <1>3, <1>4, <1>5, <1>6 DEF FetchPart, Known
<1> QED  BY <1>2, <1>3, <1>5, <1>7, FetchKeeps

LEMMA StoreSecretKeeps ==
    ASSUME SecretsInv, NEW c \in Callers, StoreSecret(c) PROVE SecretsInv'
<1> DEFINE f == fetch[c]
           e == [f EXCEPT !.value = 0]
           g == NextSecret(e)
<1>1. f \in Fetch /\ f.doing = "store" /\ fetch \in [Callers -> Fetch] /\ f.at \in Secrets
  BY DEF StoreSecret, SecretsInv, SecretsTypeOK, Fetch
<1>2. FetchPart(c) /\ secretCache \in [Secrets -> Nat]
  BY DEF SecretsInv, SecretsTypeOK
<1>3. /\ fetch' = [fetch EXCEPT ![c] = g] /\ UNCHANGED <<latest, bornWith>>
      /\ secretCache' = [secretCache EXCEPT ![f.at] = f.value]
  BY DEF StoreSecret
<1>4. f.value \in Known(f.at) /\ f.value \in Nat /\ f.value # 0
  BY <1>1, <1>2 DEF FetchPart, Known, SecretsInv, SecretsTypeOK, Fetch
<1>5. e \in Fetch /\ e.at = f.at
  BY <1>1 DEF Fetch
<1> HIDE DEF e
<1>6. /\ g \in Fetch
      /\ \/ f.at < NumSecrets /\ g.doing = "check" /\ g.at = f.at + 1
         \/ f.at = NumSecrets /\ g.doing = "build" /\ g.at = 1
  BY <1>5, NextSecretIs
<1> HIDE DEF g
<1>7. fetch'[c] = g
  BY <1>1, <1>3
<1>8. secretCache' \in [Secrets -> Nat]
  BY <1>1, <1>2, <1>3, <1>4
<1>9. /\ secretCache'[f.at] = f.value
      /\ \A s \in Secrets : s # f.at => secretCache'[s] = secretCache[s]
  BY <1>1, <1>2, <1>3
<1>10. \A s \in Secrets : s < f.at => secretCache[s] # 0
  BY <1>1, <1>2 DEF FetchPart
<1>11. FetchPart(c)'
  <2>1. \A s \in Secrets : s < f.at \/ s = f.at => secretCache'[s] # 0
    BY <1>4, <1>9, <1>10
  <2> QED  BY <1>1, <1>6, <1>7, <2>1, AllOfThem DEF FetchPart
<1> QED  BY <1>3, <1>4, <1>6, <1>8, <1>9, <1>11, FetchKeeps

LEMMA BuildBundleKeeps ==
    ASSUME SecretsInv, NEW c \in Callers, BuildBundle(c) PROVE SecretsInv'
<1> DEFINE f == fetch[c]
           part == secretCache[f.at]
           b == [f EXCEPT !.bundle[f.at] = part]
           g == IF f.at < NumSecrets THEN [b EXCEPT !.at = @ + 1] ELSE [b EXCEPT !.doing = "ready"]
<1>1. f \in Fetch /\ f.doing = "build" /\ fetch \in [Callers -> Fetch] /\ f.at \in Secrets
  BY DEF BuildBundle, SecretsInv, SecretsTypeOK, Fetch
<1>2. FetchPart(c) /\ secretCache \in [Secrets -> Nat]
  BY DEF SecretsInv, SecretsTypeOK
<1>3. fetch' = [fetch EXCEPT ![c] = g] /\ UNCHANGED <<latest, bornWith, secretCache>>
  BY DEF BuildBundle
<1>4. part \in Known(f.at) /\ part \in Nat
  BY <1>1, <1>2 DEF FetchPart, SecretsInv
<1> HIDE DEF part
<1>5. /\ b \in Fetch /\ b.doing = "build" /\ b.at = f.at /\ b.bundle[f.at] = part
      /\ \A s \in Secrets : s # f.at => b.bundle[s] = f.bundle[s]
  BY <1>1, <1>4 DEF Fetch
<1> HIDE DEF b
<1>6. /\ g \in Fetch /\ g.bundle = b.bundle
      /\ \/ g.doing = "build" /\ g.at = f.at + 1
         \/ g.doing = "ready" /\ f.at = NumSecrets
  <2>1. f.at \in 1 .. NumSecrets /\ NumSecrets \in Nat
    BY <1>1, NumSecretsAssumption DEF Secrets
  <2>2. CASE f.at < NumSecrets
    <3>1. f.at + 1 \in Secrets
      BY <2>1, <2>2 DEF Secrets
    <3> QED  BY <1>5, <2>2, <3>1 DEF Fetch
  <2>3. CASE f.at = NumSecrets
    BY <1>5, <2>1, <2>3 DEF Fetch
  <2> QED  BY <2>1, <2>2, <2>3
<1> HIDE DEF g
<1>7. fetch'[c] = g
  BY <1>1, <1>3
<1>8. \A s \in Secrets : s < f.at \/ s = f.at => b.bundle[s] \in Known(s)
  BY <1>1, <1>2, <1>4, <1>5 DEF FetchPart
<1>9. FetchPart(c)'
  <2>1. \A s \in Secrets : Known(s)' = Known(s)
    BY <1>3 DEF Known
  <2>2. \A s \in Secrets : secretCache'[s] # 0
    BY <1>1, <1>2, <1>3 DEF FetchPart
  <2> QED  BY <1>1, <1>6, <1>7, <1>8, <2>1, <2>2, AllOfThem DEF FetchPart
<1> QED  BY <1>2, <1>3, <1>6, <1>9, FetchKeeps

LEMMA SecretsNext == SecretsInv /\ [Next]_vars => SecretsInv'
<1> SUFFICES ASSUME SecretsInv, SecretsStep PROVE SecretsInv'
  BY StepsOfSecrets
<1>1. CASE UNCHANGED secretsVars
  BY <1>1 DEF secretsVars, SecretsInv, SecretsTypeOK, FetchPart, Known
<1>2. ASSUME NEW c \in Callers, StartFetch(c) \/ EndFetch(c),
             UNCHANGED <<latest, bornWith, secretCache>>
      PROVE  SecretsInv'
  <2>1. PICK f \in {NoFetch, [NoFetch EXCEPT !.doing = "check"]} :
          fetch' = [fetch EXCEPT ![c] = f]
    BY <1>2 DEF StartFetch, EndFetch
  <2>2. f \in Fetch /\ f.at = 1 /\ f.doing \in {"nothing", "check"}
    BY <2>1, NoFetchIsTyped DEF Fetch
  <2>3. fetch'[c] = f /\ secretCache' \in [Secrets -> Nat]
    BY <1>2, <2>1 DEF SecretsInv, SecretsTypeOK
  <2>4. FetchPart(c)'
    BY <2>2, <2>3, AllOfThem DEF FetchPart
  <2> QED  BY <1>2, <2>1, <2>2, <2>3, <2>4, FetchKeeps
<1>3. ASSUME NEW c \in Callers, FetchStep(c) PROVE SecretsInv'
  BY <1>3, CheckCacheKeeps, AccessSecretKeeps, StoreSecretKeeps, BuildBundleKeeps DEF FetchStep
<1>4. ASSUME NEW s \in Secrets, Rotate(s) PROVE SecretsInv'
  <2>1. /\ latest' = [latest EXCEPT ![s] = @ + 1]
        /\ UNCHANGED <<bornWith, secretCache, fetch>>
    BY <1>4 DEF Rotate
  <2>2. /\ latest' \in [Secrets -> Nat \ {0}]
        /\ \A t \in Secrets : latest[t] <= latest'[t] /\ latest[t] \in Nat /\ bornWith[t] \in Nat
    BY <2>1 DEF SecretsInv, SecretsTypeOK
  <2>3. \A t \in Secrets : \A n \in Known(t) : n \in Known(t)'
    BY <2>1, <2>2 DEF Known
  <2>4. SecretsTypeOK'
    BY <2>1, <2>2 DEF SecretsInv, SecretsTypeOK
  <2>5. ASSUME NEW c \in Callers PROVE FetchPart(c)'
    <3>1. fetch[c].at \in Secrets /\ FetchPart(c)
      BY DEF SecretsInv, SecretsTypeOK, Fetch
    <3> QED  BY <2>1, <2>3, <3>1 DEF FetchPart
  <2>6. ASSUME NEW t \in Secrets
        PROVE  /\ (bornWith[t] <= latest[t])'
               /\ (secretCache[t] = 0 \/ secretCache[t] \in Known(t))'
    BY <2>1, <2>2, <2>3 DEF SecretsInv
  <2> QED  BY <2>4, <2>5, <2>6 DEF SecretsInv
<1>5. CASE SecretsRestart
  <2>1. SecretsTypeOK'
    BY <1>5, NoFetchIsTyped DEF SecretsRestart, SecretsInv, SecretsTypeOK
  <2>2. \A c \in Callers : fetch'[c] = NoFetch
    BY <1>5 DEF SecretsRestart
  <2>3. \A c \in Callers : FetchPart(c)'
    BY <2>2, NoFetchIsTyped DEF FetchPart
  <2>4. \A s \in Secrets : secretCache'[s] = 0 /\ bornWith'[s] = latest'[s] /\ latest'[s] \in Nat
    BY <1>5 DEF SecretsRestart, SecretsInv, SecretsTypeOK
  <2> QED  BY <2>1, <2>3, <2>4 DEF SecretsInv
<1> QED  BY <1>1, <1>2, <1>3, <1>4, <1>5 DEF SecretsStep

LEMMA SecretsSafety == Spec => []SecretsInv
BY SecretsInvInit, SecretsNext, PTL DEF Spec

\* A complete bundle, each part of it the latest version at some moment of
\* this process's life, however the threads and the rotations interleave.
THEOREM BundlesAreOfThisProcess == Spec => []BundleOfThisProcess
<1>1. SecretsInv => BundleOfThisProcess
  BY DEF SecretsInv, FetchPart, BundleOfThisProcess, Ready, Known
<1> QED  BY <1>1, SecretsSafety, PTL

\* Once every secret is cached and no thread holds a value of its own, the
\* credentials of this process do not change any more.
THEOREM CacheSettles == Spec => SettledCacheStays
<1> DEFINE Stays == Settled => (secretCache' = secretCache /\ Settled') \/ SecretsRestart
<1>1. SecretsInv /\ [Next]_vars => [Stays]_secretsVars
  <2> SUFFICES ASSUME SecretsInv, SecretsStep, Settled
               PROVE  (secretCache' = secretCache /\ Settled') \/ SecretsRestart
                      \/ UNCHANGED secretsVars
    BY StepsOfSecrets
  <2>1. ASSUME NEW c \in Callers, NEW f \in Fetch, f.doing \notin {"access", "store"},
               fetch' = [fetch EXCEPT ![c] = f], secretCache' = secretCache
        PROVE  secretCache' = secretCache /\ Settled'
    BY <2>1 DEF Settled, MayStore, SecretsInv, SecretsTypeOK
  <2>2. ASSUME NEW c \in Callers, StartFetch(c) \/ EndFetch(c), UNCHANGED secretCache
        PROVE  secretCache' = secretCache /\ Settled'
    <3>1. PICK f \in {NoFetch, [NoFetch EXCEPT !.doing = "check"]} :
            fetch' = [fetch EXCEPT ![c] = f]
      BY <2>2 DEF StartFetch, EndFetch
    <3>2. f \in Fetch /\ f.doing \in {"nothing", "check"}
      BY <3>1, NoFetchIsTyped DEF Fetch
    <3> QED  BY <2>1, <2>2, <3>1, <3>2
  <2>3. ASSUME NEW c \in Callers, FetchStep(c) PROVE secretCache' = secretCache /\ Settled'
    <3>1. fetch[c] \in Fetch /\ fetch[c].at \in Secrets /\ ~MayStore(c)
      BY DEF Settled, SecretsInv, SecretsTypeOK, Fetch
    <3>2. CASE CheckCache(c)
      <4> DEFINE g == NextSecret(fetch[c])
      <4>1. Cached(fetch[c].at)
        BY <3>1 DEF Settled, Cached
      <4>2. fetch' = [fetch EXCEPT ![c] = g] /\ secretCache' = secretCache
        BY <3>2, <4>1 DEF CheckCache
      <4>3. g \in Fetch /\ g.doing \in {"check", "build"}
        BY <3>1, NextSecretIs
      <4> HIDE DEF g
      <4> QED  BY <2>1, <4>2, <4>3
    <3>3. CASE BuildBundle(c)
      <4>1. secretCache' = secretCache /\ UNCHANGED <<latest, bornWith>>
        BY <3>3 DEF BuildBundle
      <4>2. fetch'[c].doing \in {"build", "ready"} /\ \A d \in Callers \ {c} : fetch'[d] = fetch[d]
        <5> DEFINE b == [fetch[c] EXCEPT !.bundle[fetch[c].at] = secretCache[fetch[c].at]]
                   g == IF fetch[c].at < NumSecrets THEN [b EXCEPT !.at = @ + 1]
                        ELSE [b EXCEPT !.doing = "ready"]
        <5>1. fetch' = [fetch EXCEPT ![c] = g] /\ fetch[c].doing = "build"
          BY <3>3 DEF BuildBundle
        <5>2. g.doing \in {"build", "ready"}
          BY <3>1, <5>1 DEF Fetch
        <5> HIDE DEF g
        <5> QED  BY <5>1, <5>2 DEF SecretsInv, SecretsTypeOK
      <4> QED  BY <4>1, <4>2 DEF Settled, MayStore
    <3>4. CASE AccessSecret(c) \/ StoreSecret(c)
      BY <3>1, <3>4 DEF AccessSecret, StoreSecret, MayStore
    <3> QED  BY <2>3, <3>2, <3>3, <3>4 DEF FetchStep
  <2>4. ASSUME NEW s \in Secrets, Rotate(s) PROVE secretCache' = secretCache /\ Settled'
    BY <2>4 DEF Rotate, Settled, MayStore
  <2> QED  BY <2>2, <2>3, <2>4 DEF SecretsStep
<1> QED  BY <1>1, SecretsSafety, PTL DEF Spec, SettledCacheStays

-----------------------------------------------------------------------------
(* Every variable.                                                         *)

DocsTypeOK == \A d \in docs : d.bucket \in Buckets /\ d.job \in Jobs

LEMMA DocsNext == SourcesInv /\ DocsTypeOK /\ [Next]_vars => DocsTypeOK'
<1> SUFFICES ASSUME SourcesInv, DocsTypeOK, [Next]_vars PROVE DocsTypeOK'
  OBVIOUS
<1>1. ASSUME NEW j \in Jobs, NEW name, WriteDocument(j, name) PROVE DocsTypeOK'
  <2>1. docs' = docs \cup {Document(storeBucket, j, name)} /\ storeBucket \in Buckets
    BY <1>1, DeployedAssumption DEF WriteDocument, ResultsBucket, SourcesInv, SettingsValue
  <2> QED  BY <2>1 DEF Document, DocsTypeOK
<1>2. ASSUME NEW j \in Jobs, NEW r \in Requests, Submit(j, r) PROVE DocsTypeOK'
  BY <1>1, <1>2 DEF Submit
<1>3. ASSUME NEW j \in Jobs, Save(j) PROVE DocsTypeOK'
  BY <1>1, <1>3 DEF Save
<1>4. CASE UNCHANGED docs
  BY <1>4 DEF DocsTypeOK
<1>5. ASSUME NEW j \in Jobs, Run(j), ~Save(j) PROVE UNCHANGED docs
  BY <1>5 DEF Run, Plan, ListDay, FetchBlob, Credentials, ListRemote, Download, Downloaded,
              Decompress, ProcessFile, Cancelled, CallRaises
<1>6. CASE Configure \/ RotateSecret \/ Deliver \/ Restart \/ UNCHANGED vars
  BY <1>4, <1>6 DEF Configure, RotateSecret, Deliver, Restart, vars
<1> QED  BY <1>2, <1>3, <1>4, <1>5, <1>6 DEF Next

\* Every variable has the values its declaration says: the requests and names
\* of the records are given ones, the position is in the list or just behind
\* it, and no count is ever negative.
THEOREM SourcesAreTyped == Spec => []TypeOK
<1>1. Init => DocsTypeOK
  BY DEF Init, DocsTypeOK
<1>2. Spec => []DocsTypeOK
  BY <1>1, DocsNext, SourcesSafety, PTL DEF Spec
<1>3. SourcesInv /\ RecordsInv /\ SecretsInv /\ DocsTypeOK => TypeOK
  <2> SUFFICES ASSUME SourcesInv, RecordsInv, SecretsInv, DocsTypeOK PROVE TypeOK
    OBVIOUS
  <2>1. SettingsTypeOK
    BY DeployedAssumption DEF SourcesInv, SettingsTypeOK, SettingsValue
  <2>2. ASSUME NEW j \in Jobs
        PROVE  LET w == work[j]
               IN  /\ w.pc \in Place
                   /\ w.request \in Requests \cup {None}
                   /\ w.disk \in [Paths -> Blob \cup RemoteFile \cup {None}]
                   /\ w.stuck \subseteq Paths
                   /\ w.next \in 1 .. Len(w.items) + 1
                   /\ w.progress \in Counts /\ w.summary \in Counts
    <3>1. work[j].pc \in Place
      BY DEF SourcesInv, Good, Shape
    <3>2. Counted(work[j]) /\ Tidy(work[j])
      BY DEF RecordsInv
    <3> QED  BY <3>1, <3>2 DEF Counted, CountsPart, Tidy, File
  <2> QED  BY <2>1, <2>2 DEF TypeOK, SourcesInv, RecordsInv, SecretsInv, DocsTypeOK
<1> QED  BY <1>2, <1>3, RecordsSafety, SecretsSafety, PTL

=============================================================================
