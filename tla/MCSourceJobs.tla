---------------------------- MODULE MCSourceJobs ----------------------------
(* Two jobs, two source locations, a bucket with files on days 1, 2 and    *)
(* 10, and a remote catalogue in which two files share a base name.        *)
EXTENDS SourceJobs, TLC

CONSTANTS j1, j2

TwoJobs == {j1, j2}
OneJob == {j1}

MCDeployed == [source |-> "main", results |-> "results"]

MCNames == {"a.bz2", "b.bz2", "index.json"}
MCStem == [n \in MCNames |-> CASE n = "a.bz2" -> "a" [] n = "b.bz2" -> "b" [] OTHER -> n]

Obj(at, day, name) == [at |-> at, day |-> day, name |-> name]
MCDelivered ==
    {Obj("main", 1, "a.bz2"), Obj("main", 1, "index.json"),
     Obj("main", 2, "b.bz2"), Obj("main", 10, "b.bz2"), Obj("mirror", 0, "b.bz2")}
MCDeliveries == {Obj("main", 1, "b.bz2"), Obj("mirror", 1, "a.bz2")}

File(day, name) == [day |-> day, country |-> "GB", name |-> name]
MCRemoteFiles ==
    {File(1, "a.bz2"), File(2, "b.bz2"), File(10, "b.bz2"),
     [day |-> 10, country |-> "FR", name |-> "a.bz2"]}

\* m1 is in several files; m2 races on day 2 and is foreign, m4 names no
\* country; m3 has a void bet.
MCContent == [d \in {0, 1, 2, 10}, n \in MCNames |->
                 CASE n = "a.bz2" -> {"m1", "m2"}
                   [] n = "b.bz2" -> IF d = 2 THEN {"m1", "m3"} ELSE {"m1", "m4"}
                   [] OTHER -> {}]
Replayed(day, country, bets, voids) ==
    [day |-> day, country |-> country, bets |-> bets, voids |-> voids]
MCFeed == [m \in {"m1", "m2", "m3", "m4"} |->
             CASE m = "m1" -> Replayed(1, "GB", 2, 1)
               [] m = "m2" -> Replayed(2, "FR", 1, 0)
               [] m = "m3" -> Replayed(2, "GB", 1, 1)
               [] m = "m4" -> Replayed(1, "", 1, 0)]

Ask(inline, override, range, countries) ==
    [inline |-> inline, override |-> override, range |-> range, countries |-> countries]
MCRequests ==
    {Ask(None, None, {1, 2}, {"GB"}),
     Ask(None, None, {}, {}),
     Ask(None, Gcs("mirror", {1}, {"GB"}), {10}, {"FR"}),
     Ask(Historic("mirror", {2, 10}, {"GB"}), Gcs("main", {2}, {}), {1}, {})}

MirrorRequests == {Ask(None, Historic("mirror", {1}, {"GB"}), {}, {})}

JobSymmetry == Permutations(Jobs)

=============================================================================
