------------------------ MODULE ResultsListingProofs ------------------------
(***************************************************************************)
(* What a reader of the paged listing can rely on, for any number of jobs, *)
(* any page size and filter, and however the jobs change between pages.    *)
(*                                                                         *)
(*   PagesAreOrderedAndFull   Spec => []PageIsOrderedAndFull               *)
(*   NothingIsSkipped         Spec => []SkippedOnlyAfterDeparture          *)
(*   NothingIsRepeated        Spec => []RepeatedOnlyAfterArrival           *)
(*                                                                         *)
(* The place of a job in a listing is the number of jobs listed before it. *)
(* Page k of size n has the jobs of the places (k - 1) n and on.  While no *)
(* job leaves the listing places only grow, so a job the reader has not    *)
(* seen is still ahead of it; while no job enters it they only shrink, so  *)
(* a job it has seen is behind it.                                         *)
(***************************************************************************)
EXTENDS ResultsListing, SequenceTheorems, FiniteSetTheorems, TLAPS

Before(j, S) == {i \in S : Newer(i, j)}
Place(j, S) == Cardinality(Before(j, S))

LEMMA JobsAreFinite ==
    /\ NumJobs \in Nat /\ IsFiniteSet(Jobs) /\ Cardinality(Jobs) = NumJobs
    /\ \A S \in SUBSET Jobs : IsFiniteSet(S) /\ Cardinality(S) \in 0 .. NumJobs
<1>1. NumJobs \in Nat /\ IsFiniteSet(Jobs) /\ Cardinality(Jobs) = NumJobs
  BY PageSizesAssumption, FS_Interval DEF Jobs
<1>2. ASSUME NEW S \in SUBSET Jobs PROVE IsFiniteSet(S) /\ Cardinality(S) \in 0 .. NumJobs
  <2>1. IsFiniteSet(S) /\ Cardinality(S) <= NumJobs
    BY <1>1, FS_Subset
  <2>2. Cardinality(S) \in Nat
    BY <2>1, FS_CardinalityType
  <2> QED  BY <1>1, <2>1, <2>2
<1> QED  BY <1>1, <1>2

LEMMA JobsAreNatural == ASSUME NEW S \in SUBSET Jobs, NEW j \in S PROVE j \in Nat
<1>1. j \in 1 .. NumJobs
  BY DEF Jobs
<1> QED  BY <1>1

LEMMA PlaceIsNatural ==
    ASSUME NEW S \in SUBSET Jobs, NEW j \in Jobs
    PROVE  /\ IsFiniteSet(Before(j, S)) /\ Place(j, S) \in Nat
           /\ j \in S => Place(j, S) < Cardinality(S)
<1> DEFINE B == Before(j, S)
<1>1. IsFiniteSet(S) /\ Cardinality(S) \in Nat
  BY JobsAreFinite
<1>2. B \in SUBSET S /\ j \notin B
  BY DEF Before, Newer, Jobs
<1> HIDE DEF B
<1>3. IsFiniteSet(B) /\ Cardinality(B) <= Cardinality(S) /\ (Cardinality(S) = Cardinality(B) => S = B)
  BY <1>1, <1>2, FS_Subset
<1>4. Cardinality(B) \in Nat
  BY <1>3, FS_CardinalityType
<1>5. j \in S => Cardinality(B) < Cardinality(S)
  BY <1>1, <1>2, <1>3, <1>4
<1> QED  BY <1>3, <1>4, <1>5 DEF B, Place

\* The newer job has the smaller place.
LEMMA PlaceOrders ==
    ASSUME NEW S \in SUBSET Jobs, NEW i \in S, NEW j \in S, Newer(i, j)
    PROVE  Place(i, S) < Place(j, S)
<1> DEFINE A == Before(i, S)
           B == Before(j, S)
<1>1. A \in SUBSET B /\ i \in B /\ i \notin A
  <2>1. \A k \in S : k \in Nat
    BY JobsAreNatural
  <2>2. \A k \in S : k > i => k > j
    BY <2>1 DEF Newer
  <2>3. ~(i > i)
    BY <2>1
  <2> QED  BY <2>2, <2>3 DEF Before, Newer
<1>2. IsFiniteSet(B) /\ Cardinality(B) \in Nat /\ Cardinality(A) \in Nat
  BY PlaceIsNatural DEF Place
<1> HIDE DEF A, B
<1>3. Cardinality(A) <= Cardinality(B) /\ (Cardinality(B) = Cardinality(A) => B = A)
  BY <1>1, <1>2, FS_Subset
<1>4. Cardinality(A) < Cardinality(B)
  BY <1>1, <1>2, <1>3
<1> QED  BY <1>4 DEF A, B, Place

\* Places grow with the listing.
LEMMA PlaceGrows ==
    ASSUME NEW T \in SUBSET Jobs, NEW S \in SUBSET T, NEW j \in Jobs
    PROVE  Place(j, S) <= Place(j, T)
<1>1. Before(j, S) \in SUBSET Before(j, T)
  BY DEF Before
<1>2. IsFiniteSet(Before(j, T))
  BY PlaceIsNatural
<1> QED  BY <1>1, <1>2, FS_Subset DEF Place

LEMMA OnePlaceEach ==
    ASSUME NEW S \in SUBSET Jobs, NEW i \in S, NEW j \in S, Place(i, S) = Place(j, S)
    PROVE  i = j
<1>1. Place(i, S) \in Nat /\ Place(j, S) \in Nat
  BY PlaceIsNatural
<1>2. i \in Nat /\ j \in Nat
  BY DEF Jobs
<1>3. ~Newer(i, j) /\ ~Newer(j, i)
  BY <1>1, PlaceOrders
<1> QED  BY <1>2, <1>3 DEF Newer

\* The places of the jobs of a listing are 0, 1, and so on.
LEMMA EachPlaceIsTaken ==
    ASSUME NEW S \in SUBSET Jobs
    PROVE  \A p \in 0 .. Cardinality(S) - 1 : \E j \in S : Place(j, S) = p
<1> DEFINE n == Cardinality(S)
           P == 0 .. n - 1
           f == [j \in S |-> Place(j, S)]
<1>1. IsFiniteSet(S) /\ n \in Nat
  BY JobsAreFinite
<1>2. IsFiniteSet(P) /\ Cardinality(P) = n
  <2>1. IsFiniteSet(0 .. n - 1) /\ Cardinality(0 .. n - 1) = IF 0 > n - 1 THEN 0 ELSE (n - 1) - 0 + 1
    BY <1>1, FS_Interval, SMTT(30)
  <2> HIDE DEF n
  <2> QED  BY <1>1, <2>1
<1>3. f \in [S -> P]
  <2>1. \A j \in S : Place(j, S) \in Nat /\ Place(j, S) < n
    BY PlaceIsNatural
  <2>2. \A j \in S : Place(j, S) \in P
    <3> HIDE DEF n
    <3> QED  BY <1>1, <2>1
  <2> HIDE DEF P
  <2> QED  BY <2>2
<1>4. \A i, j \in S : f[i] = f[j] => i = j
  BY OnePlaceEach
<1> HIDE DEF f, P
<1>5. f \in Injection(S, P)
  BY <1>3, <1>4, Zenon DEF Injection, IsInjective
<1>6. f \in Surjection(S, P)
  <2>1. Cardinality(S) = Cardinality(P)
    BY <1>2
  <2> QED  BY <1>2, <1>5, <2>1, FS_Injection
<1>7. \A p \in P : \E j \in S : f[j] = p
  BY <1>6 DEF Surjection
<1> QED  BY <1>7 DEF f, P

-----------------------------------------------------------------------------
(* The listing.                                                            *)

Sorted(s) == \A i, k \in DOMAIN s : i < k => Newer(s[i], s[k])

LEMMA InOrderIsSorted ==
    ASSUME NEW S \in SUBSET Jobs
    PROVE  InOrder(S) \in [1 .. Cardinality(S) -> S] /\ Sorted(InOrder(S))
<1> DEFINE n == Cardinality(S)
           s == [k \in 1 .. n |-> CHOOSE j \in S : Place(j, S) = k - 1]
<1>1. n \in Nat
  BY JobsAreFinite
<1>2. ASSUME NEW k \in 1 .. n PROVE s[k] \in S /\ Place(s[k], S) = k - 1
  <2>1. k - 1 \in 0 .. n - 1
    BY <1>1
  <2>2. \E j \in S : Place(j, S) = k - 1
    BY <2>1, EachPlaceIsTaken
  <2> QED  BY <2>2
<1>3. DOMAIN s = 1 .. n /\ s \in [1 .. n -> S]
  <2>1. \A k \in 1 .. n : s[k] \in S
    BY <1>2
  <2> QED  BY <2>1
<1> HIDE DEF s, n
<1>4. ASSUME NEW i \in 1 .. n, NEW k \in 1 .. n, i < k PROVE Newer(s[i], s[k])
  <2>1. s[i] \in S /\ s[k] \in S /\ Place(s[i], S) = i - 1 /\ Place(s[k], S) = k - 1
    BY <1>2
  <2>2. ~(Place(s[k], S) < Place(s[i], S))
    BY <1>1, <1>4, <2>1
  <2>3. ~Newer(s[k], s[i])
    BY <2>1, <2>2, PlaceOrders
  <2>4. s[i] # s[k]
    BY <1>1, <1>4, <2>1
  <2>5. s[i] \in Nat /\ s[k] \in Nat
    BY <2>1, JobsAreNatural
  <2> QED  BY <2>3, <2>4, <2>5 DEF Newer
<1>5. s \in [1 .. Cardinality(S) -> S] /\ \A i, k \in DOMAIN s : i < k => Newer(s[i], s[k])
  BY <1>3, <1>4 DEF n
<1>6. \E t \in [1 .. Cardinality(S) -> S] : \A i, k \in DOMAIN t : i < k => Newer(t[i], t[k])
  BY <1>5, Zenon
<1> QED  BY <1>6, Zenon DEF InOrder, Sorted

\* At index k stands the job of the place k - 1.
LEMMA PlacesInOrder ==
    ASSUME NEW S \in SUBSET Jobs
    PROVE  /\ \A k \in 1 .. Cardinality(S) : Place(InOrder(S)[k], S) = k - 1
           /\ \A j \in S : InOrder(S)[Place(j, S) + 1] = j
<1> DEFINE n == Cardinality(S)
           s == InOrder(S)
<1>1. n \in Nat /\ IsFiniteSet(S) /\ s \in [1 .. n -> S] /\ Sorted(s)
  BY JobsAreFinite, InOrderIsSorted
<1> HIDE DEF s, n
<1>2. \A i, k \in 1 .. n : /\ s[i] \in Nat /\ i \in Nat
                           /\ i < k => s[i] > s[k]
  <2>1. \A j \in S : j \in Nat
    BY JobsAreNatural
  <2>2. DOMAIN s = 1 .. n /\ \A i \in 1 .. n : s[i] \in S
    BY <1>1
  <2> QED  BY <1>1, <2>1, <2>2 DEF Sorted, Newer
<1>3. \A i, k \in 1 .. n : s[i] > s[k] <=> i < k
  <2> SUFFICES ASSUME NEW i \in 1 .. n, NEW k \in 1 .. n, s[i] > s[k], ~(i < k)
               PROVE  FALSE
    BY <1>2
  <2>1. /\ s[i] \in Nat /\ s[k] \in Nat /\ i \in Nat /\ k \in Nat
        /\ k < i => s[k] > s[i]
    BY <1>2
  <2>2. k < i \/ k = i
    BY <2>1
  <2> QED  BY <2>1, <2>2
<1>4. \A i, k \in 1 .. n : s[i] = s[k] => i = k
  <2> SUFFICES ASSUME NEW i \in 1 .. n, NEW k \in 1 .. n, s[i] = s[k] PROVE i = k
    OBVIOUS
  <2>1. /\ s[i] \in Nat /\ s[k] \in Nat /\ i \in Nat /\ k \in Nat
        /\ k < i => s[k] > s[i]
        /\ i < k => s[i] > s[k]
    BY <1>2
  <2> QED  BY <2>1
<1>5. \A j \in S : \E k \in 1 .. n : s[k] = j
  <2>1. s \in Injection(1 .. n, S)
    BY <1>1, <1>4 DEF Injection, IsInjective
  <2>2. Cardinality(1 .. n) = Cardinality(S)
    BY <1>1, FS_Interval DEF n
  <2>3. s \in Surjection(1 .. n, S)
    BY <1>1, <2>1, <2>2, FS_Injection
  <2> QED  BY <2>3 DEF Surjection
<1>6. ASSUME NEW k \in 1 .. n PROVE Place(s[k], S) = k - 1
  <2> DEFINE K == 1 .. k - 1
             B == Before(s[k], S)
             f == [i \in K |-> s[i]]
  <2>1. k \in Nat /\ k >= 1 /\ IsFiniteSet(K) /\ Cardinality(K) = k - 1
    <3>1. IsFiniteSet(1 .. k - 1) /\ Cardinality(1 .. k - 1) = IF 1 > k - 1 THEN 0 ELSE (k - 1) - 1 + 1
      BY FS_Interval
    <3> QED  BY <1>1, <3>1
  <2>2. \A i \in 1 .. n : i \in K <=> i < k
    BY <1>1
  <2>3. K \subseteq 1 .. n
    BY <1>1
  <2>4. \A i \in K : f[i] \in B
    BY <1>1, <1>3, <2>2, <2>3 DEF Before, Newer
  <2>5. \A j \in B : \E i \in K : f[i] = j
    <3> SUFFICES ASSUME NEW j \in B PROVE \E i \in K : f[i] = j
      OBVIOUS
    <3>1. j \in S /\ j > s[k]
      BY DEF Before, Newer
    <3>2. PICK i \in 1 .. n : s[i] = j
      BY <1>5, <3>1
    <3>3. i \in K
      BY <1>3, <2>2, <3>1, <3>2
    <3> QED  BY <3>2, <3>3
  <2>6. \A i, l \in K : f[i] = f[l] => i = l
    BY <1>4, <2>3
  <2>7. f \in [K -> B]
    <3> HIDE DEF K, B
    <3> QED  BY <2>4
  <2> HIDE DEF K, B, f
  <2>8. f \in Bijection(K, B)
    BY <2>5, <2>6, <2>7, Zenon DEF Bijection, Injection, Surjection, IsInjective
  <2>9. ExistsBijection(K, B)
    BY <2>8, Zenon DEF ExistsBijection
  <2> QED  BY <2>1, <2>9, FS_Bijection DEF Place, B
<1>7. ASSUME NEW j \in S PROVE s[Place(j, S) + 1] = j
  <2>1. PICK k \in 1 .. n : s[k] = j
    BY <1>5
  <2>2. Place(j, S) + 1 = k
    BY <1>1, <1>6, <2>1
  <2> QED  BY <2>1, <2>2
<1> QED  BY <1>6, <1>7 DEF s, n

-----------------------------------------------------------------------------
(* Pages.                                                                  *)

\* Page k of the listing S, with z jobs a page.
PageOf(S, k, z) ==
    LET end == End(Start(k, z), z)
    IN  [items |-> SubSeq(InOrder(S), Start(k, z) + 1,
                          IF end < Len(InOrder(S)) THEN end ELSE Len(InOrder(S))),
         total |-> Len(InOrder(S))]

LEMMA PagesFollow ==
    ASSUME NEW k \in Nat \ {0}, NEW z \in Nat \ {0}
    PROVE  /\ Start(k, z) \in Nat /\ End(Start(k, z), z) = Start(k + 1, z)
           /\ Start(k + 1, z) = k * z /\ Start(k + 1, z) = Start(k, z) + z
           /\ Start(1, z) = 0
<1>1. \A a, b \in Nat : a * b \in Nat
  OBVIOUS
<1>2. k - 1 \in Nat /\ (k + 1) - 1 = k /\ 1 - 1 = 0
  OBVIOUS
<1>3. k * z = (k - 1) * z + z
  OBVIOUS
<1>4. 0 * z = 0
  OBVIOUS
<1> QED  BY <1>1, <1>2, <1>3, <1>4 DEF Start, End

\* What a page of a listing is: the jobs of its places, as many as there are.
LEMMA PageIs ==
    ASSUME NEW S \in SUBSET Jobs, NEW k \in Nat \ {0}, NEW z \in Nat \ {0}
    PROVE  LET page == PageOf(S, k, z)
               a == Start(k, z)
               n == Cardinality(S)
           IN  /\ page.total = n /\ page.items \in Seq(S)
               /\ Len(page.items) <= z
               /\ Len(page.items) < z => a + Len(page.items) >= n
               /\ \A i \in DOMAIN page.items : Place(page.items[i], S) = a + i - 1
               /\ \A i, l \in DOMAIN page.items : i < l => page.items[i] > page.items[l]
               /\ \A j \in S : a <= Place(j, S) /\ Place(j, S) < a + z => j \in Range(page.items)
<1> DEFINE s == InOrder(S)
           n == Cardinality(S)
           a == Start(k, z)
           b == IF a + z < n THEN a + z ELSE n
           t == SubSeq(s, a + 1, b)
<1>1. /\ n \in Nat /\ a \in Nat /\ b \in Nat /\ z \in Nat /\ z >= 1
      /\ b <= n /\ b <= a + z
  <2>1. n \in Nat
    BY JobsAreFinite
  <2>2. a \in Nat
    BY PagesFollow, Zenon
  <2> HIDE DEF n, a
  <2> QED  BY <2>1, <2>2
<1>2. s \in [1 .. n -> S] /\ Len(s) = n
  <2>1. s \in [1 .. n -> S]
    BY InOrderIsSorted
  <2> HIDE DEF s, n
  <2> QED  BY <1>1, <2>1
<1>3. PageOf(S, k, z) = [items |-> t, total |-> n]
  BY <1>2 DEF PageOf, End
<1>4. /\ \A i \in 1 .. n : s[i] \in S /\ Place(s[i], S) = i - 1
      /\ \A i, l \in 1 .. n : i < l => s[i] > s[l]
      /\ \A j \in S : s[Place(j, S) + 1] = j /\ Place(j, S) \in Nat /\ Place(j, S) < n
  <2>1. \A i \in 1 .. n : s[i] \in S /\ Place(s[i], S) = i - 1
    BY <1>2, PlacesInOrder
  <2>2. \A i, l \in 1 .. n : i < l => s[i] > s[l]
    BY <1>2, InOrderIsSorted DEF Sorted, Newer
  <2>3. \A j \in S : s[Place(j, S) + 1] = j /\ Place(j, S) \in Nat /\ Place(j, S) < n
    BY PlacesInOrder, PlaceIsNatural
  <2> QED  BY <2>1, <2>2, <2>3
<1> DEFINE m == b - (a + 1) + 1
<1>5. /\ t \in Seq(S) /\ Len(t) = IF a + 1 <= b THEN m ELSE 0
      /\ \A i \in 1 .. m : t[i] = s[a + 1 + i - 1]
  <2>1. a + 1 \in Int /\ b \in Int
    BY <1>1
  <2>2. \A i \in a + 1 .. b : s[i] \in S
    <3> HIDE DEF a, b, n, s
    <3> QED  BY <1>1, <1>4
  <2> HIDE DEF a, b, n, s
  <2> QED  BY <2>1, <2>2, SubSeqProperties
<1>6. b = a + z \/ b = n
  OBVIOUS
<1>7. a + z < n => b = a + z
  OBVIOUS
<1> HIDE DEF s, n, a, b, t
<1>8. /\ Len(t) \in Nat /\ DOMAIN t = 1 .. Len(t)
      /\ \A i \in DOMAIN t : i \in Nat /\ i >= 1 /\ a + i \in 1 .. n /\ t[i] = s[a + i]
  <2>1. Len(t) \in Nat /\ DOMAIN t = 1 .. Len(t)
    BY <1>5
  <2>2. ASSUME NEW i \in DOMAIN t
        PROVE  i \in Nat /\ i >= 1 /\ a + i \in 1 .. n /\ t[i] = s[a + i]
    <3>1. i \in 1 .. m /\ i \in Nat /\ i >= 1 /\ i <= b - a
      <4>1. a \in Int /\ b \in Int /\ i \in 1 .. Len(t)
        BY <1>1, <2>1, <2>2
      <4>2. a + 1 <= b /\ Len(t) = m
        BY <1>5, <4>1
      <4> QED  BY <4>1, <4>2
    <3>2. a + 1 + i - 1 = a + i
      BY <1>1, <3>1
    <3> HIDE DEF m
    <3> QED  BY <1>1, <1>5, <3>1, <3>2
  <2> QED  BY <2>1, <2>2
<1>9. Len(t) <= z /\ (Len(t) < z => a + Len(t) >= n)
  <2>1. CASE a + 1 <= b
    <3>1. Len(t) = b - a
      BY <1>1, <1>5, <2>1
    <3> QED  BY <1>1, <1>6, <3>1
  <2>2. CASE ~(a + 1 <= b)
    <3>1. Len(t) = 0
      BY <1>5, <2>2
    <3> QED  BY <1>1, <1>6, <2>2, <3>1
  <2> QED  BY <2>1, <2>2
<1>10. \A i \in DOMAIN t : Place(t[i], S) = a + i - 1
  <2> SUFFICES ASSUME NEW i \in DOMAIN t PROVE Place(t[i], S) = a + i - 1
    OBVIOUS
  <2> DEFINE p == a + i
  <2>1. p \in 1 .. n /\ t[i] = s[p]
    BY <1>8
  <2> HIDE DEF p
  <2>2. Place(t[i], S) = p - 1
    BY <1>4, <2>1
  <2>3. p - 1 = a + i - 1
    BY <1>1, <1>8 DEF p
  <2> QED  BY <2>2, <2>3
<1>11. ASSUME NEW i \in DOMAIN t, NEW l \in DOMAIN t, i < l PROVE t[i] > t[l]
  <2>1. a + i < a + l /\ a + i \in 1 .. n /\ a + l \in 1 .. n
    BY <1>1, <1>8, <1>11
  <2> QED  BY <1>4, <1>8, <2>1
<1>12. ASSUME NEW j \in S, a <= Place(j, S), Place(j, S) < a + z PROVE j \in Range(t)
  <2> DEFINE p == Place(j, S)
             i == p + 1 - a
  <2>1. p \in Nat /\ p < n /\ a <= p /\ p < a + z /\ s[p + 1] = j
    BY <1>4, <1>12
  <2> HIDE DEF p
  <2>2. i \in DOMAIN t /\ a + i = p + 1
    BY <1>1, <1>5, <1>6, <1>8, <2>1
  <2>3. t[i] = j
    BY <1>8, <2>1, <2>2
  <2> QED  BY <2>2, <2>3 DEF Range
<1> QED  BY <1>3, <1>5, <1>8, <1>9, <1>10, <1>11, <1>12 DEF n, a

-----------------------------------------------------------------------------
(* The reader.                                                             *)

\* The listing the reader would get now, and where its next page begins.
Now == Listed(memory)
Ahead == Start(reader.page, reader.size)

APage == [items : Seq(Jobs), total : Nat]

\* Each page it has is the page of some listing.
PagesPart ==
    /\ reader \in [doing : {"idle", "reading", "done"}, plugin : {reader.plugin},
                   status : {reader.status}, size : Nat \ {0}, page : Nat \ {0}]
    /\ pages \in Seq(APage) /\ reader.page = Len(pages) + 1
    /\ reader.doing = "idle" => pages = <<>>
    /\ \A k \in DOMAIN pages : \E S \in SUBSET Jobs : pages[k] = PageOf(S, k, reader.size)

\* What was in the listing all the time is on a page or still ahead.
SkipPart ==
    ~departed =>
      /\ reader.doing = "reading" => /\ stayed \subseteq Now
                                     /\ \A j \in stayed \ Seen : Ahead <= Place(j, Now)
      /\ reader.doing = "done" => stayed \subseteq Seen

\* What is on a page is behind, if it is still in the listing.
RepeatPart ==
    ~arrived =>
      /\ \A p \in Positions : ItemAt(p) \in Now => Place(ItemAt(p), Now) < Ahead
      /\ \A p, q \in Positions : ItemAt(p) = ItemAt(q) => p = q

ReadInv == PagesPart /\ SkipPart /\ RepeatPart

LEMMA NoPages ==
    ASSUME pages = <<>> PROVE Seen = {} /\ Positions = {}
<1>1. DOMAIN pages = {}
  OBVIOUS
<1>2. Positions = {}
  BY <1>1 DEF Positions
<1>3. Seen = {}
  BY <1>1, Zenon DEF Seen
<1> QED  BY <1>2, <1>3

LEMMA ReadInit == Init => ReadInv
<1> SUFFICES ASSUME Init PROVE ReadInv
  OBVIOUS
<1>1. /\ pages = <<>> /\ reader.doing = "idle" /\ reader.page = 1 /\ reader.size = 1
      /\ reader \in [doing : {"idle", "reading", "done"}, plugin : {reader.plugin},
                     status : {reader.status}, size : Nat \ {0}, page : Nat \ {0}]
  BY DEF Init, NoReader
<1>2. Positions = {}
  BY <1>1, NoPages
<1>3. PagesPart
  BY <1>1 DEF PagesPart
<1> QED  BY <1>1, <1>2, <1>3 DEF ReadInv, SkipPart, RepeatPart

LEMMA StartKeeps == ASSUME ReadInv, StartReading PROVE ReadInv'
<1>1. PICK f \in Filters, z \in PageSizes :
        reader' = [doing |-> "reading", plugin |-> f.plugin, status |-> f.status,
                   size |-> z, page |-> 1]
  BY DEF StartReading
<1>2. z \in Nat \ {0}
  BY PageSizesAssumption
<1>3. /\ reader'.doing = "reading" /\ reader'.size = z /\ reader'.page = 1
      /\ reader' \in [doing : {"idle", "reading", "done"}, plugin : {reader'.plugin},
                      status : {reader'.status}, size : Nat \ {0}, page : Nat \ {0}]
  BY <1>1, <1>2
<1>4. pages = <<>> /\ pages' = <<>> /\ stayed' = Now'
  BY DEF StartReading, ReadInv, PagesPart, Now
<1>5. Positions' = {}
  <2>1. DOMAIN pages' = {}
    BY <1>4
  <2> QED  BY <2>1 DEF Positions
<1>6. PagesPart'
  BY <1>3, <1>4 DEF PagesPart
<1>7. Ahead' = 0
  <2>1. Start(1, z) = 0
    BY <1>2, PagesFollow, Zenon
  <2> QED  BY <1>3, <2>1 DEF Ahead, Start
<1>8. \A j \in Now' : Place(j, Now') \in Nat
  <2>1. Now' \in SUBSET Jobs
    BY DEF Now, Listed
  <2> HIDE DEF Now
  <2> QED  BY <2>1, PlaceIsNatural
<1>9. \A j \in Now' : Ahead' <= Place(j, Now')
  BY <1>7, <1>8
<1>10. SkipPart'
  <2>1. reader'.doing # "done"
    BY <1>3
  <2>2. \A j \in stayed' : Ahead' <= Place(j, Now)'
    BY <1>4, <1>9 DEF Place, Before, Newer
  <2> QED  BY <1>4, <2>1, <2>2 DEF SkipPart
<1> QED  BY <1>5, <1>6, <1>10 DEF ReadInv, RepeatPart

LEMMA ObserveKeeps == ASSUME ReadInv, NEW m, Observe(m) PROVE ReadInv'
<1> DEFINE new == Listed(m)
<1>1. /\ reader' = reader /\ pages' = pages /\ reader.doing # "done"
      /\ reader.doing \in {"idle", "reading"}
  BY DEF Observe, ReadInv, PagesPart
<1>2. Now' = new /\ new \in SUBSET Jobs /\ Now \in SUBSET Jobs
  BY <1>1 DEF Observe, Now, Listed
<1>3. Seen' = Seen /\ Positions' = Positions /\ Ahead' = Ahead
  BY <1>1 DEF Seen, Positions, Ahead, Start
<1>4. \A p : ItemAt(p)' = ItemAt(p)
  BY <1>1 DEF ItemAt
<1>5. \A j : Place(j, Now)' = Place(j, new)
  BY <1>2 DEF Place, Before, Newer
<1>6. ASSUME reader.doing = "reading"
      PROVE  /\ stayed' = stayed \cap new
             /\ (~departed') => ~departed /\ Now \subseteq new
             /\ (~arrived') => ~arrived /\ new \subseteq Now
  BY <1>6 DEF Observe, Now
<1> HIDE DEF new
<1>7. PagesPart'
  BY <1>1 DEF ReadInv, PagesPart, APage
<1>8. CASE reader.doing = "idle"
  <2>1. Positions = {}
    BY <1>8, NoPages DEF ReadInv, PagesPart
  <2> QED  BY <1>1, <1>3, <1>7, <1>8, <2>1 DEF ReadInv, SkipPart, RepeatPart
<1>9. CASE reader.doing = "reading"
  <2>1. SkipPart'
    <3> SUFFICES ASSUME ~departed'
                 PROVE  /\ stayed' \subseteq new
                        /\ \A j \in stayed' \ Seen : Ahead <= Place(j, new)
      <4>1. reader'.doing # "done"
        BY <1>1
      <4> QED  BY <1>2, <1>3, <1>5, <4>1, Zenon DEF SkipPart
    <3>1. stayed' \subseteq new /\ ~departed /\ Now \in SUBSET new /\ stayed' \subseteq stayed
      BY <1>6, <1>9
    <3>2. ASSUME NEW j \in stayed' \ Seen PROVE Ahead <= Place(j, new)
      <4>1. Ahead <= Place(j, Now) /\ j \in Now
        BY <1>9, <3>1 DEF ReadInv, SkipPart
      <4>2. Place(j, Now) <= Place(j, new) /\ Place(j, Now) \in Nat /\ Place(j, new) \in Nat
        BY <1>2, <3>1, <4>1, PlaceGrows, PlaceIsNatural
      <4>3. Ahead \in Nat
        BY PagesFollow DEF Ahead, ReadInv, PagesPart
      <4> QED  BY <4>1, <4>2, <4>3
    <3> QED  BY <3>1, <3>2
  <2>2. RepeatPart'
    <3> SUFFICES ASSUME ~arrived'
                 PROVE  /\ \A p \in Positions : ItemAt(p) \in new => Place(ItemAt(p), new) < Ahead
                        /\ \A p, q \in Positions : ItemAt(p) = ItemAt(q) => p = q
      BY <1>2, <1>3, <1>4, <1>5, Zenon DEF RepeatPart
    <3>1. ~arrived /\ new \in SUBSET Now
      BY <1>6, <1>9
    <3>2. ASSUME NEW p \in Positions, ItemAt(p) \in new PROVE Place(ItemAt(p), new) < Ahead
      <4> DEFINE j == ItemAt(p)
      <4>1. j \in Now /\ Place(j, Now) < Ahead
        BY <3>1, <3>2 DEF ReadInv, RepeatPart
      <4> HIDE DEF j
      <4>2. Place(j, new) <= Place(j, Now) /\ Place(j, Now) \in Nat /\ Place(j, new) \in Nat
        BY <1>2, <3>1, <4>1, PlaceGrows, PlaceIsNatural
      <4>3. Ahead \in Nat
        BY PagesFollow DEF Ahead, ReadInv, PagesPart
      <4>4. Place(j, new) < Ahead
        BY <4>1, <4>2, <4>3
      <4> QED  BY <4>4 DEF j
    <3> QED  BY <3>1, <3>2 DEF ReadInv, RepeatPart
  <2> QED  BY <1>7, <2>1, <2>2 DEF ReadInv
<1> QED  BY <1>1, <1>8, <1>9

LEMMA GetPageKeeps == ASSUME ReadInv, GetPage PROVE ReadInv'
<1> DEFINE n == Len(pages)
           z == reader.size
           k == reader.page
           P == PageOf(Now, k, z)
           L == Cardinality(Now)
           next == Start(k + 1, z)
<1>1. /\ z \in Nat \ {0} /\ k \in Nat \ {0} /\ n \in Nat /\ k = n + 1
      /\ pages \in Seq(APage) /\ reader.doing = "reading"
  BY DEF GetPage, ReadInv, PagesPart
<1>2. Now \in SUBSET Jobs /\ L \in Nat
  <2>1. Now \in SUBSET Jobs
    BY DEF Now, Listed
  <2> QED  BY <2>1, JobsAreFinite
<1>3. Page = P
  BY DEF Page, PageOf, Items, Now
<1>4. /\ P.total = L /\ P.items \in Seq(Now)
      /\ \A i \in DOMAIN P.items : Place(P.items[i], Now) = Ahead + i - 1
      /\ \A i, l \in DOMAIN P.items : i < l => P.items[i] > P.items[l]
      /\ \A j \in Now : Ahead <= Place(j, Now) /\ Place(j, Now) < Ahead + z => j \in Range(P.items)
      /\ Len(P.items) <= z
  BY <1>1, <1>2, PageIs, Zenon DEF Ahead
<1>5. /\ Ahead \in Nat /\ next = Ahead + z /\ next = k * z
  BY <1>1, PagesFollow, Zenon DEF Ahead
<1>6. P \in APage
  <2>1. P.items \in Seq(Jobs) /\ P.total \in Nat
    <3>1. P.items \in Seq(Jobs)
      <4> DEFINE t == P.items
      <4>1. t \in Seq(Now)
        BY <1>4
      <4> HIDE DEF t, P
      <4>2. t \in Seq(Jobs)
        BY <1>2, <4>1
      <4> QED  BY <4>2 DEF t
    <3> QED  BY <1>2, <1>4, <3>1
  <2>2. P = [items |-> P.items, total |-> P.total]
    BY DEF PageOf
  <2> HIDE DEF P
  <2> QED  BY <2>1, <2>2 DEF APage
<1> HIDE DEF P
<1>7. /\ pages' = Append(pages, P) /\ stayed' = stayed /\ memory' = memory
      /\ arrived' = arrived /\ departed' = departed
  BY <1>3 DEF GetPage
<1>8. /\ reader'.page = k + 1 /\ reader'.size = z /\ reader'.plugin = reader.plugin
      /\ reader'.status = reader.status
      /\ reader'.doing = IF k * z < L THEN "reading" ELSE "done"
      /\ reader' \in [doing : {"idle", "reading", "done"}, plugin : {reader'.plugin},
                      status : {reader'.status}, size : Nat \ {0}, page : Nat \ {0}]
  <2> DEFINE doing == IF k * z < L THEN "reading" ELSE "done"
  <2>1. reader' = [reader EXCEPT !.page = @ + 1, !.doing = doing]
    BY <1>1, <1>3, <1>4 DEF GetPage
  <2>2. doing \in {"idle", "reading", "done"}
    OBVIOUS
  <2> HIDE DEF doing
  <2>3. reader'.page = k + 1 /\ reader'.size = z /\ reader'.plugin = reader.plugin
        /\ reader'.status = reader.status /\ reader'.doing = doing
        /\ reader' \in [doing : {"idle", "reading", "done"}, plugin : {reader.plugin},
                        status : {reader.status}, size : Nat \ {0}, page : Nat \ {0}]
    <3> DEFINE r == reader
    <3>1. r \in [doing : {"idle", "reading", "done"}, plugin : {r.plugin},
                 status : {r.status}, size : Nat \ {0}, page : Nat \ {0}]
      BY DEF ReadInv, PagesPart
    <3>2. r.page + 1 \in Nat \ {0}
      BY <1>1
    <3>3. reader' = [r EXCEPT !.page = r.page + 1, !.doing = doing]
      BY <2>1
    <3> HIDE DEF r
    <3>4. reader'.page = r.page + 1 /\ reader'.size = r.size /\ reader'.plugin = r.plugin
          /\ reader'.status = r.status /\ reader'.doing = doing
          /\ reader' \in [doing : {"idle", "reading", "done"}, plugin : {r.plugin},
                          status : {r.status}, size : Nat \ {0}, page : Nat \ {0}]
      BY <2>2, <3>1, <3>2, <3>3
    <3> QED  BY <3>4 DEF r
  <2> QED  BY <2>3 DEF doing
<1>9. /\ pages' \in Seq(APage) /\ Len(pages') = n + 1
      /\ DOMAIN pages = 1 .. n /\ DOMAIN pages' = 1 .. n + 1
      /\ \A i \in 1 .. n : pages'[i] = pages[i]
      /\ pages'[n + 1] = P
  BY <1>1, <1>6, <1>7
<1>10. Now' = Now
  BY <1>7, <1>8 DEF Now, Listed
<1>11. Ahead' = next
  BY <1>8 DEF Ahead, Start
<1>12. PagesPart'
  <2>1. ASSUME NEW i \in DOMAIN pages'
        PROVE  \E S \in SUBSET Jobs : pages'[i] = PageOf(S, i, reader'.size)
    <3>1. CASE i \in 1 .. n
      <4>1. \E S \in SUBSET Jobs : pages[i] = PageOf(S, i, z)
        BY <1>9, <3>1 DEF ReadInv, PagesPart
      <4> QED  BY <1>8, <1>9, <3>1, <4>1
    <3>2. CASE i = n + 1
      BY <1>1, <1>2, <1>8, <1>9, <3>2 DEF P
    <3> QED  BY <1>1, <1>9, <3>1, <3>2
  <2>2. reader'.doing # "idle"
    BY <1>8
  <2> QED  BY <1>1, <1>8, <1>9, <2>1, <2>2 DEF PagesPart
<1>13. Seen' = Seen \cup Range(P.items)
  <2>1. \A j : j \in Seen <=> \E i \in 1 .. n : j \in Range(pages[i].items)
    BY <1>9, Zenon DEF Seen
  <2>2. \A j : j \in Seen' <=> \E i \in 1 .. n + 1 : j \in Range(pages'[i].items)
    BY <1>9, Zenon DEF Seen
  <2>3. \A i : i \in 1 .. n + 1 <=> i \in 1 .. n \/ i = n + 1
    BY <1>1
  <2> QED  BY <1>9, <2>1, <2>2, <2>3
<1>14. \A j \in Now : Place(j, Now) \in Nat /\ Place(j, Now) < L
  BY <1>2, PlaceIsNatural
<1>15. SkipPart'
  <2> SUFFICES ASSUME ~departed
               PROVE  /\ reader'.doing = "reading" =>
                           /\ stayed \subseteq Now
                           /\ \A j \in stayed \ Seen' : next <= Place(j, Now)
                      /\ reader'.doing = "done" => stayed \subseteq Seen'
    BY <1>7, <1>10, <1>11, Zenon DEF SkipPart
  <2>1. stayed \subseteq Now /\ \A j \in stayed \ Seen : Ahead <= Place(j, Now)
    BY <1>1 DEF ReadInv, SkipPart
  <2>2. ASSUME NEW j \in stayed \ Seen' PROVE next <= Place(j, Now)
    <3>1. j \in Now /\ Ahead <= Place(j, Now) /\ j \notin Range(P.items)
      BY <1>13, <2>1
    <3>2. ~(Place(j, Now) < Ahead + z)
      BY <1>4, <3>1
    <3> QED  BY <1>1, <1>5, <1>14, <3>1, <3>2
  <2>3. reader'.doing = "done" => stayed \subseteq Seen'
    <3> SUFFICES ASSUME reader'.doing = "done", NEW j \in stayed \ Seen' PROVE FALSE
      OBVIOUS
    <3>1. ~(next < L)
      BY <1>5, <1>8
    <3>2. next <= Place(j, Now) /\ j \in Now
      BY <2>1, <2>2
    <3> QED  BY <1>1, <1>2, <1>5, <1>14, <3>1, <3>2
  <2> QED  BY <2>1, <2>2, <2>3
<1>16. ASSUME NEW p \in Positions'
       PROVE  \/ p \in Positions /\ ItemAt(p)' = ItemAt(p)
              \/ p[1] = n + 1 /\ p[2] \in DOMAIN P.items /\ ItemAt(p)' = P.items[p[2]]
  <2>1. /\ p \in (1 .. n + 1) \X (1 .. NumJobs) /\ p[2] <= Len(pages'[p[1]].items)
    BY <1>9 DEF Positions
  <2>2. CASE p[1] \in 1 .. n
    BY <1>9, <2>1, <2>2 DEF Positions, ItemAt
  <2>3. CASE p[1] = n + 1
    <3>1. p[2] \in 1 .. Len(P.items)
      <4>1. p[2] \in 1 .. NumJobs /\ p[2] <= Len(P.items)
        BY <1>9, <2>1, <2>3
      <4>2. Len(P.items) \in Nat
        BY <1>4
      <4> QED  BY <4>1, <4>2
    <3>2. DOMAIN P.items = 1 .. Len(P.items)
      BY <1>4
    <3> QED  BY <1>9, <2>3, <3>1, <3>2 DEF ItemAt
  <2> QED  BY <1>1, <2>1, <2>2, <2>3
<1>17. \A i \in DOMAIN P.items :
         /\ P.items[i] \in Now /\ i \in Nat
         /\ Ahead <= Place(P.items[i], Now) /\ Place(P.items[i], Now) < next
  <2> SUFFICES ASSUME NEW i \in DOMAIN P.items
               PROVE  /\ P.items[i] \in Now /\ i \in Nat
                      /\ Ahead <= Place(P.items[i], Now) /\ Place(P.items[i], Now) < next
    OBVIOUS
  <2>1. /\ P.items[i] \in Now /\ i \in Nat /\ i >= 1 /\ i <= Len(P.items) /\ Len(P.items) \in Nat
    BY <1>4
  <2>2. Place(P.items[i], Now) = Ahead + i - 1
    BY <1>4
  <2> QED  BY <1>1, <1>4, <1>5, <2>1, <2>2, SMTT(30)
<1>18. RepeatPart'
  <2> SUFFICES ASSUME ~arrived
               PROVE  /\ \A p \in Positions' :
                            ItemAt(p)' \in Now => Place(ItemAt(p)', Now) < next
                      /\ \A p, q \in Positions' : ItemAt(p)' = ItemAt(q)' => p = q
    BY <1>7, <1>10, <1>11, Zenon DEF RepeatPart
  <2>1. /\ \A p \in Positions : ItemAt(p) \in Now => Place(ItemAt(p), Now) < Ahead
        /\ \A p, q \in Positions : ItemAt(p) = ItemAt(q) => p = q
    BY DEF ReadInv, RepeatPart
  <2>2. ASSUME NEW p \in Positions', ItemAt(p)' \in Now PROVE Place(ItemAt(p)', Now) < next
    <3>1. CASE p \in Positions /\ ItemAt(p)' = ItemAt(p)
      <4> DEFINE j == ItemAt(p)
      <4>1. Place(j, Now) < Ahead /\ Place(j, Now) \in Nat
        BY <1>14, <2>1, <2>2, <3>1
      <4> HIDE DEF j
      <4>2. Place(j, Now) < next
        BY <1>1, <1>5, <4>1
      <4> QED  BY <3>1, <4>2 DEF j
    <3>2. CASE p[2] \in DOMAIN P.items /\ ItemAt(p)' = P.items[p[2]]
      BY <1>17, <3>2
    <3> QED  BY <1>16, <3>1, <3>2
  <2>3. ASSUME NEW p \in Positions', NEW q \in Positions', ItemAt(p)' = ItemAt(q)',
               p \in Positions, ItemAt(p)' = ItemAt(p),
               q[2] \in DOMAIN P.items, ItemAt(q)' = P.items[q[2]]
        PROVE  FALSE
    <3> DEFINE j == ItemAt(p)
    <3>1. j \in Now /\ Ahead <= Place(j, Now) /\ Place(j, Now) < Ahead
      BY <1>17, <2>1, <2>3
    <3> HIDE DEF j
    <3> QED  BY <1>5, <1>14, <3>1
  <2>4. ASSUME NEW p \in Positions', NEW q \in Positions', ItemAt(p)' = ItemAt(q)' PROVE p = q
    <3>1. CASE p \in Positions /\ q \in Positions /\ ItemAt(p)' = ItemAt(p) /\ ItemAt(q)' = ItemAt(q)
      BY <2>1, <2>4, <3>1
    <3>2. CASE /\ p[1] = n + 1 /\ p[2] \in DOMAIN P.items /\ ItemAt(p)' = P.items[p[2]]
               /\ q[1] = n + 1 /\ q[2] \in DOMAIN P.items /\ ItemAt(q)' = P.items[q[2]]
      <4>1. P.items[p[2]] \in Nat /\ P.items[p[2]] = P.items[q[2]]
        BY <1>2, <1>17, <2>4, <3>2, JobsAreNatural
      <4>2. p[2] \in Nat /\ q[2] \in Nat
        BY <1>17, <3>2
      <4>3. ~(p[2] < q[2]) /\ ~(q[2] < p[2])
        BY <1>4, <3>2, <4>1
      <4>4. p[2] = q[2] /\ p[1] = q[1]
        BY <3>2, <4>2, <4>3
      <4>5. p = <<p[1], p[2]>> /\ q = <<q[1], q[2]>>
        BY DEF Positions
      <4> QED  BY <4>4, <4>5
    <3> QED  BY <1>16, <2>3, <2>4, <3>1, <3>2
  <2> QED  BY <2>2, <2>4
<1> QED  BY <1>12, <1>15, <1>18 DEF ReadInv

LEMMA ReadNext == ReadInv /\ [Next]_vars => ReadInv'
<1> SUFFICES ASSUME ReadInv, [Next]_vars PROVE ReadInv'
  OBVIOUS
<1>1. ASSUME NEW j \in Jobs, Submit(j) \/ Progress(j) \/ Poll(j) PROVE \E m : Observe(m)
  BY <1>1 DEF Submit, Progress, Poll
<1>2. Clear => \E m : Observe(m)
  BY DEF Clear
<1>3. CASE UNCHANGED vars
  <2>1. /\ reader' = reader /\ pages' = pages /\ memory' = memory /\ stayed' = stayed
        /\ arrived' = arrived /\ departed' = departed
    BY <1>3 DEF vars
  <2>2. Now' = Now /\ Seen' = Seen /\ Positions' = Positions /\ Ahead' = Ahead
    BY <2>1 DEF Now, Listed, Seen, Positions, Ahead, Start
  <2>3. \A p : ItemAt(p)' = ItemAt(p)
    BY <2>1 DEF ItemAt
  <2>4. PagesPart'
    BY <2>1 DEF ReadInv, PagesPart, APage
  <2>5. SkipPart'
    BY <2>1, <2>2, Zenon DEF ReadInv, SkipPart
  <2>6. RepeatPart'
    BY <2>1, <2>2, <2>3, Zenon DEF ReadInv, RepeatPart
  <2> QED  BY <2>4, <2>5, <2>6 DEF ReadInv
<1> QED  BY <1>1, <1>2, <1>3, StartKeeps, GetPageKeeps, ObserveKeeps DEF Next

LEMMA ReadSafety == Spec => []ReadInv
BY ReadInit, ReadNext, PTL DEF Spec

\* Each page runs from newer to older and is as full as the total it names
\* allows, whatever the listing was when it was taken.
THEOREM PagesAreOrderedAndFull == Spec => []PageIsOrderedAndFull
<1>1. ReadInv => PageIsOrderedAndFull
  <2> SUFFICES ASSUME ReadInv, NEW k \in DOMAIN pages
               PROVE  LET page == pages[k]
                          before == (k - 1) * reader.size
                      IN  /\ \A i, l \in DOMAIN page.items : i < l => page.items[i] > page.items[l]
                          /\ Len(page.items) <= reader.size
                          /\ Len(page.items) < reader.size
                               => before + Len(page.items) >= page.total
    BY DEF PageIsOrderedAndFull
  <2>1. PICK S \in SUBSET Jobs : pages[k] = PageOf(S, k, reader.size)
    BY DEF ReadInv, PagesPart
  <2>2. k \in Nat \ {0} /\ reader.size \in Nat \ {0}
    BY DEF ReadInv, PagesPart
  <2>3. Start(k, reader.size) = (k - 1) * reader.size
    BY DEF Start
  <2>4. LET page == PageOf(S, k, reader.size)
        IN  /\ page.total = Cardinality(S)
            /\ Len(page.items) <= reader.size
            /\ Len(page.items) < reader.size
                 => Start(k, reader.size) + Len(page.items) >= Cardinality(S)
            /\ \A i, l \in DOMAIN page.items : i < l => page.items[i] > page.items[l]
    BY <2>2, PageIs, Zenon
  <2> QED  BY <2>1, <2>3, <2>4
<1> QED  BY <1>1, ReadSafety, PTL

\* A reader who was told that there is no more has seen every job that was in
\* the listing all the time, unless some job left it.
THEOREM NothingIsSkipped == Spec => []SkippedOnlyAfterDeparture
<1>1. ReadInv => SkippedOnlyAfterDeparture
  BY DEF ReadInv, SkipPart, SkippedOnlyAfterDeparture
<1> QED  BY <1>1, ReadSafety, PTL

\* No job is shown twice, unless some job entered the listing.
THEOREM NothingIsRepeated == Spec => []RepeatedOnlyAfterArrival
<1>1. ReadInv => RepeatedOnlyAfterArrival
  BY DEF ReadInv, RepeatPart, RepeatedOnlyAfterArrival
<1> QED  BY <1>1, ReadSafety, PTL

=============================================================================
