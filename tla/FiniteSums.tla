----------------------------- MODULE FiniteSums -----------------------------
(***************************************************************************)
(* Least elements, induction on finite sets, and sums.                     *)
(*                                                                         *)
(* The models add up with SumFunction, which is a fold, and a fold is a    *)
(* recursive function on the subsets of its domain.  The lemmas say what   *)
(* the proofs need to know of it: the sum is a number, one more summand is *)
(* added to it, and it grows with its summands.                            *)
(***************************************************************************)
EXTENDS FiniteSetTheorems, WellFoundedInduction, TLAPS

\* A set of natural numbers has a least one.
LEMMA LeastNumber ==
    ASSUME NEW T, T \subseteq Nat, T # {}
    PROVE  \E x \in T : \A y \in T : x <= y
<1> DEFINE less == {ss \in Nat \X Nat : ss[1] < ss[2]}
<1>1. IsWellFoundedOn(less, Nat)
  BY NatLessThanWellFounded, Zenon DEF OpToRel
<1>2. PICK x \in T : \A y \in T : ~(<<y, x>> \in less)
  BY <1>1, WFMin, Zenon
<1>3. ASSUME NEW y \in T PROVE x <= y
  <2>1. x \in Nat /\ y \in Nat
    OBVIOUS
  <2>2. <<y, x>> \in less <=> y < x
    BY <2>1
  <2> HIDE DEF less
  <2> QED  BY <1>2, <2>1, <2>2
<1> QED
  BY <1>3

\* Induction on the subsets of a finite set: what holds of a set whenever it
\* holds of the set without one of its elements, holds of all.
LEMMA SubsetInduction ==
    ASSUME NEW S, IsFiniteSet(S), NEW C,
           \A T \in SUBSET S : (\A x \in T : T \ {x} \in C) => T \in C
    PROVE  \A T \in SUBSET S : T \in C
<1> DEFINE B == (SUBSET S) \ C
<1> SUFFICES ASSUME B # {} PROVE FALSE
  OBVIOUS
<1>1. IsWellFoundedOn(StrictSubsetOrdering(S), SUBSET S)
  <2>1. FiniteSubsetsOf(S) = SUBSET S
    BY FS_FiniteSubsetsOfFinite
  <2>2. IsWellFoundedOn(StrictSubsetOrdering(S), FiniteSubsetsOf(S))
    BY FS_StrictSubsetOrderingWellFounded
  <2> QED  BY <2>1, <2>2
<1>2. PICK T \in B : \A U \in B : ~(<<U, T>> \in StrictSubsetOrdering(S))
  BY <1>1, WFMin, Zenon
<1>3. ASSUME NEW x \in T PROVE T \ {x} \in C
  <2> DEFINE U == T \ {x}
  <2>1. U \in SUBSET S /\ T \in SUBSET S /\ U \subseteq T /\ U # T
    OBVIOUS
  <2>2. <<U, T>> \in StrictSubsetOrdering(S)
    BY <2>1 DEF StrictSubsetOrdering
  <2> QED  BY <1>2, <2>1, <2>2
<1> QED  BY <1>2, <1>3

-----------------------------------------------------------------------------
(* The recursive function behind a sum.                                    *)

Some(T) == CHOOSE x \in T : TRUE

\* t is the table of the sums of f over the subsets of S.
Tabulates(t, f, S) ==
    t = [T \in SUBSET S |-> IF T = {} THEN 0 ELSE f[Some(T)] + t[T \ {Some(T)}]]

LEMMA SomeMember == ASSUME NEW T, T # {} PROVE Some(T) \in T
BY DEF Some

\* Tables of the subsets with fewer than n elements can be extended.
UpTo(S, n) == {T \in SUBSET S : Cardinality(T) <= n}
TabulatesUpTo(t, f, S, n) ==
    t = [T \in UpTo(S, n) |-> IF T = {} THEN 0 ELSE f[Some(T)] + t[T \ {Some(T)}]]

LEMMA TableExists ==
    ASSUME NEW f, NEW S, IsFiniteSet(S)
    PROVE  \E t : Tabulates(t, f, S)
<1> DEFINE B == {n \in Nat : ~\E t : TabulatesUpTo(t, f, S, n)}
<1>0. \A T \in SUBSET S : IsFiniteSet(T) /\ Cardinality(T) \in Nat /\ Cardinality(T) <= Cardinality(S)
  BY FS_Subset, FS_CardinalityType
<1>1. 0 \notin B
  <2>1. UpTo(S, 0) = {{}}
    BY <1>0, FS_EmptySet DEF UpTo
  <2>2. TabulatesUpTo([T \in UpTo(S, 0) |-> 0], f, S, 0)
    BY <2>1 DEF TabulatesUpTo
  <2> QED  BY <2>2
<1>2. ASSUME NEW n \in Nat, n \notin B PROVE n + 1 \notin B
  <2>1. PICK t : TabulatesUpTo(t, f, S, n)
    BY <1>2
  <2> DEFINE Row(T) == IF T = {} THEN 0 ELSE f[Some(T)] + t[T \ {Some(T)}]
             u == [T \in UpTo(S, n + 1) |-> Row(T)]
  <2>2. ASSUME NEW T \in UpTo(S, n) PROVE u[T] = t[T]
    <3>1. T \in UpTo(S, n + 1)
      BY <1>0 DEF UpTo
    <3> QED  BY <2>1, <3>1 DEF TabulatesUpTo
  <2>3. ASSUME NEW T \in UpTo(S, n + 1), T # {} PROVE T \ {Some(T)} \in UpTo(S, n)
    <3>1. T \in SUBSET S /\ Some(T) \in T
      BY <2>3, SomeMember DEF UpTo
    <3>2. Cardinality(T \ {Some(T)}) = Cardinality(T) - 1
      BY <1>0, <3>1, FS_RemoveElement
    <3>3. Cardinality(T) \in Nat /\ Cardinality(T) <= n + 1
      BY <1>0, <3>1 DEF UpTo
    <3> QED  BY <3>1, <3>2, <3>3 DEF UpTo
  <2>4. u = [T \in UpTo(S, n + 1) |-> IF T = {} THEN 0 ELSE f[Some(T)] + u[T \ {Some(T)}]]
    BY <2>2, <2>3
  <2> HIDE DEF u
  <2>5. TabulatesUpTo(u, f, S, n + 1)
    BY <2>4 DEF TabulatesUpTo
  <2> QED  BY <2>5
<1>3. B = {}
  <2> SUFFICES ASSUME B # {} PROVE FALSE
    OBVIOUS
  <2>1. PICK n \in B : \A k \in B : n <= k
    <3>1. B \subseteq Nat
      OBVIOUS
    <3> HIDE DEF B
    <3> QED  BY <3>1, LeastNumber
  <2>2. n \in Nat /\ n # 0
    BY <1>1
  <2>3. n - 1 \in Nat /\ n - 1 \notin B /\ (n - 1) + 1 = n
    BY <2>1, <2>2
  <2> QED  BY <1>2, <2>3
<1>4. PICK t : TabulatesUpTo(t, f, S, Cardinality(S))
  BY <1>3, FS_CardinalityType
<1>5. UpTo(S, Cardinality(S)) = SUBSET S
  BY <1>0 DEF UpTo
<1> QED  BY <1>4, <1>5 DEF TabulatesUpTo, Tabulates

LEMMA SumTabulated ==
    ASSUME NEW f, IsFiniteSet(DOMAIN f)
    PROVE  \E t : Tabulates(t, f, DOMAIN f) /\ SumFunction(f) = t[DOMAIN f]
<1> DEFINE t == CHOOSE t : Tabulates(t, f, DOMAIN f)
<1>1. Tabulates(t, f, DOMAIN f)
  BY TableExists
<1>2. SumFunction(f) = t[DOMAIN f]
  BY DEF SumFunction, SumFunctionOnSet, FoldFunctionOnSet, MapThenFoldSet, Tabulates, Some
<1> QED  BY <1>1, <1>2

-----------------------------------------------------------------------------
(* Tables of sums of integers.                                             *)

\* What is closed under addition holds the sums of its elements.
LEMMA TableType ==
    ASSUME NEW S, IsFiniteSet(S), NEW N, 0 \in N, \A a, b \in N : a + b \in N,
           NEW f, \A x \in S : f[x] \in N, NEW t, Tabulates(t, f, S)
    PROVE  \A T \in SUBSET S : t[T] \in N
<1> DEFINE C == {T \in SUBSET S : t[T] \in N}
<1>1. ASSUME NEW T \in SUBSET S, \A x \in T : T \ {x} \in C
      PROVE  T \in C
  <2>1. T # {} => Some(T) \in T
    BY SomeMember
  <2>2. t[T] = IF T = {} THEN 0 ELSE f[Some(T)] + t[T \ {Some(T)}]
    BY DEF Tabulates
  <2>3. CASE T = {}
    BY <2>2, <2>3
  <2>4. CASE T # {}
    <3> DEFINE x == Some(T)
    <3>1. f[x] \in N /\ t[T \ {x}] \in N /\ t[T] = f[x] + t[T \ {x}]
      BY <1>1, <2>1, <2>2, <2>4
    <3> HIDE DEF x
    <3>2. t[T] \in N
      BY <3>1
    <3> QED  BY <3>2
  <2> QED  BY <2>3, <2>4
<1>2. \A T \in SUBSET S : T \in C
  <2> HIDE DEF C
  <2> QED  BY <1>1, SubsetInduction
<1> QED  BY <1>2

\* Any element may be taken out first.
Removes(t, f, S) ==
    \A T \in SUBSET S : t[T] \in Int /\ \A x \in T : t[T] = f[x] + t[T \ {x}]

LEMMA TableRemoves ==
    ASSUME NEW S, IsFiniteSet(S), NEW f, \A x \in S : f[x] \in Int,
           NEW t, Tabulates(t, f, S)
    PROVE  Removes(t, f, S)
<1>0. \A T \in SUBSET S : t[T] \in Int
  <2>1. 0 \in Int /\ \A a, b \in Int : a + b \in Int
    OBVIOUS
  <2> QED  BY <2>1, TableType
<1> DEFINE Good(T) == \A x \in T : t[T] = f[x] + t[T \ {x}]
           C == {T \in SUBSET S : Good(T)}
<1>1. ASSUME NEW T \in SUBSET S, \A x \in T : T \ {x} \in C
      PROVE  T \in C
  <2>1. CASE T = {}
    BY <2>1 DEF Tabulates
  <2>2. CASE T # {}
    <3> DEFINE y == Some(T)
    <3>1. y \in T /\ t[T] = f[y] + t[T \ {y}]
      BY <2>2, SomeMember DEF Tabulates
    <3> HIDE DEF y
    <3>2. Good(T \ {y})
      BY <1>1, <3>1
    <3>3. f[y] \in Int /\ t[T] \in Int
      BY <1>0, <3>1
    <3>4. ASSUME NEW x \in T, x # y PROVE t[T] = f[x] + t[T \ {x}]
      <4>1. Good(T \ {x})
        BY <1>1
      <4>2. y \in T \ {x} /\ x \in T \ {y} /\ (T \ {x}) \ {y} = (T \ {y}) \ {x}
        BY <3>1, <3>4
      <4> DEFINE rest == t[(T \ {y}) \ {x}]
      <4>3. t[T \ {x}] = f[y] + rest /\ t[T \ {y}] = f[x] + rest
        BY <3>2, <4>1, <4>2
      <4>4. rest \in Int
        BY <1>0
      <4> HIDE DEF rest
      <4> QED  BY <3>1, <3>3, <4>3, <4>4
    <3> QED  BY <3>1, <3>3, <3>4
  <2> QED  BY <2>1, <2>2
<1>2. \A T \in SUBSET S : T \in C
  <2> HIDE DEF C
  <2> QED  BY <1>1, SubsetInduction
<1> QED  BY <1>0, <1>2 DEF Removes

\* A table only depends on the summands.
LEMMA TablesAgree ==
    ASSUME NEW S, IsFiniteSet(S), NEW R, NEW f, NEW g, NEW t, NEW u,
           Tabulates(t, f, S), Tabulates(u, g, R), S \subseteq R,
           \A x \in S : f[x] = g[x]
    PROVE  t[S] = u[S]
<1> DEFINE C == {T \in SUBSET S : t[T] = u[T]}
<1>1. ASSUME NEW T \in SUBSET S, \A x \in T : T \ {x} \in C
      PROVE  T \in C
  <2>1. T \in SUBSET R /\ (T # {} => Some(T) \in T)
    BY SomeMember
  <2>2. t[T] = IF T = {} THEN 0 ELSE f[Some(T)] + t[T \ {Some(T)}]
    BY DEF Tabulates
  <2>3. u[T] = IF T = {} THEN 0 ELSE g[Some(T)] + u[T \ {Some(T)}]
    BY <2>1 DEF Tabulates
  <2> QED  BY <1>1, <2>1, <2>2, <2>3
<1>2. \A T \in SUBSET S : T \in C
  <2> HIDE DEF C
  <2> QED  BY <1>1, SubsetInduction
<1> QED  BY <1>2

-----------------------------------------------------------------------------
(* Sums.                                                                   *)

Summands(f) == IsFiniteSet(DOMAIN f) /\ \A x \in DOMAIN f : f[x] \in Int

LEMMA SumIsInteger ==
    ASSUME NEW f, Summands(f)
    PROVE  SumFunction(f) \in Int
BY SumTabulated, TableRemoves DEF Summands, Removes

LEMMA SumIsNatural ==
    ASSUME NEW f, IsFiniteSet(DOMAIN f), \A x \in DOMAIN f : f[x] \in Nat
    PROVE  SumFunction(f) \in Nat
<1>1. 0 \in Nat /\ \A a, b \in Nat : a + b \in Nat
  OBVIOUS
<1>2. PICK t : Tabulates(t, f, DOMAIN f) /\ SumFunction(f) = t[DOMAIN f]
  BY SumTabulated
<1>3. \A T \in SUBSET DOMAIN f : t[T] \in Nat
  BY <1>1, <1>2, TableType, Zenon
<1> QED  BY <1>2, <1>3

LEMMA SumOfNothing ==
    ASSUME NEW f, DOMAIN f = {}
    PROVE  SumFunction(f) = 0
<1>1. PICK t : Tabulates(t, f, DOMAIN f) /\ SumFunction(f) = t[DOMAIN f]
  BY SumTabulated, FS_EmptySet
<1> QED  BY <1>1 DEF Tabulates

\* One more summand.
LEMMA SumExtended ==
    ASSUME NEW f, Summands(f), NEW g, NEW x, x \notin DOMAIN f,
           DOMAIN g = DOMAIN f \cup {x}, \A y \in DOMAIN f : g[y] = f[y], g[x] \in Int
    PROVE  SumFunction(g) = SumFunction(f) + g[x]
<1> DEFINE S == DOMAIN f
           R == DOMAIN g
<1>1. IsFiniteSet(S) /\ IsFiniteSet(R) /\ \A y \in R : g[y] \in Int
  BY FS_AddElement DEF Summands
<1>2. PICK t : Tabulates(t, f, S) /\ SumFunction(f) = t[S]
  BY <1>1, SumTabulated
<1>3. PICK u : Tabulates(u, g, R) /\ SumFunction(g) = u[R]
  BY <1>1, SumTabulated
<1>4. t[S] = u[S]
  <2>1. S \subseteq R /\ \A y \in S : f[y] = g[y]
    OBVIOUS
  <2> HIDE DEF S, R
  <2> QED  BY <1>1, <1>2, <1>3, <2>1, TablesAgree
<1>5. u[R] \in Int /\ u[S] \in Int /\ u[R] = g[x] + u[S]
  <2>1. R \ {x} = S /\ x \in R /\ R \in SUBSET R /\ S \in SUBSET R
    OBVIOUS
  <2>2. Removes(u, g, R)
    <3>1. IsFiniteSet(R) /\ (\A y \in R : g[y] \in Int) /\ Tabulates(u, g, R)
      BY <1>1, <1>3
    <3> HIDE DEF R, S
    <3> QED  BY <3>1, TableRemoves
  <2> QED  BY <2>1, <2>2 DEF Removes
<1> QED  BY <1>2, <1>3, <1>4, <1>5

\* A sum that is no smaller term by term is no smaller, and it is the same
\* only if it is the same term by term.
LEMMA SumMonotone ==
    ASSUME NEW f, Summands(f), NEW g, Summands(g), DOMAIN f = DOMAIN g,
           \A x \in DOMAIN f : f[x] <= g[x]
    PROVE  /\ SumFunction(f) <= SumFunction(g)
           /\ SumFunction(f) = SumFunction(g) => \A x \in DOMAIN f : f[x] = g[x]
<1> DEFINE S == DOMAIN f
<1>1. IsFiniteSet(S) /\ \A x \in S : f[x] \in Int /\ g[x] \in Int /\ f[x] <= g[x]
  BY DEF Summands
<1>2. PICK t : Tabulates(t, f, S) /\ SumFunction(f) = t[S]
  BY <1>1, SumTabulated
<1>3. PICK u : Tabulates(u, g, S) /\ SumFunction(g) = u[S]
  BY <1>1, SumTabulated
<1> HIDE DEF S
<1>4. Removes(t, f, S)
  <2>1. IsFiniteSet(S) /\ \A x \in S : f[x] \in Int
    BY <1>1
  <2> QED  BY <1>2, <2>1, TableRemoves
<1>5. Removes(u, g, S)
  <2>1. IsFiniteSet(S) /\ \A x \in S : g[x] \in Int
    BY <1>1
  <2> QED  BY <1>3, <2>1, TableRemoves
<1> DEFINE C == {T \in SUBSET S : /\ t[T] <= u[T]
                                  /\ t[T] = u[T] => \A x \in T : f[x] = g[x]}
<1>6. ASSUME NEW T \in SUBSET S, \A x \in T : T \ {x} \in C
      PROVE  T \in C
  <2>1. CASE T = {}
    BY <1>2, <1>3, <2>1 DEF Tabulates
  <2>2. CASE T # {}
    <3>1. PICK x \in T : TRUE
      BY <2>2
    <3> DEFINE U == T \ {x}
    <3>2. /\ t[T] = f[x] + t[U] /\ u[T] = g[x] + u[U]
          /\ t[U] \in Int /\ u[U] \in Int /\ f[x] \in Int /\ g[x] \in Int /\ f[x] <= g[x]
      BY <1>1, <1>4, <1>5 DEF Removes
    <3>3. t[U] <= u[U] /\ (t[U] = u[U] => \A y \in U : f[y] = g[y])
      BY <1>6
    <3>4. \A y \in T : y = x \/ y \in U
      OBVIOUS
    <3> HIDE DEF U
    <3>5. t[T] <= u[T]
      BY <3>2, <3>3
    <3>6. t[T] = u[T] => t[U] = u[U] /\ f[x] = g[x]
      <4> SUFFICES ASSUME t[T] = u[T] PROVE t[U] = u[U] /\ f[x] = g[x]
        OBVIOUS
      <4>1. f[x] + t[U] = g[x] + u[U]
        BY <3>2
      <4>2. /\ t[U] \in Int /\ u[U] \in Int /\ f[x] \in Int /\ g[x] \in Int
            /\ f[x] <= g[x] /\ t[U] <= u[U]
        BY <3>2, <3>3
      <4> DEFINE a == f[x]
                 b == g[x]
                 c == t[U]
                 d == u[U]
      <4>3. a \in Int /\ b \in Int /\ c \in Int /\ d \in Int /\ a <= b /\ c <= d /\ a + c = b + d
        BY <4>1, <4>2
      <4> HIDE DEF a, b, c, d
      <4>4. a = b /\ c = d
        BY ONLY <4>3
      <4> QED  BY <4>4 DEF a, b, c, d
    <3> QED  BY <3>3, <3>4, <3>5, <3>6
  <2> QED  BY <2>1, <2>2
<1>7. \A T \in SUBSET S : T \in C
  <2> HIDE DEF C
  <2> QED  BY <1>1, <1>6, SubsetInduction
<1> QED  BY <1>2, <1>3, <1>7 DEF S

=============================================================================
