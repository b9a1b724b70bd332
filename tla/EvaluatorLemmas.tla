-------------------------- MODULE EvaluatorLemmas ---------------------------
(***************************************************************************)
(* What evaluate() does with any number of runners at any prices: the      *)
(* stable sort has a first and a second, and an answer is a reason or the  *)
(* lays of these two.  Used by the proofs about one call and about the     *)
(* replay of a file.                                                       *)
(***************************************************************************)
EXTENDS Evaluator, FiniteSums

\* A book as far as the lemmas need it: finitely many runners, positions and
\* prices are numbers.
Readable(b) ==
    /\ DOMAIN b.runners \subseteq Nat /\ IsFiniteSet(DOMAIN b.runners)
    /\ \A i \in DOMAIN b.runners : b.runners[i].ltp \in Int

\* The stable sort has a first runner, and none is shorter.
LEMMA CheapestIsFirst ==
    ASSUME NEW b, Readable(b), NEW R, R \subseteq ActiveRunners(b), R # {}
    PROVE  /\ Cheapest(b, R) \in R
           /\ \A j \in R : Price(b, Cheapest(b, R)) <= Price(b, j)
           /\ \A j \in R : Price(b, Cheapest(b, R)) = Price(b, j) => Cheapest(b, R) <= j
<1>1. \A i \in R : i \in Nat /\ Price(b, i) \in Nat
  <2>1. \A i \in R : i \in DOMAIN b.runners /\ b.runners[i].ltp > 100
    BY DEF ActiveRunners
  <2>2. \A i \in DOMAIN b.runners : i \in Nat /\ b.runners[i].ltp \in Int
    BY DEF Readable
  <2>3. \A i \in R : b.runners[i].ltp \in Nat
    BY <2>1, <2>2
  <2> QED  BY <2>1, <2>2, <2>3 DEF Price
<1>2. PICK p \in {Price(b, i) : i \in R} : \A q \in {Price(b, i) : i \in R} : p <= q
  <2>1. {Price(b, i) : i \in R} \subseteq Nat /\ {Price(b, i) : i \in R} # {}
    BY <1>1
  <2> QED  BY <2>1, LeastNumber, Zenon
<1> DEFINE shortest == {i \in R : Price(b, i) = p}
<1>3. PICK k \in shortest : \A l \in shortest : k <= l
  <2>1. shortest \subseteq Nat /\ shortest # {}
    BY <1>1, <1>2
  <2> HIDE DEF shortest
  <2> QED  BY <2>1, LeastNumber, Zenon
<1>4. k \in R /\ \A j \in R : Price(b, k) < Price(b, j) \/ (Price(b, k) = Price(b, j) /\ k <= j)
  <2> SUFFICES ASSUME NEW j \in R
               PROVE  Price(b, k) < Price(b, j) \/ (Price(b, k) = Price(b, j) /\ k <= j)
    BY <1>3
  <2>1. k \in R /\ Price(b, k) = p /\ p <= Price(b, j)
    BY <1>2, <1>3
  <2>2. Price(b, j) = p => k <= j
    BY <1>3
  <2> QED  BY <1>1, <2>1, <2>2
<1>5. LET c == Cheapest(b, R)
      IN  c \in R /\ \A j \in R : Price(b, c) < Price(b, j) \/ (Price(b, c) = Price(b, j) /\ c <= j)
  BY <1>4, Zenon DEF Cheapest, Price
<1> QED  BY <1>1, <1>5

\* There is one such runner.
LEMMA CheapestIs ==
    ASSUME NEW b, Readable(b), NEW R, R \subseteq ActiveRunners(b), NEW i \in R,
           \A j \in R : Price(b, i) < Price(b, j) \/ (Price(b, i) = Price(b, j) /\ i <= j)
    PROVE  Cheapest(b, R) = i
<1> DEFINE c == Cheapest(b, R)
<1>1. /\ c \in R /\ Price(b, c) <= Price(b, i)
      /\ Price(b, c) = Price(b, i) => c <= i
  BY CheapestIsFirst
<1>2. c \in Nat /\ i \in Nat /\ Price(b, c) \in Int /\ Price(b, i) \in Int
  BY <1>1 DEF Readable, ActiveRunners, Price
<1>3. Price(b, i) < Price(b, c) \/ (Price(b, i) = Price(b, c) /\ i <= c)
  BY <1>1
<1> HIDE DEF c
<1>4. c = i
  BY <1>1, <1>2, <1>3
<1> QED  BY <1>4 DEF c

\* The two favourites, when there are two.
LEMMA FavouritesAreFirst ==
    ASSUME NEW b, Readable(b), ActiveRunners(b) # {}
    PROVE  /\ Favourite(b) \in ActiveRunners(b)
           /\ \A j \in ActiveRunners(b) : Price(b, Favourite(b)) <= Price(b, j)
           /\ HasSecond(b) =>
                /\ Second(b) \in ActiveRunners(b) \ {Favourite(b)}
                /\ \A j \in ActiveRunners(b) \ {Favourite(b)} :
                      Price(b, Second(b)) <= Price(b, j)
           /\ ~HasSecond(b) => ActiveRunners(b) = {Favourite(b)}
<1>1. /\ Favourite(b) \in ActiveRunners(b)
      /\ \A j \in ActiveRunners(b) : Price(b, Favourite(b)) <= Price(b, j)
  BY CheapestIsFirst DEF Favourite
<1>2. ASSUME HasSecond(b)
      PROVE  /\ Second(b) \in ActiveRunners(b) \ {Favourite(b)}
             /\ \A j \in ActiveRunners(b) \ {Favourite(b)} :
                   Price(b, Second(b)) <= Price(b, j)
  <2>1. ActiveRunners(b) \ {Favourite(b)} # {}
    <3> SUFFICES ASSUME ActiveRunners(b) \ {Favourite(b)} = {} PROVE FALSE
      OBVIOUS
    <3>1. ActiveRunners(b) = {Favourite(b)}
      BY <1>1
    <3>2. Cardinality(ActiveRunners(b)) = 1
      BY <3>1, FS_Singleton, Zenon
    <3> QED  BY <1>2, <3>2 DEF HasSecond
  <2> QED  BY <2>1, CheapestIsFirst DEF Second
<1>3. ASSUME ~HasSecond(b), NEW k \in ActiveRunners(b), k # Favourite(b) PROVE FALSE
  <2> DEFINE two == {Favourite(b), k}
  <2>1. IsFiniteSet(ActiveRunners(b))
    <3>1. ActiveRunners(b) \subseteq DOMAIN b.runners
      BY DEF ActiveRunners
    <3> QED  BY <3>1, FS_Subset DEF Readable
  <2>2. two \subseteq ActiveRunners(b) /\ Cardinality(two) = 2
    <3>1. Cardinality({Favourite(b)}) = 1 /\ IsFiniteSet({Favourite(b)})
      BY FS_Singleton
    <3>2. Cardinality({Favourite(b)} \cup {k}) = Cardinality({Favourite(b)}) + 1
      BY <1>3, <3>1, FS_AddElement
    <3>3. two = {Favourite(b)} \cup {k}
      OBVIOUS
    <3> QED  BY <1>1, <3>1, <3>2, <3>3
  <2>3. Cardinality(two) <= Cardinality(ActiveRunners(b)) /\ Cardinality(ActiveRunners(b)) \in Nat
    BY <2>1, <2>2, FS_Subset, FS_CardinalityType
  <2> HIDE DEF two
  <2> QED  BY <1>3, <2>2, <2>3 DEF HasSecond
<1> QED  BY <1>1, <1>2, <1>3

\* How many there are, without counting.
LEMMA SecondIsAnother ==
    ASSUME NEW b, Readable(b), ActiveRunners(b) # {}
    PROVE  HasSecond(b) <=> \E j \in ActiveRunners(b) : j # Favourite(b)
<1>1. HasSecond(b) => \E j \in ActiveRunners(b) : j # Favourite(b)
  BY FavouritesAreFirst
<1>2. ~HasSecond(b) => ~\E j \in ActiveRunners(b) : j # Favourite(b)
  BY FavouritesAreFirst
<1> QED  BY <1>1, <1>2

-----------------------------------------------------------------------------
\* Every answer of evaluate(): a reason, or a lay of the favourite and perhaps
\* one of the second, under the rule that was selected for the gap.
FirstLeg(b, s, gap, lay, pence) ==
    lay \in Lay(b, Favourite(b), SelectedRule(b, s, gap),
                Leg(b, s, SelectedRule(b, s, gap), gap), pence)
SecondLeg(b, s, gap, lay, pence) ==
    /\ TwoLegs(b, s, SelectedRule(b, s, gap), gap)
    /\ lay \in Lay(b, Second(b), SelectedRule(b, s, gap),
                   Leg(b, s, SelectedRule(b, s, gap), gap), pence)

LaysFor(b, s, gap, answer) ==
    /\ MatchingRules(b, s, gap) # {} /\ ~SpreadBlocks(b, s, gap)
    /\ \E pence \in Nearest(Leg(b, s, SelectedRule(b, s, gap), gap), Penny) :
         \E first : /\ FirstLeg(b, s, gap, first, pence)
                    /\ \/ /\ ~TwoLegs(b, s, SelectedRule(b, s, gap), gap)
                          /\ answer = Bets(<<first>>)
                       \/ \E second : /\ SecondLeg(b, s, gap, second, pence)
                                       /\ answer = Bets(<<first, second>>)

Admitted(b, s) ==
    /\ ~b.inPlay /\ ActiveRunners(b) # {}
    /\ ~(Price(b, Favourite(b)) < s.controls.floor)
    /\ ~(Price(b, Favourite(b)) > s.controls.ceiling)

Reasons == {"missing_price", "in_play", "filtered_country", "filtered_market_type",
            "no_active_runners", "blocked_by_floor", "blocked_by_ceiling",
            "no_matching_rule", "spread_control_blocked"}

LEMMA AnswersOfEvaluate ==
    ASSUME NEW b, NEW s, NEW answer \in Evaluate(b, s)
    PROVE  \/ /\ answer.bets = <<>> /\ answer.reason \in Reasons
              /\ answer = NoBet(answer.reason)
           \/ Admitted(b, s) /\ \E gap \in Gaps(b) : LaysFor(b, s, gap, answer)
<1>1. CASE \E reason \in Reasons : answer = NoBet(reason)
  BY <1>1 DEF NoBet
<1>2. CASE ~\E reason \in Reasons : answer = NoBet(reason)
  <2>1. Admitted(b, s) /\ answer \in UNION {ApplyRules(b, s, gap) : gap \in Gaps(b)}
    BY <1>2 DEF Evaluate, Admitted, Reasons
  <2>2. PICK gap \in Gaps(b) : answer \in ApplyRules(b, s, gap)
    BY <2>1
  <2> DEFINE rule == SelectedRule(b, s, gap)
             leg == Leg(b, s, rule, gap)
  <2>3. /\ MatchingRules(b, s, gap) # {} /\ ~SpreadBlocks(b, s, gap)
        /\ answer \in Decisions(b, s, rule, gap)
    BY <1>2, <2>2 DEF ApplyRules, Reasons
  <2>4. PICK pence \in Nearest(leg, Penny) : answer \in LaysAt(b, s, rule, gap, pence)
    BY <2>3 DEF Decisions
  <2>5. CASE TwoLegs(b, s, rule, gap)
    <3>1. PICK first \in Lay(b, Favourite(b), rule, leg, pence),
               second \in Lay(b, Second(b), rule, leg, pence) : answer = Bets(<<first, second>>)
      BY <2>4, <2>5, SMTT(40) DEF LaysAt
    <3>2. FirstLeg(b, s, gap, first, pence) /\ SecondLeg(b, s, gap, second, pence)
      BY <2>5, <3>1 DEF FirstLeg, SecondLeg
    <3>3. LaysFor(b, s, gap, answer)
      BY <2>3, <3>1, <3>2 DEF LaysFor
    <3> QED  BY <2>1, <3>3
  <2>6. CASE ~TwoLegs(b, s, rule, gap)
    <3>1. PICK first \in Lay(b, Favourite(b), rule, leg, pence) : answer = Bets(<<first>>)
      BY <2>4, <2>6 DEF LaysAt
    <3> QED  BY <2>1, <2>3, <2>6, <3>1 DEF LaysFor, FirstLeg
  <2> QED  BY <2>5, <2>6
<1> QED  BY <1>1, <1>2

\* A bet lays an active runner at the price it trades at, before the off.
LEMMA BetsOnActiveRunners ==
    ASSUME NEW b, Readable(b), NEW s, NEW answer \in Evaluate(b, s), answer.bets # <<>>
    PROVE  /\ ~b.inPlay /\ 1 \in DOMAIN answer.bets
           /\ \A i \in DOMAIN answer.bets :
                 /\ answer.bets[i].sel \in ActiveRunners(b)
                 /\ answer.bets[i].price = Price(b, answer.bets[i].sel)
<1>1. PICK gap \in Gaps(b) : Admitted(b, s) /\ LaysFor(b, s, gap, answer)
  BY AnswersOfEvaluate
<1>2. /\ Favourite(b) \in ActiveRunners(b)
      /\ HasSecond(b) => Second(b) \in ActiveRunners(b)
  BY <1>1, FavouritesAreFirst DEF Admitted
<1>3. PICK pence, first :
        /\ FirstLeg(b, s, gap, first, pence)
        /\ \/ answer = Bets(<<first>>)
           \/ \E second : /\ SecondLeg(b, s, gap, second, pence)
                          /\ answer = Bets(<<first, second>>)
  BY <1>1 DEF LaysFor
<1>4. first.sel = Favourite(b) /\ first.price = Price(b, Favourite(b))
  BY <1>3 DEF FirstLeg, Lay
<1>5. CASE answer = Bets(<<first>>)
  BY <1>1, <1>2, <1>4, <1>5 DEF Bets, Admitted
<1>6. CASE \E second : /\ SecondLeg(b, s, gap, second, pence)
                      /\ answer = Bets(<<first, second>>)
  <2>1. PICK second : /\ SecondLeg(b, s, gap, second, pence)
                      /\ answer = Bets(<<first, second>>)
    BY <1>6
  <2>2. second.sel = Second(b) /\ second.price = Price(b, Second(b)) /\ HasSecond(b)
    BY <2>1 DEF SecondLeg, Lay, TwoLegs, Split
  <2> QED  BY <1>1, <1>2, <1>4, <2>1, <2>2 DEF Bets, Admitted
<1> QED  BY <1>3, <1>5, <1>6

-----------------------------------------------------------------------------
(* The money of a bet.                                                     *)

\* The selected rule is the first that matches.
LEMMA FirstOfTheRules ==
    ASSUME NEW b, NEW s, StrategyAssumed(s), NEW gap, MatchingRules(b, s, gap) # {}
    PROVE  /\ SelectedRule(b, s, gap) \in MatchingRules(b, s, gap)
           /\ SelectedRule(b, s, gap) \in Nat /\ SelectedRule(b, s, gap) \in DOMAIN s.rules
           /\ \A l \in MatchingRules(b, s, gap) : SelectedRule(b, s, gap) <= l
<1>1. MatchingRules(b, s, gap) \subseteq Nat /\ MatchingRules(b, s, gap) \subseteq DOMAIN s.rules
  BY DEF MatchingRules, StrategyAssumed
<1>2. PICK k \in MatchingRules(b, s, gap) : \A l \in MatchingRules(b, s, gap) : k <= l
  BY <1>1, LeastNumber
<1>3. /\ SelectedRule(b, s, gap) \in MatchingRules(b, s, gap)
      /\ \A l \in MatchingRules(b, s, gap) : SelectedRule(b, s, gap) <= l
  BY <1>2 DEF SelectedRule
<1> QED  BY <1>1, <1>3

LEMMA HalfIsNatural == ASSUME NEW n \in Nat PROVE n \div 2 \in Nat
OBVIOUS

LEMMA ProductIsNatural == ASSUME NEW m \in Nat, NEW n \in Nat PROVE m * n \in Nat
OBVIOUS

LEMMA PennyIsPositive ==
    /\ Grain * Grain * Grain \in Nat \ {0}
    /\ Penny = 2 * (Grain * Grain * Grain) /\ Penny \in Nat \ {0} /\ 100 * Penny \in Nat \ {0}
<1>1. Grain \in Nat /\ Grain > 0
  BY GrainAssumption
<1>2. Grain * Grain \in Nat /\ Grain * Grain > 0
  BY <1>1
<1> DEFINE square == Grain * Grain
<1> HIDE DEF square
<1>3. square * Grain \in Nat /\ square * Grain > 0
  BY <1>1, <1>2 DEF square
<1>4. Grain * Grain * Grain \in Nat \ {0}
  BY <1>3 DEF square
<1> QED  BY <1>4 DEF Penny

\* round() of a fraction.
LEMMA NearestIsNear ==
    ASSUME NEW n \in Int, NEW d \in Nat \ {0}, NEW q \in Nearest(n, d)
    PROVE  q \in Int /\ 2 * (n - q * d) <= d /\ 2 * (q * d - n) <= d
<1>1. n \div d \in Int
  OBVIOUS
<1>2. q \in Int
  BY <1>1 DEF Nearest
<1> QED  BY <1>2 DEF Nearest

LEMMA NearestOfNatural ==
    ASSUME NEW n \in Nat, NEW d \in Nat \ {0}, NEW q \in Nearest(n, d)
    PROVE  q \in Nat
<1>1. q \in Int /\ 2 * (n - q * d) <= d
  BY NearestIsNear
<1>2. CASE q < 0
  <2>1. -q - 1 \in Nat
    BY <1>1, <1>2
  <2>2. (-q - 1) * d \in Nat
    BY <2>1, ProductIsNatural
  <2>3. (-q - 1) * d = -(q * d) - d /\ q * d \in Int
    BY <1>1
  <2> QED  BY <1>1, <2>2, <2>3
<1> QED  BY <1>1, <1>2

LEMMA LegIsNatural ==
    ASSUME NEW b, NEW s, StrategyAssumed(s), NEW rule \in DOMAIN s.rules, NEW gap
    PROVE  Leg(b, s, rule, gap) \in Nat
<1> DEFINE stake == RuleStake(s.rules[rule])
<1>1. stake \in Nat /\ s.controls.uplift \in Amount /\ s.point \in Nat
  BY DEF StrategyAssumed, Amount, RuleStake
<1>2. Uplift(s) \in Nat
  BY <1>1, GrainAssumption DEF Uplift, Amount, None
<1> HIDE DEF stake
<1>3. 2 * stake \in Nat
  BY <1>1
<1>4. 2 * stake * Uplift(s) \in Nat
  BY <1>2, <1>3, ProductIsNatural
<1>5. 2 * stake * Uplift(s) * s.point \in Nat
  BY <1>1, <1>4, ProductIsNatural
<1>6. Stake(s, rule) \in Nat
  BY <1>5 DEF Stake, stake
<1> QED  BY <1>6, HalfIsNatural DEF Leg

\* The lays of the runners of a set.
LaysOf(R) == [sel : R, price : {p \in Nat : p > 100}, stake : Nat, liability : Int, rule : Nat]

LEMMA BetsAreLays ==
    ASSUME NEW b, Readable(b), NEW s, StrategyAssumed(s), NEW answer \in Evaluate(b, s)
    PROVE  answer.bets \in Seq(LaysOf(ActiveRunners(b)))
<1> DEFINE R == ActiveRunners(b)
<1>1. CASE answer.bets = <<>>
  BY <1>1
<1>2. CASE answer.bets # <<>>
  <2>1. PICK gap \in Gaps(b) : Admitted(b, s) /\ LaysFor(b, s, gap, answer)
    BY <1>2, AnswersOfEvaluate
  <2> DEFINE rule == SelectedRule(b, s, gap)
             leg == Leg(b, s, rule, gap)
  <2>2. PICK pence, first :
          /\ pence \in Nearest(leg, Penny)
          /\ FirstLeg(b, s, gap, first, pence)
          /\ \/ answer = Bets(<<first>>)
             \/ \E second : /\ SecondLeg(b, s, gap, second, pence)
                            /\ answer = Bets(<<first, second>>)
    BY <2>1 DEF LaysFor
  <2>3. rule \in Nat /\ leg \in Nat
    BY <2>1, FirstOfTheRules, LegIsNatural DEF LaysFor
  <2>4. pence \in Nat
    <3> HIDE DEF leg
    <3> QED  BY <2>2, <2>3, NearestOfNatural, PennyIsPositive
  <2>5. ASSUME NEW i \in R, NEW lay \in Lay(b, i, rule, leg, pence)
        PROVE  lay \in LaysOf(R)
    <3>1. Price(b, i) \in Int /\ Price(b, i) > 100
      BY DEF ActiveRunners, Readable, Price
    <3> DEFINE odds == leg * (Price(b, i) - 100)
    <3> HIDE DEF leg, rule
    <3>2. odds \in Int
      BY <2>3, <3>1
    <3>3. PICK li \in Nearest(odds, 100 * Penny) :
            lay = [sel |-> i, price |-> Price(b, i), stake |-> pence, liability |-> li, rule |-> rule]
      BY <2>5 DEF Lay
    <3> HIDE DEF odds
    <3>4. li \in Int
      BY <3>2, NearestIsNear, PennyIsPositive
    <3> QED  BY <2>3, <2>4, <3>1, <3>3, <3>4 DEF LaysOf
  <2>6. /\ Favourite(b) \in R
        /\ HasSecond(b) => Second(b) \in R
    BY <2>1, FavouritesAreFirst DEF Admitted
  <2>7. first \in LaysOf(R)
    BY <2>2, <2>5, <2>6 DEF FirstLeg
  <2>8. CASE answer = Bets(<<first>>)
    BY <2>7, <2>8 DEF Bets
  <2>9. ASSUME NEW second, SecondLeg(b, s, gap, second, pence), answer = Bets(<<first, second>>)
        PROVE  answer.bets \in Seq(LaysOf(R))
    <3>1. second \in LaysOf(R)
      BY <2>5, <2>6, <2>9 DEF SecondLeg, TwoLegs, Split
    <3> QED  BY <2>7, <2>9, <3>1 DEF Bets
  <2> QED  BY <2>2, <2>8, <2>9
<1> QED  BY <1>1, <1>2

=============================================================================
