------------------------- MODULE EvaluateCallProofs --------------------------
(***************************************************************************)
(* What every answer of evaluate() satisfies, for any books and strategies *)
(* the schemas admit: any number of runners, prices, rules and stakes.     *)
(*                                                                         *)
(*   WellFormed            Spec => []AnswerWellFormed                      *)
(*   FavouritesAreLaid     Spec => []LaysTheFavourites                     *)
(*   FirstRule             Spec => []FirstRuleWins                         *)
(*   TightAreShared        Spec => []TightMarketsAreShared                 *)
(*   StakesFollow          Spec => []StakeFollowsFormula                   *)
(*   LiabilityFollows      Spec => []LiabilityFollowsStake                 *)
(*   OutsidersAreIrrelevant  Spec => []OutsidersDoNotMatter                *)
(*   OrderIsIrrelevant     Spec => []ListingOrderDoesNotMatter             *)
(*                                                                         *)
(* An answer stays what it was, so the invariant only says that it is one  *)
(* that Evaluate gives; the rest is what such an answer looks like.  The   *)
(* last two compare two calls: their books are Alike.                      *)
(***************************************************************************)
EXTENDS EvaluateCall, EvaluatorLemmas

CallInv ==
    /\ book \in Books /\ strategy \in Strategies
    /\ answer = Pending \/ answer \in Evaluate(book, strategy)

LEMMA CallSafety == Spec => []CallInv
<1>1. Init => CallInv
  BY DEF Init, CallInv
<1>2. CallInv /\ [Call]_vars => CallInv'
  BY DEF CallInv, Call, vars
<1> QED  BY <1>1, <1>2, PTL DEF Spec

LEMMA BookIsReadable ==
    ASSUME CallInv
    PROVE  Readable(book) /\ Tradable = ActiveRunners(book) /\ StrategyAssumed(strategy)
<1>1. BookAssumed(book) /\ StrategyAssumed(strategy)
  BY InputsAssumption DEF CallInv
<1>2. Readable(book)
  <2>1. IsFiniteSet(1 .. Len(book.runners))
    BY <1>1, FS_Interval DEF BookAssumed
  <2> QED  BY <1>1, <2>1 DEF BookAssumed, Readable
<1> QED  BY <1>1, <1>2 DEF Tradable, Ltp, ActiveRunners

\* The selected rule, the stake of a leg and what one leg looks like.
Chosen(gap) == SelectedRule(book, strategy, gap)
LegStake(gap) == Leg(book, strategy, Chosen(gap), gap)
IsLay(lay, i, gap, pence) ==
    /\ lay.sel = i /\ lay.price = Price(book, i) /\ lay.stake = pence
    /\ lay.liability \in Nearest(LegStake(gap) * (Price(book, i) - 100), 100 * Penny)
    /\ lay.rule = Chosen(gap)

\* What the bets of an answer are.
Placed(gap, pence) ==
    /\ answer.reason = "bet"
    /\ MatchingRules(book, strategy, gap) # {} /\ ~SpreadBlocks(book, strategy, gap)
    /\ pence \in Nearest(LegStake(gap), Penny)
    /\ IsLay(answer.bets[1], Favourite(book), gap, pence)
    /\ \/ /\ ~TwoLegs(book, strategy, Chosen(gap), gap)
          /\ Len(answer.bets) = 1 /\ DOMAIN answer.bets = {1}
       \/ /\ TwoLegs(book, strategy, Chosen(gap), gap) /\ HasSecond(book)
          /\ Len(answer.bets) = 2 /\ DOMAIN answer.bets = {1, 2}
          /\ IsLay(answer.bets[2], Second(book), gap, pence)

LEMMA BetsAreTheFavourites ==
    ASSUME CallInv, answer # Pending
    PROVE  \/ answer.bets = <<>> /\ answer.reason \in Reasons
           \/ Admitted(book, strategy) /\ \E gap \in Gaps(book) : \E pence : Placed(gap, pence)
<1>1. answer \in Evaluate(book, strategy)
  BY DEF CallInv
<1>2. CASE answer.bets = <<>> /\ answer.reason \in Reasons
  BY <1>2
<1>3. CASE Admitted(book, strategy) /\ \E gap \in Gaps(book) : LaysFor(book, strategy, gap, answer)
  <2>1. PICK gap \in Gaps(book) : LaysFor(book, strategy, gap, answer)
    BY <1>3
  <2>2. PICK pence \in Nearest(LegStake(gap), Penny) :
          \E first : /\ FirstLeg(book, strategy, gap, first, pence)
                     /\ \/ /\ ~TwoLegs(book, strategy, Chosen(gap), gap)
                           /\ answer = Bets(<<first>>)
                        \/ \E second : /\ SecondLeg(book, strategy, gap, second, pence)
                                       /\ answer = Bets(<<first, second>>)
    BY <2>1 DEF LaysFor, LegStake, Chosen
  <2>3. PICK first : /\ FirstLeg(book, strategy, gap, first, pence)
                     /\ \/ /\ ~TwoLegs(book, strategy, Chosen(gap), gap)
                           /\ answer = Bets(<<first>>)
                        \/ \E second : /\ SecondLeg(book, strategy, gap, second, pence)
                                       /\ answer = Bets(<<first, second>>)
    BY <2>2
  <2>4. IsLay(first, Favourite(book), gap, pence)
    BY <2>3 DEF FirstLeg, Lay, IsLay, LegStake, Chosen
  <2>5. MatchingRules(book, strategy, gap) # {} /\ ~SpreadBlocks(book, strategy, gap)
    BY <2>1 DEF LaysFor
  <2>6. CASE /\ ~TwoLegs(book, strategy, Chosen(gap), gap)
             /\ answer = Bets(<<first>>)
    BY <1>3, <2>2, <2>4, <2>5, <2>6 DEF Placed, Bets
  <2>7. CASE \E second : /\ SecondLeg(book, strategy, gap, second, pence)
                         /\ answer = Bets(<<first, second>>)
    <3>1. PICK second : /\ SecondLeg(book, strategy, gap, second, pence)
                        /\ answer = Bets(<<first, second>>)
      BY <2>7
    <3>2. TwoLegs(book, strategy, Chosen(gap), gap) /\ IsLay(second, Second(book), gap, pence)
      BY <3>1 DEF SecondLeg, Lay, IsLay, LegStake, Chosen
    <3>3. HasSecond(book)
      BY <3>2 DEF TwoLegs, Split
    <3> QED  BY <1>3, <2>2, <2>4, <2>5, <3>1, <3>2, <3>3 DEF Placed, Bets
  <2> QED  BY <2>3, <2>6, <2>7
<1> QED  BY <1>1, <1>2, <1>3, AnswersOfEvaluate

-----------------------------------------------------------------------------
\* An answer is a reason, or one or two lays of different runners.
THEOREM WellFormed == Spec => []AnswerWellFormed
<1>1. CallInv => AnswerWellFormed
  <2> SUFFICES ASSUME CallInv, answer # Pending
               PROVE  /\ (answer.reason = "bet") <=> (Len(answer.bets) \in 1 .. 2)
                      /\ (answer.reason # "bet") => answer.bets = <<>>
                      /\ Cardinality(Laid) = Len(answer.bets)
                      /\ \A i \in DOMAIN answer.bets : answer.bets[i].rule = answer.bets[1].rule
    BY DEF AnswerWellFormed
  <2>1. CASE answer.bets = <<>> /\ answer.reason \in Reasons
    <3>1. answer.reason # "bet" /\ Len(answer.bets) = 0 /\ DOMAIN answer.bets = {}
      BY <2>1 DEF Reasons
    <3>2. Laid = {}
      BY <3>1 DEF Laid
    <3> QED  BY <2>1, <3>1, <3>2, FS_EmptySet
  <2>2. ASSUME Admitted(book, strategy), NEW gap, NEW pence, Placed(gap, pence)
        PROVE  /\ answer.reason = "bet" /\ Len(answer.bets) \in 1 .. 2
               /\ Cardinality(Laid) = Len(answer.bets)
               /\ \A i \in DOMAIN answer.bets : answer.bets[i].rule = answer.bets[1].rule
    <3>1. CASE DOMAIN answer.bets = {1} /\ Len(answer.bets) = 1
      <4>1. Laid = {Favourite(book)}
        BY <2>2, <3>1 DEF Laid, Placed, IsLay
      <4>2. Cardinality(Laid) = 1
        BY <4>1, FS_Singleton
      <4> QED  BY <2>2, <3>1, <4>2 DEF Placed
    <3>2. CASE /\ DOMAIN answer.bets = {1, 2} /\ Len(answer.bets) = 2
               /\ HasSecond(book) /\ IsLay(answer.bets[2], Second(book), gap, pence)
      <4>1. Laid = {Favourite(book)} \cup {Second(book)}
        BY <2>2, <3>2 DEF Laid, Placed, IsLay
      <4>2. Second(book) \notin {Favourite(book)}
        BY <2>2, <3>2, BookIsReadable, FavouritesAreFirst DEF Admitted
      <4>3. IsFiniteSet({Favourite(book)}) /\ Cardinality({Favourite(book)}) = 1
        BY FS_Singleton
      <4>4. Cardinality(Laid) = 2
        BY <4>1, <4>2, <4>3, FS_AddElement
      <4> QED  BY <2>2, <3>2, <4>4 DEF Placed, IsLay
    <3> QED  BY <2>2, <3>1, <3>2 DEF Placed
  <2> QED  BY <2>1, <2>2, BetsAreTheFavourites
<1> QED  BY <1>1, CallSafety, PTL

\* Bets lay the shortest-priced runners, each at its own price.
THEOREM FavouritesAreLaid == Spec => []LaysTheFavourites
<1>1. CallInv => LaysTheFavourites
  <2> SUFFICES ASSUME CallInv, answer.bets # <<>>
               PROVE  /\ Laid \subseteq Tradable /\ ~book.inPlay
                      /\ \A i \in Laid, j \in Tradable \ Laid : Ltp(i) <= Ltp(j)
                      /\ \A k \in DOMAIN answer.bets :
                            answer.bets[k].price = Ltp(answer.bets[k].sel)
                      /\ \A j \in Tradable : answer.bets[1].price <= Ltp(j)
                      /\ strategy.controls.floor <= answer.bets[1].price
                      /\ answer.bets[1].price <= strategy.controls.ceiling
    BY DEF LaysTheFavourites
  <2>1. Admitted(book, strategy) /\ \E gap \in Gaps(book) : \E pence : Placed(gap, pence)
    BY BetsAreTheFavourites DEF Pending
  <2>2. PICK gap, pence : Placed(gap, pence)
    BY <2>1
  <2> DEFINE fav == Favourite(book)
  <2>3. /\ fav \in Tradable /\ \A j \in Tradable : Ltp(fav) <= Ltp(j)
        /\ HasSecond(book) =>
             /\ Second(book) \in Tradable \ {fav}
             /\ \A j \in Tradable \ {fav} : Ltp(Second(book)) <= Ltp(j)
        /\ \A j \in Tradable : Ltp(j) \in Int
    BY <2>1, BookIsReadable, FavouritesAreFirst DEF Admitted, Ltp, Price, Readable, Tradable
  <2>4. answer.bets[1].sel = fav /\ answer.bets[1].price = Ltp(fav)
    BY <2>2 DEF Placed, IsLay, Ltp, Price
  <2>5. /\ \A k \in DOMAIN answer.bets : answer.bets[k].price = Ltp(answer.bets[k].sel)
        /\ Laid = {fav} \/ (HasSecond(book) /\ Laid = {fav, Second(book)})
    BY <2>2 DEF Placed, IsLay, Ltp, Price, Laid
  <2>6. Laid \subseteq Tradable /\ \A i \in Laid, j \in Tradable \ Laid : Ltp(i) <= Ltp(j)
    BY <2>3, <2>5
  <2>7. ~book.inPlay /\ ~(Ltp(fav) < strategy.controls.floor) /\ ~(Ltp(fav) > strategy.controls.ceiling)
    BY <2>1 DEF Admitted, Ltp, Price
  <2>8. strategy.controls.floor \in Int /\ strategy.controls.ceiling \in Int /\ Ltp(fav) \in Int
    BY <2>3, BookIsReadable DEF StrategyAssumed
  <2>9. strategy.controls.floor <= Ltp(fav) /\ Ltp(fav) <= strategy.controls.ceiling
    BY <2>7, <2>8
  <2> QED  BY <2>3, <2>4, <2>5, <2>6, <2>7, <2>9
<1> QED  BY <1>1, CallSafety, PTL

-----------------------------------------------------------------------------
(* The gap that evaluate() computes and the spread the properties speak of. *)

\* The gap, in tenths, is the spread up to a hair.
Near(gap, spread) ==
    \/ gap = Infinity /\ spread = Infinity
    \/ 10 * spread - 1 <= gap /\ gap <= 10 * spread + 1

\* From every runner with the shortest price, the next one is as far away.
LEMMA SpreadOfFavourite ==
    ASSUME CallInv, NEW i \in Tradable, \A j \in Tradable : Ltp(i) <= Ltp(j)
    PROVE  /\ Ltp(i) = Price(book, Favourite(book)) /\ Ltp(i) \in Int
           /\ SpreadFrom(i) = IF HasSecond(book)
                              THEN Price(book, Second(book)) - Price(book, Favourite(book))
                              ELSE Infinity
           /\ SpreadFrom(i) \in Nat
<1> DEFINE fav == Favourite(book)
           snd == Second(book)
           others == {Ltp(j) : j \in Tradable \ {i}}
<1>1. /\ fav \in Tradable /\ \A j \in Tradable : Ltp(fav) <= Ltp(j)
      /\ HasSecond(book) =>
           snd \in Tradable \ {fav} /\ \A j \in Tradable \ {fav} : Ltp(snd) <= Ltp(j)
      /\ ~HasSecond(book) => Tradable = {fav}
      /\ \A j \in Tradable : Ltp(j) \in Int
  BY BookIsReadable, FavouritesAreFirst DEF Ltp, Price, Readable, Tradable
<1>2. Ltp(i) = Ltp(fav) /\ Ltp(i) \in Int
  BY <1>1
<1>3. CASE ~HasSecond(book)
  <2>1. others = {}
    BY <1>1, <1>3
  <2>2. SpreadFrom(i) = Infinity
    BY <2>1 DEF SpreadFrom
  <2> QED  BY <1>2, <1>3, <2>2 DEF Infinity, Ltp, Price
<1>4. CASE HasSecond(book)
  <2>1. Ltp(snd) \in others /\ \A q \in others : Ltp(snd) <= q
    <3>1. CASE i = fav
      BY <1>1, <1>4, <3>1
    <3>2. CASE i # fav
      <4>1. Ltp(snd) = Ltp(fav) /\ fav \in Tradable \ {i}
        BY <1>1, <1>2, <1>4, <3>2
      <4> QED  BY <1>1, <4>1
    <3> QED  BY <3>1, <3>2
  <2>2. others \subseteq Int
    BY <1>1
  <2> DEFINE least == CHOOSE p \in others : \A q \in others : p <= q
  <2>3. SpreadFrom(i) = least - Ltp(i)
    BY <2>1 DEF SpreadFrom
  <2> HIDE DEF others
  <2>4. least \in others /\ \A q \in others : least <= q
    BY <2>1
  <2> HIDE DEF least
  <2>5. least = Ltp(snd)
    <3>1. least \in Int /\ Ltp(snd) \in Int
      BY <2>1, <2>2, <2>4
    <3>2. least <= Ltp(snd) /\ Ltp(snd) <= least
      BY <2>1, <2>4
    <3> QED  BY <3>1, <3>2
  <2>6. SpreadFrom(i) = Ltp(snd) - Ltp(fav) /\ Ltp(snd) \in Int /\ Ltp(fav) <= Ltp(snd)
    BY <1>1, <1>2, <1>4, <2>3, <2>5
  <2>7. SpreadFrom(i) \in Nat
    BY <1>1, <2>6
  <2> QED  BY <1>2, <1>4, <2>6, <2>7 DEF Ltp, Price
<1> QED  BY <1>3, <1>4

LEMMA GapIsNear ==
    ASSUME CallInv, ActiveRunners(book) # {}, NEW gap \in Gaps(book)
    PROVE  gap \in Int /\ Near(gap, SpreadFrom(Favourite(book)))
<1>1. /\ Favourite(book) \in Tradable
      /\ \A j \in Tradable : Ltp(Favourite(book)) <= Ltp(j)
  BY BookIsReadable, FavouritesAreFirst DEF Ltp, Price
<1> DEFINE p == Price(book, Favourite(book))
           q == Price(book, Second(book))
<1>2. /\ SpreadFrom(Favourite(book)) = IF HasSecond(book) THEN q - p ELSE Infinity
      /\ p \in Int
  BY <1>1, SpreadOfFavourite
<1>3. HasSecond(book) => q \in Int
  BY BookIsReadable, FavouritesAreFirst DEF Price, Readable, ActiveRunners
<1> HIDE DEF p, q
<1>4. CASE ~HasSecond(book)
  BY <1>2, <1>4 DEF Gaps, Near, Infinity
<1>5. CASE HasSecond(book)
  <2>1. gap \in Difference(q, p)
    BY <1>5 DEF Gaps, p, q
  <2>2. (gap \in {0} /\ p = q) \/ (\E e \in -1 .. 1 : gap = 10 * (q - p) + e)
    BY <2>1 DEF Difference
  <2> QED  BY <1>2, <1>3, <1>5, <2>2 DEF Near
<1> QED  BY <1>4, <1>5

\* A rule matches by its bounds on the spread, except at the very bound.
LEMMA MatchingIsApplying ==
    ASSUME CallInv, NEW k \in DOMAIN strategy.rules,
           NEW price \in Int, NEW spread \in Nat, NEW gap \in Int, Near(gap, spread)
    PROVE  \/ OnTheEdge(strategy.rules[k], spread)
           \/ Matches(strategy.rules[k], price, gap) <=> Applies(strategy.rules[k], price, spread)
<1> DEFINE r == strategy.rules[k]
<1>1. /\ r.band[1] \in Int /\ r.band[2] \in Int /\ r.gapLt \in Gap /\ r.gapGte \in Gap
  BY BookIsReadable DEF StrategyAssumed
<1>2. (r.band[1] <= price /\ price < r.band[2]) <=> price \in r.band[1] .. r.band[2] - 1
  BY <1>1
<1>3. ASSUME r.gapLt # None, spread # r.gapLt
      PROVE  gap < 10 * r.gapLt <=> spread < r.gapLt
  <2>1. r.gapLt \in Nat /\ 10 * r.gapLt <= Infinity
    BY <1>1, <1>3 DEF Gap
  <2> QED  BY <1>3, <2>1 DEF Near, Infinity
<1>4. ASSUME r.gapGte # None, spread # r.gapGte
      PROVE  gap >= 10 * r.gapGte <=> spread >= r.gapGte
  <2>1. r.gapGte \in Nat /\ 10 * r.gapGte <= Infinity
    BY <1>1, <1>4 DEF Gap
  <2> QED  BY <1>4, <2>1 DEF Near, Infinity
<1> QED  BY <1>2, <1>3, <1>4 DEF Matches, Applies, OnTheEdge

\* The selected rule is the first that matches.
LEMMA SelectedIsFirst ==
    ASSUME CallInv, NEW gap, MatchingRules(book, strategy, gap) # {}
    PROVE  /\ Chosen(gap) \in MatchingRules(book, strategy, gap)
           /\ Chosen(gap) \in Nat /\ Chosen(gap) \in DOMAIN strategy.rules
           /\ \A l \in MatchingRules(book, strategy, gap) : Chosen(gap) <= l
BY BookIsReadable, FirstOfTheRules DEF Chosen

\* A market is refused for want of a rule only if none matches its gap.
LEMMA RefusedForWantOfARule ==
    ASSUME CallInv, answer.reason = "no_matching_rule"
    PROVE  ActiveRunners(book) # {} /\ \E gap \in Gaps(book) : MatchingRules(book, strategy, gap) = {}
<1>1. answer \in Evaluate(book, strategy)
  BY DEF CallInv, Pending
<1>2. ActiveRunners(book) # {} /\ answer \in UNION {ApplyRules(book, strategy, gap) : gap \in Gaps(book)}
  BY <1>1 DEF Evaluate, NoBet
<1>3. PICK gap \in Gaps(book) : answer \in ApplyRules(book, strategy, gap)
  BY <1>2
<1>4. \A a \in Decisions(book, strategy, Chosen(gap), gap) : a.reason = "bet"
  BY DEF Decisions, LaysAt, Bets
<1>5. MatchingRules(book, strategy, gap) = {}
  BY <1>3, <1>4 DEF ApplyRules, NoBet, Chosen
<1> QED  BY <1>2, <1>5

\* What the bets of an answer say of the gap of their market.
LEMMA BetsAndTheirGap ==
    ASSUME CallInv, answer.bets # <<>>
    PROVE  \E gap \in Gaps(book) : \E pence :
             /\ Placed(gap, pence)
             /\ gap \in Int /\ Near(gap, SpreadFrom(answer.bets[1].sel))
             /\ SpreadFrom(answer.bets[1].sel) \in Nat
             /\ ~HasSecond(book) => SpreadFrom(answer.bets[1].sel) = Infinity
             /\ answer.bets[1].sel = Favourite(book)
             /\ answer.bets[1].price = Price(book, Favourite(book))
             /\ Price(book, Favourite(book)) \in Int
<1>1. Admitted(book, strategy) /\ \E gap \in Gaps(book) : \E pence : Placed(gap, pence)
  BY BetsAreTheFavourites DEF Pending
<1>2. PICK gap, pence : gap \in Gaps(book) /\ Placed(gap, pence)
  BY <1>1
<1>3. /\ answer.bets[1].sel = Favourite(book)
      /\ answer.bets[1].price = Price(book, Favourite(book))
  BY <1>2 DEF Placed, IsLay
<1>4. gap \in Int /\ Near(gap, SpreadFrom(Favourite(book)))
  BY <1>1, <1>2, GapIsNear DEF Admitted
<1>5. /\ Favourite(book) \in Tradable
      /\ \A j \in Tradable : Ltp(Favourite(book)) <= Ltp(j)
  BY <1>1, BookIsReadable, FavouritesAreFirst DEF Admitted, Ltp, Price
<1>6. /\ SpreadFrom(Favourite(book)) \in Nat /\ Price(book, Favourite(book)) \in Int
      /\ ~HasSecond(book) => SpreadFrom(Favourite(book)) = Infinity
  BY <1>5, SpreadOfFavourite
<1> QED  BY <1>2, <1>3, <1>4, <1>6

\* The first rule that applies gives the bet, and no market is refused for
\* want of a rule when one applies.
THEOREM FirstRule == Spec => []FirstRuleWins
<1>1. CallInv => FirstRuleWins
  <2> SUFFICES ASSUME CallInv PROVE FirstRuleWins
    OBVIOUS
  <2>1. ASSUME answer.bets # <<>>
        PROVE  LET price == answer.bets[1].price
                   gap == SpreadFrom(answer.bets[1].sel)
               IN  /\ Applies(Rule, price, gap) \/ OnTheEdge(Rule, gap)
                   /\ \A k \in 1 .. answer.bets[1].rule - 1 :
                         \/ ~Applies(strategy.rules[k], price, gap)
                         \/ OnTheEdge(strategy.rules[k], gap)
    <3>1. PICK gap, pence :
             /\ gap \in Gaps(book) /\ Placed(gap, pence)
             /\ gap \in Int /\ Near(gap, SpreadFrom(answer.bets[1].sel))
             /\ SpreadFrom(answer.bets[1].sel) \in Nat
             /\ answer.bets[1].price = Price(book, Favourite(book))
             /\ Price(book, Favourite(book)) \in Int
      BY <2>1, BetsAndTheirGap
    <3> DEFINE price == answer.bets[1].price
               spread == SpreadFrom(answer.bets[1].sel)
               rule == answer.bets[1].rule
    <3>2. rule = Chosen(gap) /\ MatchingRules(book, strategy, gap) # {}
      BY <3>1 DEF Placed, IsLay
    <3>3. /\ rule \in MatchingRules(book, strategy, gap) /\ rule \in Nat
          /\ rule \in DOMAIN strategy.rules
          /\ \A l \in MatchingRules(book, strategy, gap) : rule <= l
      BY <3>2, SelectedIsFirst
    <3>4. Matches(strategy.rules[rule], price, gap)
      BY <3>1, <3>3 DEF MatchingRules
    <3>5. Applies(Rule, price, spread) \/ OnTheEdge(Rule, spread)
      BY <3>1, <3>3, <3>4, MatchingIsApplying DEF Rule
    <3>6. ASSUME NEW k \in 1 .. rule - 1
          PROVE  ~Applies(strategy.rules[k], price, spread) \/ OnTheEdge(strategy.rules[k], spread)
      <4>1. k \notin MatchingRules(book, strategy, gap)
        BY <3>3
      <4>2. k \in DOMAIN strategy.rules
        <5>1. DOMAIN strategy.rules = 1 .. Len(strategy.rules) /\ Len(strategy.rules) \in Nat
          BY BookIsReadable DEF StrategyAssumed
        <5> QED  BY <3>3, <5>1
      <4>3. ~Matches(strategy.rules[k], price, gap)
        BY <3>1, <4>1, <4>2 DEF MatchingRules
      <4> QED  BY <3>1, <4>2, <4>3, MatchingIsApplying
    <3> QED  BY <3>5, <3>6
  <2>2. ASSUME answer.reason = "no_matching_rule",
               NEW i \in Tradable, NEW k \in DOMAIN strategy.rules,
               \A j \in Tradable : Ltp(i) <= Ltp(j)
        PROVE  \/ ~Applies(strategy.rules[k], Ltp(i), SpreadFrom(i))
               \/ OnTheEdge(strategy.rules[k], SpreadFrom(i))
    <3>1. ActiveRunners(book) # {}
      BY <2>2, RefusedForWantOfARule
    <3>2. PICK gap \in Gaps(book) : MatchingRules(book, strategy, gap) = {}
      BY <2>2, RefusedForWantOfARule
    <3>3. /\ Ltp(i) = Price(book, Favourite(book)) /\ Ltp(i) \in Int
          /\ SpreadFrom(i) \in Nat /\ SpreadFrom(i) = SpreadFrom(Favourite(book))
      <4>1. /\ Favourite(book) \in Tradable
            /\ \A j \in Tradable : Ltp(Favourite(book)) <= Ltp(j)
        BY <3>1, BookIsReadable, FavouritesAreFirst DEF Ltp, Price
      <4> QED  BY <2>2, <4>1, SpreadOfFavourite
    <3>4. gap \in Int /\ Near(gap, SpreadFrom(i))
      BY <3>1, <3>3, GapIsNear
    <3>5. ~Matches(strategy.rules[k], Ltp(i), gap)
      BY <3>2, <3>3 DEF MatchingRules
    <3> QED  BY <3>3, <3>4, <3>5, MatchingIsApplying
  <2> QED  BY <2>1, <2>2 DEF FirstRuleWins
<1> QED  BY <1>1, CallSafety, PTL

\* With spread control on, close favourites share a stake or there is no bet.
THEOREM TightAreShared == Spec => []TightMarketsAreShared
<1>1. CallInv => TightMarketsAreShared
  <2> SUFFICES ASSUME CallInv, strategy.controls.spreadControl, answer.bets # <<>>,
                      SpreadFrom(answer.bets[1].sel) < strategy.controls.spread
               PROVE  strategy.controls.jofs /\ Len(answer.bets) = 2
    BY DEF TightMarketsAreShared
  <2>1. PICK gap, pence :
           /\ gap \in Gaps(book) /\ Placed(gap, pence)
           /\ gap \in Int /\ Near(gap, SpreadFrom(answer.bets[1].sel))
           /\ SpreadFrom(answer.bets[1].sel) \in Nat
           /\ ~HasSecond(book) => SpreadFrom(answer.bets[1].sel) = Infinity
    BY BetsAndTheirGap
  <2>2. strategy.controls.spread \in Nat /\ 10 * strategy.controls.spread < Infinity
    BY BookIsReadable DEF StrategyAssumed
  <2>3. HasSecond(book) /\ gap < 10 * strategy.controls.spread
    BY <2>1, <2>2 DEF Near, Infinity
  <2>4. strategy.controls.jofs
    BY <2>1, <2>3 DEF Placed, SpreadBlocks
  <2>5. gap <= 10 * strategy.controls.spread
    BY <2>1, <2>2, <2>3
  <2>6. TwoLegs(book, strategy, Chosen(gap), gap)
    BY <2>3, <2>4, <2>5 DEF TwoLegs, Split
  <2> QED  BY <2>1, <2>4, <2>6 DEF Placed
<1> QED  BY <1>1, CallSafety, PTL

-----------------------------------------------------------------------------
(* The money.                                                              *)

\* What the code multiplies, in cubed Grain-ths of a penny.
Full(gap) == RuleStake(strategy.rules[Chosen(gap)]) * Uplift(strategy) * strategy.point

LEMMA FullStake ==
    ASSUME CallInv, NEW gap, MatchingRules(book, strategy, gap) # {}
    PROVE  Full(gap) \in Nat /\ Stake(strategy, Chosen(gap)) = 2 * Full(gap)
<1> DEFINE stake == RuleStake(strategy.rules[Chosen(gap)])
           uplift == Uplift(strategy)
           q == strategy.point
<1>1. stake \in Nat /\ strategy.controls.uplift \in Amount /\ q \in Nat
  BY SelectedIsFirst, BookIsReadable DEF StrategyAssumed, Amount, RuleStake
<1>2. uplift \in Nat
  BY <1>1, GrainAssumption DEF Uplift, Amount, None
<1>3. Full(gap) = stake * uplift * q /\ Stake(strategy, Chosen(gap)) = 2 * stake * uplift * q
  BY DEF Full, Stake
<1> HIDE DEF stake, uplift, q
<1>4. stake * uplift \in Nat
  BY <1>1, <1>2, ProductIsNatural
<1>5. stake * uplift * q \in Nat /\ 2 * stake * uplift * q = 2 * (stake * uplift * q)
  BY <1>1, <1>2, <1>4, ProductIsNatural
<1> QED  BY <1>3, <1>5

LEMMA HalfIsBack == ASSUME NEW n \in Nat PROVE (2 * n) \div 2 = n
OBVIOUS

\* The stake of a leg, and the pence it is rounded to.
LEMMA LegIsSharedOrWhole ==
    ASSUME CallInv, NEW gap, NEW pence, Placed(gap, pence)
    PROVE  /\ Full(gap) \in Nat /\ LegStake(gap) \in Nat /\ pence \in Int
           /\ RoundsTo(pence, LegStake(gap), Penny)
           /\ LegStake(gap) = IF Split(book, strategy, gap) THEN Full(gap) ELSE 2 * Full(gap)
<1>1. Full(gap) \in Nat /\ Stake(strategy, Chosen(gap)) = 2 * Full(gap)
  BY FullStake DEF Placed
<1>2. LegStake(gap) = IF Split(book, strategy, gap) THEN Full(gap) ELSE 2 * Full(gap)
  BY <1>1, HalfIsBack DEF LegStake, Leg
<1>3. LegStake(gap) \in Nat
  BY <1>1, <1>2
<1>4. pence \in Int /\ RoundsTo(pence, LegStake(gap), Penny)
  <2>1. pence \in Nearest(LegStake(gap), Penny)
    BY DEF Placed
  <2> QED  BY <1>3, <2>1, NearestIsNear, PennyIsPositive DEF RoundsTo
<1> QED  BY <1>1, <1>2, <1>3, <1>4

\* An amount rounds as its double does to double the units.
LEMMA RoundingTwice ==
    ASSUME NEW p \in Int, NEW a \in Nat, NEW u \in Nat
    PROVE  RoundsTo(p, 2 * a, 2 * u) => RoundsTo(p, a, u)
<1>1. p * (2 * u) = 2 * (p * u) /\ p * u \in Int
  OBVIOUS
<1> QED  BY <1>1 DEF RoundsTo

\* Joint favourites share one stake, anybody else is laid the whole of it:
\* within half a penny of the formula, for any decimals, unless the uplift is 0.
THEOREM StakesFollow == Spec => []StakeFollowsFormula
<1>1. CallInv => StakeFollowsFormula
  <2> SUFFICES ASSUME CallInv, answer.bets # <<>>, strategy.controls.uplift # 0
               PROVE  StakeFollowsFormula
    BY DEF StakeFollowsFormula
  <2>1. PICK gap, pence :
           /\ gap \in Gaps(book) /\ Placed(gap, pence)
           /\ gap \in Int /\ Near(gap, SpreadFrom(answer.bets[1].sel))
           /\ SpreadFrom(answer.bets[1].sel) \in Nat
           /\ ~HasSecond(book) => SpreadFrom(answer.bets[1].sel) = Infinity
    BY BetsAndTheirGap
  <2> DEFINE units == Grain * Grain * Grain
             spread == SpreadFrom(answer.bets[1].sel)
             shared == Len(answer.bets) = 2 /\ RoundsTo(pence, Formula, 2 * units)
             whole == /\ RoundsTo(pence, Formula, units)
                      /\ Len(answer.bets) = 2 => Rule.also2nd
             joint == strategy.controls.jofs /\ spread <= strategy.controls.spread
  <2>2. /\ answer.bets[1].rule = Chosen(gap) /\ answer.bets[1].stake = pence
        /\ \A i \in DOMAIN answer.bets : answer.bets[i].stake = answer.bets[1].stake
    BY <2>1 DEF Placed, IsLay
  <2>3. Formula = Full(gap)
    BY <2>2 DEF Formula, Full, Rule, RuleStake, Uplift
  <2>4. /\ Full(gap) \in Nat /\ pence \in Int
        /\ RoundsTo(pence, LegStake(gap), Penny)
        /\ LegStake(gap) = IF Split(book, strategy, gap) THEN Full(gap) ELSE 2 * Full(gap)
        /\ units \in Nat /\ Penny = 2 * units
    BY <2>1, LegIsSharedOrWhole, PennyIsPositive
  <2> HIDE DEF units
  <2>5. Split(book, strategy, gap) => shared
    <3>1. Split(book, strategy, gap) => Len(answer.bets) = 2
      BY <2>1 DEF Placed, TwoLegs
    <3> QED  BY <2>3, <2>4, <3>1
  <2>6. ~Split(book, strategy, gap) => whole
    <3>1. ~Split(book, strategy, gap) /\ Len(answer.bets) = 2 => Rule.also2nd
      BY <2>1, <2>2 DEF Placed, TwoLegs, Rule
    <3>2. ~Split(book, strategy, gap) => RoundsTo(pence, Full(gap), units)
      BY <2>4, RoundingTwice
    <3> QED  BY <2>3, <3>1, <3>2
  <2>7. strategy.controls.spread \in Nat /\ 10 * strategy.controls.spread < Infinity
    BY BookIsReadable DEF StrategyAssumed
  <2>8. joint /\ spread # strategy.controls.spread => Split(book, strategy, gap)
    <3> HIDE DEF spread
    <3>1. joint /\ spread # strategy.controls.spread
            => HasSecond(book) /\ gap <= 10 * strategy.controls.spread
      BY <2>1, <2>7 DEF Near, Infinity, spread
    <3> QED  BY <3>1 DEF Split
  <2>9. ~joint => ~Split(book, strategy, gap)
    <3> HIDE DEF spread
    <3>1. ~(spread <= strategy.controls.spread) => ~(gap <= 10 * strategy.controls.spread)
      BY <2>1, <2>7 DEF Near, Infinity, spread
    <3> QED  BY <3>1 DEF Split
  <2>10. /\ joint => shared \/ (spread = strategy.controls.spread /\ whole)
         /\ ~joint => whole
    <3> HIDE DEF joint, shared, whole, spread
    <3> QED  BY <2>5, <2>6, <2>8, <2>9
  <2> QED  BY <2>2, <2>10 DEF StakeFollowsFormula, units
<1> QED  BY <1>1, CallSafety, PTL

\* Rounding the stake moves a product by no more than the other factor.
LEMMA RoundedProduct ==
    ASSUME NEW h \in Int, NEW p \in Int, NEW u \in Nat, NEW x \in Nat, RoundsTo(p, h, u)
    PROVE  /\ h * x \in Int /\ p * x \in Int
           /\ 2 * ((p * x) * u - h * x) <= u * x /\ 2 * (h * x - (p * x) * u) <= u * x
<1> DEFINE over == u - 2 * (p * u - h)
           under == u - 2 * (h - p * u)
<1>1. over \in Nat /\ under \in Nat /\ p * u \in Int
  BY DEF RoundsTo
<1>2. over * x \in Nat /\ under * x \in Nat
  <2> HIDE DEF over, under
  <2> QED  BY <1>1, ProductIsNatural
<1>3. (p * u) * x = (p * x) * u /\ h * x \in Int /\ p * x \in Int /\ (p * x) * u \in Int /\ u * x \in Int
  OBVIOUS
<1>4. /\ over * x = u * x - 2 * ((p * u) * x - h * x)
      /\ under * x = u * x - 2 * (h * x - (p * u) * x)
  BY <1>1
<1> QED  BY <1>2, <1>3, <1>4

\* Both sides of a bound may be divided by the units.
LEMMA Divided ==
    ASSUME NEW m \in Int, NEW n \in Int, NEW u \in Nat \ {0}, m * u <= n * u
    PROVE  m <= n
<1>1. CASE m > n
  <2>1. (m - n - 1) * u \in Nat /\ m * u \in Int /\ n * u \in Int
    BY <1>1, ProductIsNatural
  <2>2. (m - n - 1) * u = m * u - n * u - u
    OBVIOUS
  <2> QED  BY <2>1, <2>2
<1> QED  BY <1>1

WithinSlack(li, pence, price) ==
    LET error == 100 * li - pence * (price - 100)
        slack == 50 + (price - 99) \div 2
    IN  -slack <= error /\ error <= slack

LEMMA ErrorWithinSlack ==
    ASSUME NEW h \in Int, NEW pence \in Int, NEW price \in Int, price > 100,
           NEW u \in Nat \ {0}, RoundsTo(pence, h, u),
           NEW li \in Nearest(h * (price - 100), 100 * u)
    PROVE  WithinSlack(li, pence, price)
<1> DEFINE x == price - 100
           a == h * x
           b == pence * x
<1>1. x \in Nat
  OBVIOUS
<1>2. /\ a \in Int /\ b \in Int
      /\ 2 * (b * u - a) <= u * x /\ 2 * (a - b * u) <= u * x
  <2> HIDE DEF x
  <2> QED  BY <1>1, RoundedProduct
<1>3. li \in Int /\ 2 * (a - li * (100 * u)) <= 100 * u /\ 2 * (li * (100 * u) - a) <= 100 * u
  <2>1. li \in Nearest(a, 100 * u) /\ 100 * u \in Nat \ {0}
    OBVIOUS
  <2> HIDE DEF a
  <2> QED  BY <1>2, <2>1, NearestIsNear
<1> HIDE DEF a, b, x
<1>4. /\ (2 * (100 * li - b)) * u <= (100 + x) * u
      /\ (2 * (b - 100 * li)) * u <= (100 + x) * u
  <2>1. /\ li * (100 * u) = 100 * (li * u) /\ li * u \in Int
        /\ (2 * (100 * li - b)) * u = 200 * (li * u) - 2 * (b * u) /\ b * u \in Int
        /\ (2 * (b - 100 * li)) * u = 2 * (b * u) - 200 * (li * u)
        /\ (100 + x) * u = 100 * u + u * x /\ u * x \in Int
    BY <1>1, <1>2, <1>3
  <2> QED  BY <1>2, <1>3, <2>1
<1>5. 2 * (100 * li - b) <= 100 + x /\ 2 * (b - 100 * li) <= 100 + x
  BY <1>1, <1>2, <1>3, <1>4, Divided
<1>6. PICK k \in Int : k = (price - 99) \div 2 /\ 2 * k >= x
  BY DEF x
<1>7. 100 * li - b <= 50 + k /\ -(50 + k) <= 100 * li - b
  BY <1>1, <1>2, <1>3, <1>5, <1>6
<1> QED  BY <1>6, <1>7 DEF WithinSlack, b, x

\* The liability of a bet is that of its stake, up to rounding.
THEOREM LiabilityFollows == Spec => []LiabilityFollowsStake
<1>1. CallInv => LiabilityFollowsStake
  <2> SUFFICES ASSUME CallInv, NEW i \in DOMAIN answer.bets
               PROVE  LET b == answer.bets[i]
                          error == 100 * b.liability - b.stake * (b.price - 100)
                          slack == 50 + (b.price - 99) \div 2
                      IN  -slack <= error /\ error <= slack
    BY DEF LiabilityFollowsStake
  <2>1. answer.bets # <<>>
    OBVIOUS
  <2>2. Admitted(book, strategy) /\ \E gap \in Gaps(book) : \E pence : Placed(gap, pence)
    BY <2>1, BetsAreTheFavourites DEF Pending
  <2>3. PICK gap, pence : Placed(gap, pence)
    BY <2>2
  <2>4. PICK sel \in ActiveRunners(book) : IsLay(answer.bets[i], sel, gap, pence)
    BY <2>2, <2>3, BookIsReadable, FavouritesAreFirst DEF Placed, Admitted
  <2>5. Price(book, sel) \in Int /\ Price(book, sel) > 100
    BY BookIsReadable DEF Readable, ActiveRunners, Price
  <2>6. LegStake(gap) \in Int /\ pence \in Int /\ RoundsTo(pence, LegStake(gap), Penny)
    BY <2>3, LegIsSharedOrWhole
  <2> DEFINE b == answer.bets[i]
  <2>7. /\ b.price = Price(book, sel) /\ b.stake = pence
        /\ b.liability \in Nearest(LegStake(gap) * (Price(book, sel) - 100), 100 * Penny)
    BY <2>4 DEF IsLay
  <2> HIDE DEF b
  <2>8. PICK h \in Int : h = LegStake(gap)
    BY <2>6
  <2>9. PICK price \in Int : price = Price(book, sel) /\ price > 100
    BY <2>5
  <2>10. PICK li \in Nearest(h * (price - 100), 100 * Penny) : li = b.liability
    BY <2>7, <2>8, <2>9
  <2>11. RoundsTo(pence, h, Penny) /\ pence \in Int /\ Penny \in Nat \ {0}
    BY <2>6, <2>8, PennyIsPositive
  <2>12. WithinSlack(li, pence, price)
    BY <2>9, <2>11, ErrorWithinSlack, Zenon
  <2>13. WithinSlack(b.liability, b.stake, b.price)
    BY <2>7, <2>9, <2>10, <2>12
  <2> QED  BY <2>13 DEF WithinSlack, b
<1> QED  BY <1>1, CallSafety, PTL

-----------------------------------------------------------------------------
(* Two books between which evaluate() cannot tell, except for the          *)
(* positions of the two favourites.                                        *)

Alike(b, c) ==
    /\ c.defined = b.defined /\ c.inPlay = b.inPlay
    /\ c.country = b.country /\ c.marketType = b.marketType
    /\ ActiveRunners(c) = {} <=> ActiveRunners(b) = {}
    /\ ActiveRunners(b) # {} =>
         /\ Price(c, Favourite(c)) = Price(b, Favourite(b))
         /\ HasSecond(c) <=> HasSecond(b)
         /\ HasSecond(b) => Price(c, Second(c)) = Price(b, Second(b))

\* The bet with the money of another, on the runner at position i.
On(i, bet) ==
    [sel |-> i, price |-> bet.price, stake |-> bet.stake,
     liability |-> bet.liability, rule |-> bet.rule]

\* The answer that places the bets of a, given for b, on the favourites of c.
Moves(a, b, c, moved) ==
    /\ a.bets = <<>> => moved = a
    /\ \A l : a = Bets(<<On(Favourite(b), l)>>) => moved = Bets(<<On(Favourite(c), l)>>)
    /\ \A l, m : a = Bets(<<On(Favourite(b), l), On(Second(b), m)>>)
                   => moved = Bets(<<On(Favourite(c), l), On(Second(c), m)>>)

LEMMA AlikeBooks ==
    ASSUME NEW b, NEW c, Alike(b, c), ActiveRunners(b) # {}, NEW s
    PROVE  /\ Gaps(c) = Gaps(b)
           /\ \A gap : /\ MatchingRules(c, s, gap) = MatchingRules(b, s, gap)
                       /\ SelectedRule(c, s, gap) = SelectedRule(b, s, gap)
                       /\ SpreadBlocks(c, s, gap) <=> SpreadBlocks(b, s, gap)
                       /\ \A rule : /\ Leg(c, s, rule, gap) = Leg(b, s, rule, gap)
                                    /\ TwoLegs(c, s, rule, gap) <=> TwoLegs(b, s, rule, gap)
<1>1. /\ Price(c, Favourite(c)) = Price(b, Favourite(b))
      /\ HasSecond(c) <=> HasSecond(b)
      /\ HasSecond(b) => Price(c, Second(c)) = Price(b, Second(b))
  BY DEF Alike
<1>2. Gaps(c) = Gaps(b)
  BY <1>1 DEF Gaps
<1>3. ASSUME NEW gap
      PROVE  /\ MatchingRules(c, s, gap) = MatchingRules(b, s, gap)
             /\ SelectedRule(c, s, gap) = SelectedRule(b, s, gap)
             /\ SpreadBlocks(c, s, gap) <=> SpreadBlocks(b, s, gap)
             /\ \A rule : /\ Leg(c, s, rule, gap) = Leg(b, s, rule, gap)
                          /\ TwoLegs(c, s, rule, gap) <=> TwoLegs(b, s, rule, gap)
  <2>1. MatchingRules(c, s, gap) = MatchingRules(b, s, gap)
    BY <1>1 DEF MatchingRules
  <2>2. SelectedRule(c, s, gap) = SelectedRule(b, s, gap)
    BY <2>1 DEF SelectedRule
  <2>3. Split(c, s, gap) <=> Split(b, s, gap)
    BY <1>1 DEF Split
  <2>4. \A rule : Leg(c, s, rule, gap) = Leg(b, s, rule, gap)
    BY <2>3 DEF Leg
  <2>5. \A rule : TwoLegs(c, s, rule, gap) <=> TwoLegs(b, s, rule, gap)
    BY <1>1, <2>3 DEF TwoLegs
  <2>6. SpreadBlocks(c, s, gap) <=> SpreadBlocks(b, s, gap)
    BY <1>1 DEF SpreadBlocks
  <2> QED  BY <2>1, <2>2, <2>4, <2>5, <2>6
<1> QED  BY <1>2, <1>3

\* A lay of a runner is the lay of any runner at that price, moved.
LEMMA LaysMove ==
    ASSUME NEW b, NEW c, NEW i, NEW j, Price(c, j) = Price(b, i),
           NEW rule, NEW half, NEW pence, NEW l \in Lay(b, i, rule, half, pence)
    PROVE  l = On(i, l) /\ On(j, l) \in Lay(c, j, rule, half, pence)
BY DEF Lay, On

LEMMA AlikeAnswers ==
    ASSUME NEW b, NEW c, Alike(b, c), NEW s, NEW a \in Evaluate(b, s),
           NEW moved, Moves(a, b, c, moved)
    PROVE  moved \in Evaluate(c, s)
<1> DEFINE Refused(d) ==
               \/ ~d.defined \/ d.inPlay \/ Filtered(d.country, s.countries)
               \/ Filtered(d.marketType, s.marketTypes) \/ ActiveRunners(d) = {}
               \/ Price(d, Favourite(d)) < s.controls.floor
               \/ Price(d, Favourite(d)) > s.controls.ceiling
<1>1. CASE Refused(b)
  <2>1. Evaluate(c, s) = Evaluate(b, s)
    BY <1>1 DEF Alike, Evaluate
  <2>2. a.bets = <<>>
    BY <1>1 DEF Evaluate, NoBet
  <2> QED  BY <2>1, <2>2 DEF Moves
<1>2. CASE ~Refused(b)
  <2>1. /\ ActiveRunners(b) # {}
        /\ Evaluate(b, s) = UNION {ApplyRules(b, s, gap) : gap \in Gaps(b)}
        /\ Evaluate(c, s) = UNION {ApplyRules(c, s, gap) : gap \in Gaps(c)}
    BY <1>2 DEF Alike, Evaluate
  <2>2. PICK gap \in Gaps(b) : a \in ApplyRules(b, s, gap)
    BY <2>1
  <2> DEFINE rule == SelectedRule(b, s, gap)
             leg == Leg(b, s, rule, gap)
  <2>3. /\ Gaps(c) = Gaps(b) /\ MatchingRules(c, s, gap) = MatchingRules(b, s, gap)
        /\ SelectedRule(c, s, gap) = rule
        /\ SpreadBlocks(c, s, gap) <=> SpreadBlocks(b, s, gap)
        /\ Leg(c, s, rule, gap) = leg
        /\ TwoLegs(c, s, rule, gap) <=> TwoLegs(b, s, rule, gap)
    BY <2>1, AlikeBooks
  <2> SUFFICES moved \in ApplyRules(c, s, gap)
    BY <2>1, <2>2, <2>3
  <2>4. CASE MatchingRules(b, s, gap) = {} \/ SpreadBlocks(b, s, gap)
    <3>1. ApplyRules(c, s, gap) = ApplyRules(b, s, gap) /\ a.bets = <<>>
      BY <2>2, <2>3, <2>4 DEF ApplyRules, NoBet
    <3> QED  BY <2>2, <3>1 DEF Moves
  <2>5. CASE ~(MatchingRules(b, s, gap) = {} \/ SpreadBlocks(b, s, gap))
    <3>1. a \in Decisions(b, s, rule, gap) /\ ApplyRules(c, s, gap) = Decisions(c, s, rule, gap)
      BY <2>2, <2>3, <2>5 DEF ApplyRules
    <3>2. PICK pence \in Nearest(leg, Penny) : a \in LaysAt(b, s, rule, gap, pence)
      BY <3>1 DEF Decisions
    <3>3. moved \in LaysAt(c, s, rule, gap, pence)
      <4>1. CASE TwoLegs(b, s, rule, gap)
        <5>1. PICK l \in Lay(b, Favourite(b), rule, leg, pence),
                   m \in Lay(b, Second(b), rule, leg, pence) : a = Bets(<<l, m>>)
          BY <3>2, <4>1 DEF LaysAt
        <5>2. /\ Price(c, Favourite(c)) = Price(b, Favourite(b))
              /\ Price(c, Second(c)) = Price(b, Second(b))
          BY <2>1, <4>1 DEF Alike, TwoLegs, Split
        <5>3. /\ l = On(Favourite(b), l) /\ m = On(Second(b), m)
              /\ On(Favourite(c), l) \in Lay(c, Favourite(c), rule, leg, pence)
              /\ On(Second(c), m) \in Lay(c, Second(c), rule, leg, pence)
          BY <5>1, <5>2, LaysMove
        <5>4. moved = Bets(<<On(Favourite(c), l), On(Second(c), m)>>)
          BY <5>1, <5>3, Zenon DEF Moves
        <5> QED  BY <2>3, <4>1, <5>3, <5>4 DEF LaysAt
      <4>2. CASE ~TwoLegs(b, s, rule, gap)
        <5>1. PICK l \in Lay(b, Favourite(b), rule, leg, pence) : a = Bets(<<l>>)
          BY <3>2, <4>2 DEF LaysAt
        <5>2. Price(c, Favourite(c)) = Price(b, Favourite(b))
          BY <2>1 DEF Alike
        <5>3. /\ l = On(Favourite(b), l)
              /\ On(Favourite(c), l) \in Lay(c, Favourite(c), rule, leg, pence)
          BY <5>1, <5>2, LaysMove
        <5>4. moved = Bets(<<On(Favourite(c), l)>>)
          BY <5>1, <5>3, Zenon DEF Moves
        <5> QED  BY <2>3, <4>2, <5>3, <5>4 DEF LaysAt
      <4> QED  BY <4>1, <4>2
    <3>4. moved \in Decisions(c, s, rule, gap)
      BY <2>3, <3>2, <3>3, Zenon DEF Decisions
    <3> QED  BY <3>1, <3>4
  <2> QED  BY <2>4, <2>5
<1> QED  BY <1>1, <1>2

\* The book without the price of the runner at position k.
Without(k) == [book EXCEPT !.runners[k].ltp = None]

LEMMA WithoutAnOutsider ==
    ASSUME CallInv, ActiveRunners(book) # {}, NEW k \in DOMAIN book.runners,
           k # Favourite(book), HasSecond(book) => k # Second(book)
    PROVE  /\ Alike(book, Without(k)) /\ Favourite(Without(k)) = Favourite(book)
           /\ HasSecond(book) => Second(Without(k)) = Second(book)
<1> DEFINE c == Without(k)
           A == ActiveRunners(book)
           fav == Favourite(book)
           snd == Second(book)
<1>1. BookAssumed(book) /\ Readable(book)
  BY InputsAssumption, BookIsReadable DEF CallInv
<1>2. /\ c.defined = book.defined /\ c.inPlay = book.inPlay
      /\ c.country = book.country /\ c.marketType = book.marketType
      /\ DOMAIN c.runners = DOMAIN book.runners /\ c.runners[k].ltp = None
      /\ \A i \in DOMAIN book.runners \ {k} : c.runners[i] = book.runners[i]
  BY <1>1 DEF BookAssumed, Without
<1> HIDE DEF c
<1>3. Readable(c)
  BY <1>1, <1>2 DEF Readable, None
<1>4. ActiveRunners(c) = A \ {k}
  <2>1. k \notin ActiveRunners(c)
    <3>1. c.runners[k].ltp = -1
      BY <1>2 DEF None
    <3>2. ASSUME k \in ActiveRunners(c) PROVE c.runners[k].ltp > 100
      BY <3>2 DEF ActiveRunners
    <3> QED  BY <3>1, <3>2
  <2>2. ASSUME NEW i \in DOMAIN book.runners \ {k}
        PROVE  i \in ActiveRunners(c) <=> i \in A
    BY <1>2 DEF ActiveRunners
  <2>3. ActiveRunners(c) \subseteq DOMAIN book.runners /\ A \subseteq DOMAIN book.runners
    BY <1>2 DEF ActiveRunners
  <2> QED  BY <2>1, <2>2, <2>3
<1>5. \A i \in A \ {k} : Price(c, i) = Price(book, i) /\ Price(book, i) \in Int /\ i \in Nat
  BY <1>1, <1>2 DEF ActiveRunners, Price, Readable
<1>6. /\ fav \in A \ {k}
      /\ \A j \in A : /\ Price(book, fav) <= Price(book, j)
                      /\ Price(book, fav) = Price(book, j) => fav <= j
  BY <1>1, CheapestIsFirst DEF Favourite
<1>7. Favourite(c) = fav
  <2>1. \A j \in A \ {k} : Price(c, fav) < Price(c, j) \/ (Price(c, fav) = Price(c, j) /\ fav <= j)
    BY <1>5, <1>6
  <2>2. Cheapest(c, A \ {k}) = fav
    BY <1>3, <1>4, <1>6, <2>1, CheapestIs
  <2> QED  BY <1>4, <2>2 DEF Favourite
<1>8. ASSUME HasSecond(book)
      PROVE  /\ HasSecond(c) /\ Second(c) = snd /\ Price(c, snd) = Price(book, snd)
  <2>1. snd \in A \ {fav} /\ snd # k
    BY <1>1, <1>8, FavouritesAreFirst
  <2>2. \A j \in A \ {fav} : /\ Price(book, snd) <= Price(book, j)
                             /\ Price(book, snd) = Price(book, j) => snd <= j
    <3>1. A \ {fav} # {} /\ A \ {fav} \subseteq ActiveRunners(book)
      BY <2>1
    <3> QED  BY <1>1, <3>1, CheapestIsFirst DEF Second
  <2> DEFINE R == (A \ {k}) \ {fav}
  <2>3. /\ R \subseteq ActiveRunners(c) /\ snd \in R
        /\ \A j \in R : Price(c, snd) < Price(c, j) \/ (Price(c, snd) = Price(c, j) /\ snd <= j)
    BY <1>4, <1>5, <2>1, <2>2
  <2>4. Cheapest(c, R) = snd
    <3> HIDE DEF R
    <3> QED  BY <1>3, <2>3, CheapestIs
  <2>5. HasSecond(c)
    BY <1>3, <1>4, <1>7, <2>1, SecondIsAnother
  <2> QED  BY <1>4, <1>5, <1>7, <2>1, <2>4, <2>5 DEF Second
<1>9. HasSecond(c) => HasSecond(book)
  BY <1>1, <1>3, <1>4, <1>6, <1>7, SecondIsAnother
<1>10. HasSecond(c) <=> HasSecond(book)
  BY <1>8, <1>9
<1>11. Alike(book, c)
  BY <1>2, <1>4, <1>5, <1>6, <1>7, <1>8, <1>10 DEF Alike
<1> QED  BY <1>7, <1>8, <1>11 DEF c

\* An outsider that loses its price changes no bet.
THEOREM OutsidersAreIrrelevant == Spec => []OutsidersDoNotMatter
<1>1. CallInv => OutsidersDoNotMatter
  <2> SUFFICES ASSUME CallInv, answer.bets # <<>>, NEW k \in DOMAIN book.runners \ Laid,
                      ~(/\ k \in Tradable
                        /\ Ltp(k) - Ltp(answer.bets[1].sel) = SpreadFrom(answer.bets[1].sel))
               PROVE  answer \in Evaluate(Without(k), strategy)
    BY DEF OutsidersDoNotMatter, Without
  <2>1. answer \in Evaluate(book, strategy)
    BY DEF CallInv, Pending
  <2>2. Admitted(book, strategy) /\ \E gap \in Gaps(book) : \E pence : Placed(gap, pence)
    BY BetsAreTheFavourites DEF Pending
  <2>3. PICK gap, pence : Placed(gap, pence)
    BY <2>2
  <2>4. ActiveRunners(book) # {} /\ answer.bets[1].sel = Favourite(book)
    BY <2>2, <2>3 DEF Admitted, Placed, IsLay
  <2>5. k # Favourite(book)
    BY <2>3, <2>4 DEF Placed, Laid
  <2>6. ASSUME HasSecond(book) PROVE k # Second(book)
    <3>1. /\ Second(book) \in Tradable /\ Favourite(book) \in Tradable
          /\ \A j \in Tradable : Ltp(Favourite(book)) <= Ltp(j)
      BY <2>4, <2>6, BookIsReadable, FavouritesAreFirst DEF Ltp, Price
    <3>2. SpreadFrom(Favourite(book)) = Ltp(Second(book)) - Ltp(Favourite(book))
      BY <2>6, <3>1, SpreadOfFavourite DEF Ltp, Price
    <3> QED  BY <2>4, <3>1, <3>2
  <2>7. /\ Alike(book, Without(k)) /\ Favourite(Without(k)) = Favourite(book)
        /\ HasSecond(book) => Second(Without(k)) = Second(book)
    BY <2>4, <2>5, <2>6, WithoutAnOutsider
  <2>8. Moves(answer, book, Without(k), answer)
    <3>1. ASSUME NEW l, NEW m, answer = Bets(<<On(Favourite(book), l), On(Second(book), m)>>)
          PROVE  HasSecond(book)
      <4>1. Len(answer.bets) = 2
        BY <3>1 DEF Bets
      <4> QED  BY <2>3, <4>1 DEF Placed
    <3> QED  BY <2>7, <3>1 DEF Moves
  <2> QED  BY <2>1, <2>7, <2>8, AlikeAnswers
<1> QED  BY <1>1, CallSafety, PTL

\* As many prices as runners: no two runners have the same.
LEMMA PricesAreDistinct ==
    ASSUME CallInv, Cardinality(Prices) = Cardinality(Tradable)
    PROVE  \A i, j \in Tradable : Ltp(i) = Ltp(j) => i = j
<1> DEFINE f == [i \in Tradable |-> Ltp(i)]
<1>1. IsFiniteSet(Tradable)
  <2>1. Tradable \subseteq DOMAIN book.runners
    BY DEF Tradable
  <2> QED  BY <2>1, BookIsReadable, FS_Subset DEF Readable
<1>2. f \in Surjection(Tradable, Prices)
  BY DEF Surjection, Prices
<1>3. f \in Injection(Tradable, Prices)
  <2> HIDE DEF f
  <2> QED  BY <1>1, <1>2, FS_Surjection
<1> QED  BY <1>3 DEF Injection, IsInjective

\* The book with its runners listed the other way round.
Mirrored == [book EXCEPT !.runners = Reverse(book.runners)]

LEMMA MirrorOfABook ==
    ASSUME CallInv
    PROVE  /\ Mirrored.defined = book.defined /\ Mirrored.inPlay = book.inPlay
           /\ Mirrored.country = book.country /\ Mirrored.marketType = book.marketType
           /\ Readable(Mirrored)
           /\ \A i \in ActiveRunners(book) :
                 Mirror(i) \in ActiveRunners(Mirrored) /\ Mirror(Mirror(i)) = i
           /\ \A i \in ActiveRunners(Mirrored) :
                 /\ Mirror(i) \in ActiveRunners(book) /\ Mirror(Mirror(i)) = i
                 /\ Price(Mirrored, i) = Ltp(Mirror(i))
<1> DEFINE c == Mirrored
           n == Len(book.runners)
<1>1. BookAssumed(book)
  BY InputsAssumption DEF CallInv
<1>2. n \in Nat /\ DOMAIN book.runners = 1 .. n
  BY <1>1 DEF BookAssumed
<1>3. /\ c.defined = book.defined /\ c.inPlay = book.inPlay
      /\ c.country = book.country /\ c.marketType = book.marketType
      /\ c.runners = [i \in 1 .. n |-> book.runners[(n - i) + 1]]
  BY <1>1 DEF BookAssumed, Mirrored, Reverse
<1> HIDE DEF c
<1>4. \A i \in 1 .. n : /\ Mirror(i) \in 1 .. n /\ Mirror(Mirror(i)) = i
                        /\ c.runners[i] = book.runners[Mirror(i)]
  <2> SUFFICES ASSUME NEW i \in 1 .. n
               PROVE  /\ Mirror(i) \in 1 .. n /\ Mirror(Mirror(i)) = i
                      /\ c.runners[i] = book.runners[Mirror(i)]
    OBVIOUS
  <2>1. Mirror(i) = (n - i) + 1 /\ Mirror(i) \in 1 .. n /\ Mirror(Mirror(i)) = i
    BY <1>2 DEF Mirror
  <2> QED  BY <1>3, <2>1
<1>5. DOMAIN c.runners = 1 .. n
  BY <1>3
<1>6. Readable(c)
  <2>1. IsFiniteSet(1 .. n)
    <3> HIDE DEF n
    <3> QED  BY <1>2, FS_Interval
  <2> QED  BY <1>1, <1>2, <1>4, <1>5, <2>1 DEF Readable, BookAssumed
<1>7. \A i \in ActiveRunners(book) : Mirror(i) \in ActiveRunners(c) /\ Mirror(Mirror(i)) = i
  BY <1>2, <1>4, <1>5 DEF ActiveRunners
<1>8. \A i \in ActiveRunners(c) : /\ Mirror(i) \in ActiveRunners(book) /\ Mirror(Mirror(i)) = i
                                  /\ Price(c, i) = Ltp(Mirror(i))
  BY <1>2, <1>4, <1>5 DEF ActiveRunners, Price, Ltp
<1> QED  BY <1>3, <1>6, <1>7, <1>8 DEF c

LEMMA MirrorIsAlike ==
    ASSUME CallInv, Cardinality(Prices) = Cardinality(Tradable)
    PROVE  /\ Alike(book, Mirrored)
           /\ ActiveRunners(book) # {} => Favourite(Mirrored) = Mirror(Favourite(book))
           /\ ActiveRunners(book) # {} /\ HasSecond(book) =>
                Second(Mirrored) = Mirror(Second(book))
<1> DEFINE c == Mirrored
           A == ActiveRunners(book)
           fav == Favourite(book)
           snd == Second(book)
<1>1. /\ c.defined = book.defined /\ c.inPlay = book.inPlay
      /\ c.country = book.country /\ c.marketType = book.marketType
      /\ Readable(c)
      /\ \A i \in A : Mirror(i) \in ActiveRunners(c) /\ Mirror(Mirror(i)) = i
      /\ \A i \in ActiveRunners(c) :
            /\ Mirror(i) \in A /\ Mirror(Mirror(i)) = i /\ Price(c, i) = Ltp(Mirror(i))
  BY MirrorOfABook
<1> HIDE DEF c
<1>2. /\ Readable(book) /\ A = Tradable
      /\ \A i, j \in A : Ltp(i) = Ltp(j) => i = j
      /\ \A i \in A : Ltp(i) \in Int
  BY BookIsReadable, PricesAreDistinct DEF Readable, ActiveRunners, Ltp
<1>3. ActiveRunners(c) = {} <=> A = {}
  BY <1>1
<1>4. ASSUME A # {}
      PROVE  /\ Favourite(c) = Mirror(fav) /\ Price(c, Favourite(c)) = Price(book, fav)
             /\ HasSecond(c) <=> HasSecond(book)
             /\ HasSecond(book) =>
                  Second(c) = Mirror(snd) /\ Price(c, Second(c)) = Price(book, snd)
  <2>1. fav \in A /\ \A j \in A : Ltp(fav) <= Ltp(j)
    BY <1>2, <1>4, FavouritesAreFirst DEF Ltp, Price
  <2>2. Favourite(c) = Mirror(fav)
    <3>1. ASSUME NEW j \in ActiveRunners(c)
          PROVE  \/ Price(c, Mirror(fav)) < Price(c, j)
                 \/ Price(c, Mirror(fav)) = Price(c, j) /\ Mirror(fav) <= j
      <4>1. /\ Price(c, Mirror(fav)) = Ltp(fav) /\ Price(c, j) = Ltp(Mirror(j))
            /\ Mirror(j) \in A /\ Mirror(Mirror(j)) = j
        BY <1>1, <2>1
      <4>2. CASE Mirror(j) = fav
        <5>1. Mirror(fav) = j /\ j \in Nat
          BY <1>1, <4>1, <4>2 DEF Readable, ActiveRunners
        <5> QED  BY <5>1
      <4>3. CASE Mirror(j) # fav
        BY <1>2, <2>1, <4>1, <4>3
      <4> QED  BY <4>2, <4>3
    <3>2. Mirror(fav) \in ActiveRunners(c)
      BY <1>1, <2>1
    <3>3. Cheapest(c, ActiveRunners(c)) = Mirror(fav)
      BY <1>1, <3>1, <3>2, CheapestIs
    <3> QED  BY <3>3 DEF Favourite
  <2>3. Price(c, Favourite(c)) = Price(book, fav)
    BY <1>1, <2>1, <2>2 DEF Ltp, Price
  <2>4. HasSecond(c) <=> HasSecond(book)
    <3>1. (\E j \in ActiveRunners(c) : j # Mirror(fav)) <=> (\E j \in A : j # fav)
      BY <1>1, <2>1
    <3> QED  BY <1>1, <1>2, <1>3, <1>4, <2>2, <3>1, SecondIsAnother
  <2>5. ASSUME HasSecond(book)
        PROVE  Second(c) = Mirror(snd) /\ Price(c, Second(c)) = Price(book, snd)
    <3>1. snd \in A \ {fav} /\ \A j \in A \ {fav} : Ltp(snd) <= Ltp(j)
      BY <1>2, <1>4, <2>5, FavouritesAreFirst DEF Ltp, Price
    <3> DEFINE R == ActiveRunners(c) \ {Mirror(fav)}
    <3>2. Mirror(snd) \in R
      BY <1>1, <2>1, <3>1
    <3>3. ASSUME NEW j \in R
          PROVE  \/ Price(c, Mirror(snd)) < Price(c, j)
                 \/ Price(c, Mirror(snd)) = Price(c, j) /\ Mirror(snd) <= j
      <4>1. /\ Price(c, Mirror(snd)) = Ltp(snd) /\ Price(c, j) = Ltp(Mirror(j))
            /\ Mirror(j) \in A \ {fav} /\ Mirror(Mirror(j)) = j
        BY <1>1, <2>1, <3>1
      <4>2. CASE Mirror(j) = snd
        <5>1. Mirror(snd) = j /\ j \in Nat
          BY <1>1, <4>1, <4>2 DEF Readable, ActiveRunners
        <5> QED  BY <5>1
      <4>3. CASE Mirror(j) # snd
        BY <1>2, <3>1, <4>1, <4>3
      <4> QED  BY <4>2, <4>3
    <3>4. R \subseteq ActiveRunners(c)
      OBVIOUS
    <3>5. Cheapest(c, R) = Mirror(snd)
      <4> HIDE DEF R
      <4> QED  BY <1>1, <3>2, <3>3, <3>4, CheapestIs
    <3>6. Second(c) = Mirror(snd)
      BY <2>2, <3>5 DEF Second
    <3> QED  BY <1>1, <3>1, <3>6 DEF Ltp, Price
  <2> QED  BY <2>2, <2>3, <2>4, <2>5
<1>5. Alike(book, c)
  BY <1>1, <1>3, <1>4 DEF Alike
<1> QED  BY <1>4, <1>5 DEF c

\* The bets at the mirrored positions.
Reflected == [answer EXCEPT !.bets = [i \in DOMAIN answer.bets |->
                 [answer.bets[i] EXCEPT !.sel = Mirror(answer.bets[i].sel)]]]

LEMMA ReflectedBets ==
    ASSUME answer.bets = <<>> => answer = NoBet(answer.reason)
    PROVE  /\ answer.bets = <<>> => Reflected = answer
           /\ \A i, l : answer = Bets(<<On(i, l)>>) => Reflected = Bets(<<On(Mirror(i), l)>>)
           /\ \A i, j, l, m : answer = Bets(<<On(i, l), On(j, m)>>)
                 => Reflected = Bets(<<On(Mirror(i), l), On(Mirror(j), m)>>)
<1>1. ASSUME answer.bets = <<>> PROVE Reflected = answer
  BY <1>1 DEF Reflected, NoBet
<1>2. ASSUME NEW i, NEW l, answer = Bets(<<On(i, l)>>)
      PROVE  Reflected = Bets(<<On(Mirror(i), l)>>)
  <2> DEFINE bets == [k \in DOMAIN answer.bets |->
                        [answer.bets[k] EXCEPT !.sel = Mirror(answer.bets[k].sel)]]
  <2>1. DOMAIN answer.bets = {1} /\ answer.bets[1] = On(i, l)
    BY <1>2 DEF Bets
  <2>2. [On(i, l) EXCEPT !.sel = Mirror(On(i, l).sel)] = On(Mirror(i), l)
    BY DEF On
  <2>3. bets = <<On(Mirror(i), l)>>
    BY <2>1, <2>2
  <2> QED  BY <1>2, <2>3 DEF Bets, Reflected
<1>3. ASSUME NEW i, NEW j, NEW l, NEW m, answer = Bets(<<On(i, l), On(j, m)>>)
      PROVE  Reflected = Bets(<<On(Mirror(i), l), On(Mirror(j), m)>>)
  <2> DEFINE bets == [k \in DOMAIN answer.bets |->
                        [answer.bets[k] EXCEPT !.sel = Mirror(answer.bets[k].sel)]]
  <2>1. DOMAIN answer.bets = {1, 2} /\ answer.bets[1] = On(i, l) /\ answer.bets[2] = On(j, m)
    BY <1>3 DEF Bets
  <2>2. /\ [On(i, l) EXCEPT !.sel = Mirror(On(i, l).sel)] = On(Mirror(i), l)
        /\ [On(j, m) EXCEPT !.sel = Mirror(On(j, m).sel)] = On(Mirror(j), m)
    <3>1. [On(i, l) EXCEPT !.sel = Mirror(On(i, l).sel)] = On(Mirror(i), l)
      BY DEF On
    <3>2. [On(j, m) EXCEPT !.sel = Mirror(On(j, m).sel)] = On(Mirror(j), m)
      BY DEF On
    <3> QED  BY <3>1, <3>2
  <2>3. bets = <<On(Mirror(i), l), On(Mirror(j), m)>>
    BY <2>1, <2>2
  <2> QED  BY <1>3, <2>3 DEF Bets, Reflected
<1> QED  BY <1>1, <1>2, <1>3

\* The order in which the feed lists the runners changes no bet.
THEOREM OrderIsIrrelevant == Spec => []ListingOrderDoesNotMatter
<1>1. CallInv => ListingOrderDoesNotMatter
  <2> SUFFICES ASSUME CallInv, answer # Pending, Cardinality(Prices) = Cardinality(Tradable)
               PROVE  Reflected \in Evaluate(Mirrored, strategy)
    BY DEF ListingOrderDoesNotMatter, Reflected, Mirrored
  <2>1. answer \in Evaluate(book, strategy)
    BY DEF CallInv
  <2>2. \/ answer.bets = <<>> /\ answer = NoBet(answer.reason)
        \/ Admitted(book, strategy) /\ answer.bets # <<>>
    <3>1. CASE answer.bets = <<>>
      <4>1. ~\E gap : LaysFor(book, strategy, gap, answer)
        BY <3>1 DEF LaysFor, Bets
      <4> QED  BY <2>1, <3>1, <4>1, AnswersOfEvaluate
    <3>2. CASE answer.bets # <<>>
      BY <3>2, BetsAreTheFavourites
    <3> QED  BY <3>1, <3>2
  <2>3. Moves(answer, book, Mirrored, Reflected)
    <3>1. CASE answer.bets = <<>>
      <4>1. \A l : answer # Bets(<<l>>)
        BY <3>1 DEF Bets
      <4>2. \A l, m : answer # Bets(<<l, m>>)
        BY <3>1 DEF Bets
      <4> QED  BY <2>2, <3>1, <4>1, <4>2, ReflectedBets DEF Moves
    <3>2. CASE answer.bets # <<>>
      <4>1. Favourite(Mirrored) = Mirror(Favourite(book)) /\ ActiveRunners(book) # {}
        BY <2>2, <3>2, MirrorIsAlike DEF Admitted
      <4>2. ASSUME NEW l, NEW m, answer = Bets(<<On(Favourite(book), l), On(Second(book), m)>>)
            PROVE  Second(Mirrored) = Mirror(Second(book))
        <5>1. Len(answer.bets) = 2
          BY <4>2 DEF Bets
        <5>2. HasSecond(book)
          BY <3>2, <5>1, BetsAreTheFavourites DEF Placed
        <5> QED  BY <4>1, <5>2, MirrorIsAlike
      <4> QED  BY <3>2, <4>1, <4>2, ReflectedBets DEF Moves
    <3> QED  BY <3>1, <3>2
  <2> QED  BY <2>1, <2>3, MirrorIsAlike, AlikeAnswers
<1> QED  BY <1>1, CallSafety, PTL

=============================================================================
