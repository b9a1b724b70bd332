----------------------------- MODULE Evaluator ------------------------------
(***************************************************************************)
(* evaluator.py: evaluate(), the pure function from the book of a market   *)
(* and the strategy of a plugin to the bets to place, or to the reason why *)
(* there is none.                                                          *)
(*                                                                         *)
(* Prices, bands and spreads are in hundredths.  What a rule stakes, the   *)
(* uplift and the point value are any decimals, whole multiples of the     *)
(* Grain-th part of a penny or of 1: their product, halved or not, is a    *)
(* whole number of the Penny-th parts of a penny, and is carried in those  *)
(* until it is rounded to pence.                                           *)
(*                                                                         *)
(* The arithmetic is that of floats: a tie may be rounded either way, and  *)
(* the gap between two prices is a hair more or less than the decimals say *)
(* (3.2 - 3.0 > 0.2 > 1.7 - 1.5), so it is carried in tenths of the unit   *)
(* of prices.  Evaluate is the set of the answers the function can return. *)
(*                                                                         *)
(* A book b is [runners, defined, inPlay, country, marketType], a runner   *)
(* [ltp, status, ...] known by its position; a strategy s is [rules,       *)
(* controls, point, countries, marketTypes], as the schemas validate it.   *)
(***************************************************************************)
EXTENDS Integers, Sequences, FiniteSets

CONSTANT Grain    \* the parts of 1 that the amounts of a strategy are given in

ASSUME GrainAssumption == Grain \in Nat \ {0}

\* The parts of a penny that half a product of three amounts is counted in.
Penny == 2 * (Grain * Grain * Grain)

None == -1
Infinity == 1000000    \* float("inf"), beyond every gap and price

NoBet(reason) == [bets |-> <<>>, reason |-> reason]
Bets(legs) == [bets |-> legs, reason |-> "bet"]

Gap == {None} \cup {g \in Nat : 10 * g <= Infinity}
Amount == {None} \cup Nat

\* The bounds of the schemas: a rule has a stake, no amount is negative, the
\* ceiling is above the floor, and (of the model) no gap is beyond Infinity.
StrategyAssumed(s) ==
    /\ s.controls.floor \in Int /\ s.controls.ceiling \in Int
    /\ s.controls.floor < s.controls.ceiling
    /\ s.controls.spread \in Nat /\ 10 * s.controls.spread < Infinity
    /\ s.controls.uplift \in Amount /\ s.point \in Nat
    /\ Len(s.rules) \in Nat /\ DOMAIN s.rules = 1 .. Len(s.rules)
    /\ \A k \in DOMAIN s.rules :
         LET r == s.rules[k] IN
         /\ r.band[1] \in Int /\ r.band[2] \in Int
         /\ r.gapLt \in Gap /\ r.gapGte \in Gap
         /\ r.baseStake \in Amount /\ r.stake \in Amount
         /\ r.baseStake # None \/ r.stake # None

-----------------------------------------------------------------------------
(* The pieces of evaluate().                                               *)

\* Mutant: the status of a runner is not looked at.
PricedRunners(b) == {i \in DOMAIN b.runners : b.runners[i].ltp > 100}

\* _active_runners: the positions of the runners with a price above 1.0 and a
\* status that is ACTIVE or missing.
ActiveRunners(b) ==
    {i \in DOMAIN b.runners :
        b.runners[i].ltp > 100 /\ b.runners[i].status \in {"ACTIVE", ""}}

\* The first of the runners after the stable sort by last traded price.
Cheapest(b, runners) ==
    CHOOSE i \in runners : \A j \in runners :
        \/ b.runners[i].ltp < b.runners[j].ltp
        \/ b.runners[i].ltp = b.runners[j].ltp /\ i <= j

Favourite(b) == Cheapest(b, ActiveRunners(b))
HasSecond(b) == Cardinality(ActiveRunners(b)) > 1

\* Mutant: runners[0] again.
FirstAgain(b) == Favourite(b)

\* Mutant: the runner listed after the favourite.
NextListed(b) ==
    LET later == {i \in ActiveRunners(b) : i > Favourite(b)} IN
    IF later = {} THEN Cheapest(b, ActiveRunners(b) \ {Favourite(b)})
    ELSE CHOOSE i \in later : \A j \in later : i <= j

Second(b) == Cheapest(b, ActiveRunners(b) \ {Favourite(b)})
Price(b, i) == b.runners[i].ltp

\* The difference of two floats: exact when they are equal, else a little off.
Difference(p, q) == IF p = q THEN {0} ELSE {10 * (p - q) + e : e \in -1 .. 1}

\* Mutant: the gap to the last of the field.
GapsToField(b) ==
    IF HasSecond(b)
    THEN UNION {Difference(Price(b, i), Price(b, Favourite(b))) :
                  i \in {j \in ActiveRunners(b) : \A k \in ActiveRunners(b) :
                            Price(b, k) <= Price(b, j)}}
    ELSE {Infinity}

\* The values `gap` can have.
Gaps(b) ==
    IF HasSecond(b) THEN Difference(Price(b, Second(b)), Price(b, Favourite(b)))
    ELSE {Infinity}

\* The conditions of the loop of _select_rule.
Matches(rule, price, gap) ==
    /\ rule.band[1] <= price /\ price < rule.band[2]
    /\ rule.gapLt # None => gap < 10 * rule.gapLt
    /\ rule.gapGte # None => gap >= 10 * rule.gapGte

MatchingRules(b, s, gap) ==
    {k \in DOMAIN s.rules : Matches(s.rules[k], Price(b, Favourite(b)), gap)}

\* Mutant: the last rule that matches.
LastRule(b, s, gap) ==
    CHOOSE k \in MatchingRules(b, s, gap) : \A l \in MatchingRules(b, s, gap) : l <= k

SelectedRule(b, s, gap) ==
    CHOOSE k \in MatchingRules(b, s, gap) : \A l \in MatchingRules(b, s, gap) : k <= l

\* _resolve_stake
RuleStake(rule) == IF rule.baseStake # None THEN rule.baseStake ELSE rule.stake

\* `float(mark_uplift) if mark_uplift else 1.0`: an uplift of 0 counts as 1
Uplift(s) == IF s.controls.uplift \in {None, 0} THEN Grain ELSE s.controls.uplift

\* base_currency_stake, in Penny-ths
Stake(s, rule) == 2 * RuleStake(s.rules[rule]) * Uplift(s) * s.point

Split(b, s, gap) == s.controls.jofs /\ HasSecond(b) /\ gap <= 10 * s.controls.spread

\* round(num / den): either neighbour when num / den lies between the two
Nearest(num, den) ==
    {q \in {num \div den, num \div den + 1} :
        2 * (num - q * den) <= den /\ 2 * (q * den - num) <= den}

\* Mutant: the liability of either leg is computed at the favourite's price.
LayAtFavourite(b, i, rule, leg, pence) ==
    {[sel |-> i, price |-> Price(b, i), stake |-> pence, liability |-> li, rule |-> rule] :
        li \in Nearest(leg * (Price(b, Favourite(b)) - 100), 100 * Penny)}

\* _make_lay_decision: the liability comes from the stake before rounding.
Lay(b, i, rule, leg, pence) ==
    {[sel |-> i, price |-> Price(b, i), stake |-> pence, liability |-> li, rule |-> rule] :
        li \in Nearest(leg * (Price(b, i) - 100), 100 * Penny)}

\* Mutant: both legs of a split carry the whole stake.
FullLegs(b, s, rule, gap) == Stake(s, rule)

Leg(b, s, rule, gap) ==
    IF Split(b, s, gap) THEN Stake(s, rule) \div 2 ELSE Stake(s, rule)

TwoLegs(b, s, rule, gap) ==
    \/ Split(b, s, gap)
    \/ HasSecond(b) /\ s.rules[rule].also2nd

\* The lays when the stake of a leg was rounded to these pence.
LaysAt(b, s, rule, gap, pence) ==
    LET leg == Leg(b, s, rule, gap)
        firsts == Lay(b, Favourite(b), rule, leg, pence)
        seconds == Lay(b, Second(b), rule, leg, pence)
    IN  IF TwoLegs(b, s, rule, gap)
        THEN {Bets(<<first, second>>) : first \in firsts, second \in seconds}
        ELSE {Bets(<<first>>) : first \in firsts}

Decisions(b, s, rule, gap) ==
    UNION {LaysAt(b, s, rule, gap, pence) : pence \in Nearest(Leg(b, s, rule, gap), Penny)}

\* Mutant: spread control applies when JOFS is on.
SpreadBlocksJoint(b, s, gap) ==
    /\ s.controls.spreadControl /\ HasSecond(b)
    /\ gap < 10 * s.controls.spread
    /\ s.controls.jofs

SpreadBlocks(b, s, gap) ==
    /\ s.controls.spreadControl /\ HasSecond(b)
    /\ gap < 10 * s.controls.spread
    /\ ~s.controls.jofs

\* evaluate() from the selection of the rule on.
ApplyRules(b, s, gap) ==
    IF MatchingRules(b, s, gap) = {} THEN {NoBet("no_matching_rule")}
    ELSE IF SpreadBlocks(b, s, gap) THEN {NoBet("spread_control_blocked")}
    ELSE Decisions(b, s, SelectedRule(b, s, gap), gap)

\* An empty filter, or a market that does not say, lets everything pass.
Filtered(value, filter) == filter # {} /\ value # "" /\ value \notin filter

\* The returns of evaluate(), in their order.
Evaluate(b, s) ==
    IF ~b.defined THEN {NoBet("missing_price")}
    ELSE IF b.inPlay THEN {NoBet("in_play")}
    ELSE IF Filtered(b.country, s.countries) THEN {NoBet("filtered_country")}
    ELSE IF Filtered(b.marketType, s.marketTypes) THEN {NoBet("filtered_market_type")}
    ELSE IF ActiveRunners(b) = {} THEN {NoBet("no_active_runners")}
    ELSE IF Price(b, Favourite(b)) < s.controls.floor THEN {NoBet("blocked_by_floor")}
    ELSE IF Price(b, Favourite(b)) > s.controls.ceiling THEN {NoBet("blocked_by_ceiling")}
    ELSE UNION {ApplyRules(b, s, gap) : gap \in Gaps(b)}

=============================================================================
