---------------------------- MODULE EvaluateCall ----------------------------
(***************************************************************************)
(* One call of evaluate() for every book and strategy of two given sets,   *)
(* and what its answer must satisfy whatever they are.  The properties     *)
(* speak of the arguments and the answer only, not of how Evaluator        *)
(* arrives at it, except where they compare two calls.                     *)
(***************************************************************************)
EXTENDS Evaluator, SequencesExt

CONSTANTS
    Books,        \* the market books
    Strategies    \* the strategies

\* The fields are there, the runners are a list, prices are numbers.
BookAssumed(b) ==
    /\ {"runners", "defined", "inPlay", "country", "marketType"} \subseteq DOMAIN b
    /\ Len(b.runners) \in Nat /\ DOMAIN b.runners = 1 .. Len(b.runners)
    /\ \A i \in DOMAIN b.runners : "ltp" \in DOMAIN b.runners[i] /\ b.runners[i].ltp \in Int

ASSUME InputsAssumption ==
    /\ \A b \in Books : BookAssumed(b)
    /\ \A s \in Strategies : StrategyAssumed(s)

VARIABLES
    book, strategy,    \* the arguments
    answer             \* what evaluate() returned, Pending before

vars == <<book, strategy, answer>>

Pending == [bets |-> <<>>, reason |-> "pending"]

Init ==
    /\ book \in Books
    /\ strategy \in Strategies
    /\ answer = Pending

Call ==
    /\ answer = Pending
    /\ answer' \in Evaluate(book, strategy)
    /\ UNCHANGED <<book, strategy>>

Spec == Init /\ [][Call]_vars

-----------------------------------------------------------------------------
(* Properties.                                                             *)

Laid == {answer.bets[i].sel : i \in DOMAIN answer.bets}
Rule == strategy.rules[answer.bets[1].rule]
Ltp(i) == book.runners[i].ltp
Tradable ==
    {i \in DOMAIN book.runners : Ltp(i) > 100 /\ book.runners[i].status \in {"ACTIVE", ""}}

\* The distance from runner i to the nearest other runner in the betting.
SpreadFrom(i) ==
    LET others == {Ltp(j) : j \in Tradable \ {i}} IN
    IF others = {} THEN Infinity
    ELSE (CHOOSE p \in others : \A q \in others : p <= q) - Ltp(i)

\* An answer is one or two lays, of different runners under one rule, or a
\* reason with no bet (evaluate).
AnswerWellFormed ==
    answer # Pending =>
        /\ (answer.reason = "bet") <=> (Len(answer.bets) \in 1 .. 2)
        /\ (answer.reason # "bet") => answer.bets = <<>>
        /\ Cardinality(Laid) = Len(answer.bets)
        /\ \A i \in DOMAIN answer.bets : answer.bets[i].rule = answer.bets[1].rule

\* The runners laid are the shortest-priced tradable ones, each at its own
\* price, the favourite is within floor and ceiling, and nothing is laid in
\* play (the sort, the floor and the ceiling of evaluate).
LaysTheFavourites ==
    answer.bets # <<>> =>
        /\ Laid \subseteq Tradable /\ ~book.inPlay
        /\ \A i \in Laid, j \in Tradable \ Laid : Ltp(i) <= Ltp(j)
        /\ \A k \in DOMAIN answer.bets : answer.bets[k].price = Ltp(answer.bets[k].sel)
        /\ \A j \in Tradable : answer.bets[1].price <= Ltp(j)
        /\ strategy.controls.floor <= answer.bets[1].price
        /\ answer.bets[1].price <= strategy.controls.ceiling

Applies(rule, price, gap) ==
    /\ price \in rule.band[1] .. rule.band[2] - 1
    /\ rule.gapLt # None => gap < rule.gapLt
    /\ rule.gapGte # None => gap >= rule.gapGte

OnTheEdge(rule, gap) == gap \in {rule.gapLt, rule.gapGte}

\* The rule of a bet applies to the favourite and no earlier rule does; a
\* market is refused for want of a rule only when none applies.  Where the
\* gap is the very bound of a rule, it may go either way (_select_rule).
FirstRuleWins ==
    /\ answer.bets # <<>> =>
        LET price == answer.bets[1].price
            gap == SpreadFrom(answer.bets[1].sel)
        IN  /\ Applies(Rule, price, gap) \/ OnTheEdge(Rule, gap)
            /\ \A k \in 1 .. answer.bets[1].rule - 1 :
                  \/ ~Applies(strategy.rules[k], price, gap)
                  \/ OnTheEdge(strategy.rules[k], gap)
    /\ answer.reason = "no_matching_rule" =>
        \A i \in Tradable, k \in DOMAIN strategy.rules :
            (\A j \in Tradable : Ltp(i) <= Ltp(j)) =>
                \/ ~Applies(strategy.rules[k], Ltp(i), SpreadFrom(i))
                \/ OnTheEdge(strategy.rules[k], SpreadFrom(i))

\* The stake times so many units is the amount, up to half a penny.
RoundsTo(stake, amount, units) ==
    /\ 2 * (stake * units - amount) <= units
    /\ 2 * (amount - stake * units) <= units

\* base_stake * mark_uplift * point_value, in cubed Grain-ths of a penny: an
\* uplift that is not set is left out.
Formula ==
    (IF Rule.baseStake # None THEN Rule.baseStake ELSE Rule.stake)
    * (IF strategy.controls.uplift # None THEN strategy.controls.uplift ELSE Grain)
    * strategy.point

\* The stake of a bet is what the formula gives, whatever decimals go into
\* it, rounded once: half of it on each of two joint favourites, or the whole
\* on every leg, where only also_lay_2nd gives a second leg; at the very
\* spread it may be either (the stake formula and the branches of evaluate).
\* An uplift of 0, which the code takes for an unset one, is not spoken of.
StakeFollowsFormula ==
    answer.bets # <<>> /\ strategy.controls.uplift # 0 =>
        LET units == Grain * Grain * Grain
            stake == answer.bets[1].stake
            gap == SpreadFrom(answer.bets[1].sel)
            shared == Len(answer.bets) = 2 /\ RoundsTo(stake, Formula, 2 * units)
            whole == /\ RoundsTo(stake, Formula, units)
                     /\ Len(answer.bets) = 2 => Rule.also2nd
            joint == strategy.controls.jofs /\ gap <= strategy.controls.spread
        IN  /\ joint => shared \/ (gap = strategy.controls.spread /\ whole)
            /\ ~joint => whole
            /\ \A i \in DOMAIN answer.bets : answer.bets[i].stake = stake

\* With spread control on, a market whose two favourites are closer than the
\* spread is refused, or its stake is shared between the two: nobody lays
\* one of them with a whole stake (spread_control and JOFS).
TightMarketsAreShared ==
    /\ strategy.controls.spreadControl
    /\ answer.bets # <<>>
    /\ SpreadFrom(answer.bets[1].sel) < strategy.controls.spread
    => /\ strategy.controls.jofs
       /\ Len(answer.bets) = 2

\* The liability a bet reports is its stake at its price, up to half a penny
\* and what rounding the stake by half a penny can change (_make_lay_decision).
LiabilityFollowsStake ==
    \A i \in DOMAIN answer.bets :
        LET b == answer.bets[i]
            error == 100 * b.liability - b.stake * (b.price - 100)
            slack == 50 + (b.price - 99) \div 2
        IN  -slack <= error /\ error <= slack

\* A runner that is neither laid nor the nearest to the favourite might as
\* well have no price: outsiders never change the bets (evaluate looks at
\* runners[0] and runners[1] only).
OutsidersDoNotMatter ==
    answer.bets # <<>> =>
        \A k \in DOMAIN book.runners \ Laid :
            LET fav == answer.bets[1].sel
                nearest == k \in Tradable /\ Ltp(k) - Ltp(fav) = SpreadFrom(fav)
            IN  ~nearest =>
                  answer \in Evaluate([book EXCEPT !.runners[k].ltp = None], strategy)

Mirror(i) == Len(book.runners) + 1 - i
Prices == {Ltp(i) : i \in Tradable}

\* The order in which the feed lists the runners does not matter, unless two
\* of them have the same price (the stable sort of evaluate).
ListingOrderDoesNotMatter ==
    answer # Pending /\ Cardinality(Prices) = Cardinality(Tradable) =>
        [answer EXCEPT !.bets = [i \in DOMAIN answer.bets |->
                [answer.bets[i] EXCEPT !.sel = Mirror(answer.bets[i].sel)]]]
            \in Evaluate([book EXCEPT !.runners = Reverse(book.runners)], strategy)

\* A bet is a bet: a band whose stake is 0 is skipped.  This is what the
\* plugin chimera_may2026_v1 says of its rule_2a; evaluate lays 0 there.
ZeroStakeSkips ==
    \A i \in DOMAIN answer.bets : answer.bets[i].stake > 0

=============================================================================
