---------------------------- MODULE MarketReplay ----------------------------
(***************************************************************************)
(* backtest_service.py from _stream_and_evaluate to _summarise: one        *)
(* historic file is replayed book by book, each market is evaluated once   *)
(* before its off, and when the stream has ended the bets are settled on   *)
(* the last book of their market and added up.                             *)
(*                                                                         *)
(* One step is one iteration of the loop over the books.  What the file    *)
(* says is the environment: time passes, prices move, races are put back   *)
(* or forward, horses are withdrawn, markets go in play and close, and the *)
(* file may end before they do.  Times are in seconds (coarse), money as   *)
(* in Evaluator.                                                           *)
(***************************************************************************)
EXTENDS Evaluator, TLC, SequencesExt

CONSTANTS
    Markets,       \* the markets of the file
    Strategy,      \* the strategy, with staking and filters
    Window,        \* parser.time_before_off_seconds
    InRange,       \* the off times whose date is in the requested range
    ExtractBsp,    \* parser.extract_bsp
    OffTimes,      \* the off times a market is ever given
    Ltps,          \* the last traded prices a runner ever has
    Bsps,          \* the starting prices a runner ever has, None included
    MaxTime        \* bound: the publish time of the last book

\* Betfair trades and starts at prices above 1.0.
ASSUME ReplayAssumption ==
    /\ IsFiniteSet(Markets) /\ StrategyAssumed(Strategy)
    /\ Window \in Nat /\ MaxTime \in Nat
    /\ OffTimes \subseteq Nat /\ InRange \subseteq OffTimes
    /\ Ltps \subseteq Int
    /\ Bsps \subseteq {None} \cup {p \in Nat : p > 100}

VARIABLES
    time,         \* publish_time of the last book
    market,       \* the markets as the feed knows them
    lastBook,     \* last_books, NoBook when there is none
    done,         \* evaluation_done
    decisions,    \* decisions_by_market, <<>> when the market has none
    phase,        \* "streaming", "settling" or "summarised"
    rows,         \* the MarketResult rows of a market
    summary,      \* BacktestSummary
    evaluated,    \* history: the calls of evaluate(), [at, book] each
    chances       \* history: what earlier books offered, see Chance

vars == <<time, market, lastBook, done, decisions, phase, rows, summary,
          evaluated, chances>>

NoBook == [runners |-> <<>>, off |-> None, inPlay |-> FALSE, defined |-> FALSE,
           country |-> "", marketType |-> ""]

NoSummary == [markets |-> 0, bets |-> 0, won |-> 0, lost |-> 0, void |-> 0,
              stake |-> 0, liability |-> 0, pnl |-> 0]

Closed(b) == \E i \in DOMAIN b.runners : b.runners[i].status \in {"WINNER", "LOSER"}

-----------------------------------------------------------------------------
(* The feed: what the next book of a market may say.                       *)

Priced(b) ==
    {[b EXCEPT !.runners[i].ltp = p] : i \in DOMAIN b.runners, p \in Ltps}

Rescheduled(b) == IF b.inPlay THEN {} ELSE {[b EXCEPT !.off = t] : t \in OffTimes}

Withdrawn(b) ==
    IF b.inPlay THEN {} ELSE {[b EXCEPT !.runners[i].status = "REMOVED"] : i \in DOMAIN b.runners}

WentInPlay(b) == {[b EXCEPT !.inPlay = TRUE]}

\* The result: the winners among the runners, several after a dead heat, and
\* the starting price of each, in the definition and perhaps on the runner.
Result(b, winners, bsp, onRunner) ==
    [b EXCEPT !.runners = [i \in DOMAIN b.runners |->
        IF b.runners[i].status = "REMOVED" THEN b.runners[i]
        ELSE [b.runners[i] EXCEPT
                 !.status = IF i \in winners THEN "WINNER" ELSE "LOSER",
                 !.bsp = bsp[i],
                 !.sp = IF onRunner THEN bsp[i] ELSE None]]]

Resulted(b) ==
    {Result(b, w, bsp, onRunner) :
        w \in SUBSET {i \in DOMAIN b.runners : b.runners[i].status = "ACTIVE"} \ {{}},
        bsp \in [DOMAIN b.runners -> Bsps], onRunner \in BOOLEAN}

NextBooks(b) ==
    IF Closed(b) THEN {}
    ELSE Priced(b) \cup Rescheduled(b) \cup Withdrawn(b) \cup WentInPlay(b) \cup Resulted(b)

-----------------------------------------------------------------------------
(* The loop over the books.                                                *)

\* Mutant: only the markets still to be evaluated are remembered.
RememberOpen(m, b) ==
    lastBook' = IF m \in done THEN lastBook ELSE [lastBook EXCEPT ![m] = b]

Remember(m, b) == lastBook' = [lastBook EXCEPT ![m] = b]

\* `race_date < range_start or race_date > range_end`
OutOfRange(b) == b.off \notin InRange

\* Mutant: a market that is past its off may still be evaluated.
NeverOverdue(b, t) == FALSE

\* `seconds_to_off <= 0`
Overdue(b, t) == b.off - t <= 0

\* `seconds_to_off > time_before_off_seconds`
TooEarly(b, t) == b.off - t > Window

\* Mutant: a market without a bet is looked at again with the next book.
DoneIfBet(m, bets) == done' = IF bets # <<>> THEN done \cup {m} ELSE done

Done(m, bets) == done' = done \cup {m}

EvaluateMarket(m, b, t) ==
    \E result \in Evaluate(b, Strategy) :
        /\ decisions' = IF result.bets # <<>>
                        THEN [decisions EXCEPT ![m] = result.bets] ELSE decisions
        /\ Done(m, result.bets)
        /\ evaluated' = [evaluated EXCEPT ![m] = Append(@, [at |-> t, book |-> b])]

\* The body of the loop from the test of evaluation_done on.
Consider(m, b, t) ==
    \/ /\ m \in done \/ b.off = None
       /\ UNCHANGED <<done, decisions, evaluated>>
    \/ /\ m \notin done /\ b.off # None /\ OutOfRange(b)
       /\ done' = done \cup {m}
       /\ UNCHANGED <<decisions, evaluated>>
    \/ /\ m \notin done /\ b.off # None /\ ~OutOfRange(b)
       /\ TooEarly(b, t)
       /\ UNCHANGED <<done, decisions, evaluated>>
    \/ /\ m \notin done /\ b.off # None /\ ~OutOfRange(b)
       /\ ~TooEarly(b, t) /\ Overdue(b, t)
       /\ done' = done \cup {m}
       /\ UNCHANGED <<decisions, evaluated>>
    \/ /\ m \notin done /\ b.off # None /\ ~OutOfRange(b)
       /\ ~TooEarly(b, t) /\ ~Overdue(b, t)
       /\ EvaluateMarket(m, b, t)

\* What a book offers, for the history: a chance to bet, or the end of all
\* chances because the race is past its off or out of the range.
Chance(b, t) ==
    IF b.off = None THEN {}
    ELSE IF b.off \notin InRange \/ b.off <= t THEN {"lost"}
    ELSE IF b.off <= t + Window THEN {"open"}
    ELSE {}

MarketBook(m) ==
    /\ phase = "streaming"
    /\ \E t \in {time, time + 1} \cap 0 .. MaxTime, b \in NextBooks(market[m]) :
        /\ time' = t
        /\ market' = [market EXCEPT ![m] = b]
        /\ Remember(m, b)
        /\ Consider(m, b, t)
        /\ chances' = [chances EXCEPT ![m] = IF @ # "none" \/ Chance(b, t) = {} THEN @
                                             ELSE CHOOSE c \in Chance(b, t) : TRUE]
    /\ UNCHANGED <<phase, rows, summary>>

EndOfStream ==
    /\ phase = "streaming"
    /\ phase' = "settling"
    /\ UNCHANGED <<time, market, lastBook, done, decisions, rows, summary,
                   evaluated, chances>>

-----------------------------------------------------------------------------
(* Settlement.                                                             *)

\* Mutant: a withdrawn horse did not win, so the lay of it did.
OutcomeByWinner(status) == IF status = "WINNER" THEN "LOST" ELSE "WON"

\* The outcome of a lay; a runner that is still ACTIVE is void.
Outcome(status) ==
    CASE status = "WINNER" -> "LOST"
      [] status = "LOSER" -> "WON"
      [] OTHER -> "VOID"

\* runner.sp.actual_sp if asked for and there, else the definition's bsp
Bsp(r) == IF ExtractBsp /\ r.sp # None THEN r.sp ELSE r.bsp

SettlementPrice(bet, r) == IF Bsp(r) # None THEN Bsp(r) ELSE bet.price

Loss(bet, price) == Nearest(bet.stake * (price - 100), 100)

Pnl(bet, r) ==
    CASE Outcome(r.status) = "LOST" -> {-l : l \in Loss(bet, SettlementPrice(bet, r))}
      [] Outcome(r.status) = "WON" -> {bet.stake}
      [] OTHER -> {0}

Row(m, bet, r, pnl) ==
    [sel |-> bet.sel, stake |-> bet.stake, liability |-> bet.liability,
     outcome |-> Outcome(r.status), pnl |-> pnl]

\* _settle
Settle(m) ==
    /\ phase = "settling"
    /\ Len(rows[m]) < Len(decisions[m])
    /\ LET bet == decisions[m][Len(rows[m]) + 1]
           r == lastBook[m].runners[bet.sel]
       IN  \E pnl \in Pnl(bet, r) :
              rows' = [rows EXCEPT ![m] = Append(@, Row(m, bet, r, pnl))]
    /\ UNCHANGED <<time, market, lastBook, done, decisions, phase, summary,
                   evaluated, chances>>

\* The rows of all markets, known by market and position.
Played == UNION {{m} \X DOMAIN rows[m] : m \in Markets}
RowAt(p) == rows[p[1]][p[2]]
Count(outcome) == Cardinality({p \in Played : RowAt(p).outcome = outcome})

\* Mutant: the stakes of void bets are left out of the summary.
StakePlayed ==
    SumFunction([p \in {q \in Played : RowAt(q).outcome # "VOID"} |-> RowAt(p).stake])

TotalStake == SumFunction([p \in Played |-> RowAt(p).stake])
TotalLiability == SumFunction([p \in Played |-> RowAt(p).liability])
TotalPnl == SumFunction([p \in Played |-> RowAt(p).pnl])

Totals ==
    [markets |-> Cardinality({m \in Markets : rows[m] # <<>>}),
     bets |-> Cardinality(Played),
     won |-> Count("WON"), lost |-> Count("LOST"), void |-> Count("VOID"),
     stake |-> TotalStake, liability |-> TotalLiability, pnl |-> TotalPnl]

\* _summarise
Summarise ==
    /\ phase = "settling"
    /\ \A m \in Markets : Len(rows[m]) = Len(decisions[m])
    /\ phase' = "summarised"
    /\ summary' = Totals
    /\ UNCHANGED <<time, market, lastBook, done, decisions, rows, evaluated, chances>>

Init ==
    /\ time = 0
    /\ market \in [Markets -> {[NoBook EXCEPT !.defined = TRUE, !.country = "GB",
           !.marketType = "WIN",
           !.runners = [i \in 1 .. 2 |-> [ltp |-> None, status |-> "ACTIVE",
                                          bsp |-> None, sp |-> None]]]}]
    /\ lastBook = [m \in Markets |-> NoBook]
    /\ done = {}
    /\ decisions = [m \in Markets |-> <<>>]
    /\ phase = "streaming"
    /\ rows = [m \in Markets |-> <<>>]
    /\ summary = NoSummary
    /\ evaluated = [m \in Markets |-> <<>>]
    /\ chances = [m \in Markets |-> "none"]

Next ==
    \/ \E m \in Markets : MarketBook(m) \/ Settle(m)
    \/ EndOfStream \/ Summarise

Spec == Init /\ [][Next]_vars

-----------------------------------------------------------------------------
(* Properties.                                                             *)

\* A bet is made from a book of before the off, in the window and the range
\* that were asked for, with the market not in play, on a runner that was in
\* the betting at that very price: nothing the file says later is known to
\* it (_stream_and_evaluate and evaluate).
NoHindsight ==
    \A m \in Markets : decisions[m] # <<>> =>
        LET e == Last(evaluated[m]) IN
        /\ e.at < e.book.off /\ e.book.off <= e.at + Window
        /\ e.book.off \in InRange
        /\ ~e.book.inPlay /\ ~Closed(e.book)
        /\ \A i \in DOMAIN decisions[m] :
              LET r == e.book.runners[decisions[m][i].sel] IN
              r.status = "ACTIVE" /\ r.ltp = decisions[m][i].price

\* A market is evaluated once at most, and it is evaluated exactly when the
\* first book that offers anything offers a chance; a race that was past its
\* off or out of the range in one book is never evaluated, whatever later
\* books say (evaluation_done).
FirstChanceIsTaken ==
    \A m \in Markets :
        /\ Len(evaluated[m]) <= 1
        /\ (evaluated[m] # <<>>) <=> (chances[m] = "open")
        /\ evaluated[m] # <<>> => m \in done

\* The bets of a market are settled on what the file last said of it, one
\* by one: a lay wins its stake when the horse lost, costs nothing when the
\* horse was withdrawn or the file ends before the result, and loses when the
\* horse won, its stake at the starting price, or at its own price for want
\* of one, to half a penny (_settle).
SettledOnTheResult ==
    \A m \in Markets : \A i \in DOMAIN rows[m] :
        LET row == rows[m][i]
            bet == decisions[m][i]
            horse == market[m].runners[bet.sel]
            odds == (IF horse.bsp # None THEN horse.bsp ELSE bet.price) - 100
        IN  /\ row.sel = bet.sel /\ row.stake = bet.stake
            /\ horse.status = "LOSER" => row.outcome = "WON" /\ row.pnl = row.stake
            /\ horse.status \in {"ACTIVE", "REMOVED"} => row.outcome = "VOID" /\ row.pnl = 0
            /\ horse.status = "WINNER" =>
                  row.outcome = "LOST" /\ 100 * row.pnl + row.stake * odds \in -50 .. 50

\* No bet is lost on the way to the summary, its outcomes add up, a summary
\* of lays never earns more than it stakes, and earns that much only when
\* every bet with a stake was won (_summarise).
SummaryAddsUp ==
    phase = "summarised" =>
        /\ summary.bets = Cardinality(UNION {{m} \X DOMAIN decisions[m] : m \in Markets})
        /\ summary.won + summary.lost + summary.void = summary.bets
        /\ summary.markets <= summary.bets
        /\ summary.pnl <= summary.stake
        /\ summary.pnl = summary.stake =>
              \A m \in Markets : \A i \in DOMAIN rows[m] :
                  rows[m][i].outcome = "WON" \/ rows[m][i].stake = 0

\* What a bet loses is no more than its liability.  This is what BetDecision
\* says of its liability field; _settle prices the loss at the starting price.
LossWithinLiability ==
    \A m \in Markets : \A i \in DOMAIN rows[m] :
        rows[m][i].pnl >= -rows[m][i].liability

=============================================================================
