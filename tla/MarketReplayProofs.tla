------------------------- MODULE MarketReplayProofs --------------------------
(***************************************************************************)
(* The promises of a backtest, for any markets, strategy, window and       *)
(* range, and any length of the file.                                      *)
(*                                                                         *)
(*   BetsWithoutHindsight    Spec => []NoHindsight                         *)
(*   OneChancePerMarket      Spec => []FirstChanceIsTaken                  *)
(*   BetsAreSettled          Spec => []SettledOnTheResult                  *)
(*   SummaryIsSound          Spec => []SummaryAddsUp                       *)
(*                                                                         *)
(* ReplayInv says of each market that it is done exactly when a book has   *)
(* offered something, and that its one evaluation, if any, was of a book   *)
(* within window and range on which the bets agree with the prices.        *)
(* SettleInv follows the bets: a market with bets has its last book        *)
(* remembered, and its rows are those of its first bets, settled on it.    *)
(***************************************************************************)
EXTENDS MarketReplay, EvaluatorLemmas

Runner == [ltp : Int, status : {"ACTIVE", "REMOVED", "WINNER", "LOSER"},
           bsp : Bsps \cup {None}, sp : Bsps \cup {None}]
Book == [runners : [1 .. 2 -> Runner], off : OffTimes \cup {None}, inPlay : BOOLEAN,
         defined : BOOLEAN, country : {"GB"}, marketType : {"WIN"}]

\* A book of the feed: once there is a result nobody is in the betting, and
\* the runner and the definition agree on the starting price.
OneStartingPrice(b) == \A i \in 1 .. 2 : b.runners[i].sp \in {None, b.runners[i].bsp}
FeedBook ==
    {b \in Book : /\ Closed(b) => \A i \in 1 .. 2 : b.runners[i].status # "ACTIVE"
                  /\ OneStartingPrice(b)}

\* The runners of the feed in the betting say so.
LEMMA ActiveInTheFeed ==
    ASSUME NEW b \in FeedBook
    PROVE  /\ Readable(b) /\ ActiveRunners(b) \subseteq 1 .. 2
           /\ \A i \in ActiveRunners(b) : b.runners[i].status = "ACTIVE"
<1>1. DOMAIN b.runners = 1 .. 2 /\ \A i \in 1 .. 2 : b.runners[i] \in Runner
  BY DEF FeedBook, Book
<1>2. \A i \in 1 .. 2 : /\ b.runners[i].ltp \in Int
                       /\ b.runners[i].status \in {"ACTIVE", "REMOVED", "WINNER", "LOSER"}
  BY <1>1 DEF Runner
<1>3. IsFiniteSet(1 .. 2)
  <2>1. \A i, j \in Int : IsFiniteSet(i .. j)
    BY FS_Interval, Zenon
  <2>2. 1 \in Int /\ 2 \in Int
    OBVIOUS
  <2> QED  BY <2>1, <2>2, Zenon
<1>4. Readable(b)
  BY <1>1, <1>2, <1>3 DEF Readable
<1>5. ActiveRunners(b) \subseteq 1 .. 2
  BY <1>1 DEF ActiveRunners
<1>6. \A i \in ActiveRunners(b) : b.runners[i].status = "ACTIVE"
  <2>1. \A i \in ActiveRunners(b) : b.runners[i].status \in {"ACTIVE", ""}
    BY DEF ActiveRunners
  <2> QED  BY <1>2, <1>5, <2>1
<1> QED  BY <1>4, <1>5, <1>6

LEMMA NextBookIsOfTheFeed ==
    ASSUME NEW b \in FeedBook, NEW c \in NextBooks(b)
    PROVE  c \in FeedBook
<1>1. b \in Book /\ ~Closed(b) /\ DOMAIN b.runners = 1 .. 2
  BY DEF FeedBook, NextBooks, Book
<1>2. CASE c \in Priced(b)
  <2>1. PICK i \in 1 .. 2, p \in Ltps : c = [b EXCEPT !.runners[i].ltp = p]
    BY <1>1, <1>2 DEF Priced
  <2>2. c \in Book
    BY <1>1, <2>1, ReplayAssumption DEF Book, Runner
  <2>3. \A j \in 1 .. 2 : c.runners[j].status = b.runners[j].status
    BY <1>1, <2>1 DEF Book, Runner
  <2>4. ~Closed(c)
    BY <1>1, <2>2, <2>3 DEF Closed, Book
  <2>5. OneStartingPrice(c)
    BY <1>1, <2>1 DEF Book, Runner, FeedBook, OneStartingPrice
  <2> QED  BY <2>2, <2>4, <2>5 DEF FeedBook
<1>3. CASE c \in Rescheduled(b)
  <2>1. c \in Book /\ c.runners = b.runners
    BY <1>1, <1>3 DEF Rescheduled, Book
  <2> QED  BY <1>1, <2>1 DEF FeedBook, Closed, OneStartingPrice
<1>4. CASE c \in Withdrawn(b)
  <2>1. PICK i \in 1 .. 2 : c = [b EXCEPT !.runners[i].status = "REMOVED"]
    BY <1>1, <1>4 DEF Withdrawn
  <2>2. c \in Book
    BY <1>1, <2>1 DEF Book, Runner
  <2>3. \A j \in 1 .. 2 : c.runners[j].status \in {b.runners[j].status, "REMOVED"}
    BY <1>1, <2>1 DEF Book, Runner
  <2>4. ~Closed(c)
    BY <1>1, <2>2, <2>3 DEF Closed, Book
  <2>5. OneStartingPrice(c)
    BY <1>1, <2>1 DEF Book, Runner, FeedBook, OneStartingPrice
  <2> QED  BY <2>2, <2>4, <2>5 DEF FeedBook
<1>5. CASE c \in WentInPlay(b)
  <2>1. c \in Book /\ c.runners = b.runners
    BY <1>1, <1>5 DEF WentInPlay, Book
  <2> QED  BY <1>1, <2>1 DEF FeedBook, Closed, OneStartingPrice
<1>6. CASE c \in Resulted(b)
  <2>1. PICK w \in SUBSET (1 .. 2), bsp \in [1 .. 2 -> Bsps], onRunner \in BOOLEAN :
          c = Result(b, w, bsp, onRunner)
    BY <1>1, <1>6 DEF Resulted
  <2>2. \A i \in 1 .. 2 : c.runners[i] \in Runner /\ c.runners[i].status # "ACTIVE"
    <3> SUFFICES ASSUME NEW i \in 1 .. 2
                 PROVE  c.runners[i] \in Runner /\ c.runners[i].status # "ACTIVE"
      OBVIOUS
    <3> DEFINE r == b.runners[i]
               status == IF i \in w THEN "WINNER" ELSE "LOSER"
               sp == IF onRunner THEN bsp[i] ELSE None
    <3>1. r \in Runner /\ bsp[i] \in Bsps
      BY <1>1 DEF Book
    <3>2. c.runners[i] = IF r.status = "REMOVED" THEN r
                         ELSE [r EXCEPT !.status = status, !.bsp = bsp[i], !.sp = sp]
      BY <1>1, <2>1 DEF Result, Book
    <3>3. status \in {"WINNER", "LOSER"} /\ sp \in Bsps \cup {None}
      BY <3>1
    <3> HIDE DEF r, status, sp
    <3> QED  BY <3>1, <3>2, <3>3 DEF Runner
  <2>3. c \in Book
    BY <1>1, <2>1, <2>2 DEF Result, Book
  <2>4. OneStartingPrice(c)
    <3> SUFFICES ASSUME NEW i \in 1 .. 2
                 PROVE  c.runners[i].sp \in {None, c.runners[i].bsp}
      BY DEF OneStartingPrice
    <3> DEFINE r == b.runners[i]
               status == IF i \in w THEN "WINNER" ELSE "LOSER"
               sp == IF onRunner THEN bsp[i] ELSE None
    <3>1. r \in Runner /\ r.sp \in {None, r.bsp}
      BY <1>1 DEF Book, FeedBook, OneStartingPrice
    <3>2. c.runners[i] = IF r.status = "REMOVED" THEN r
                         ELSE [r EXCEPT !.status = status, !.bsp = bsp[i], !.sp = sp]
      BY <1>1, <2>1 DEF Result, Book
    <3>3. sp \in {None, bsp[i]}
      OBVIOUS
    <3> HIDE DEF r, status, sp
    <3> QED  BY <3>1, <3>2, <3>3 DEF Runner
  <2> QED  BY <2>2, <2>3, <2>4 DEF FeedBook
<1> QED  BY <1>1, <1>2, <1>3, <1>4, <1>5, <1>6 DEF NextBooks

-----------------------------------------------------------------------------
\* A call of evaluate() in the window and the range.
GoodCall(e) ==
    /\ e.at \in Nat /\ e.book \in FeedBook
    /\ e.book.off \in InRange /\ e.at < e.book.off /\ e.book.off <= e.at + Window

\* Bets that agree with the book they were made from.
AgreesWith(bets, b) ==
    bets # <<>> => /\ ~b.inPlay /\ 1 \in DOMAIN bets
                   /\ \A i \in DOMAIN bets : /\ bets[i].sel \in ActiveRunners(b)
                                             /\ bets[i].price = Price(b, bets[i].sel)

CallPart(m) ==
    \/ evaluated[m] = <<>> /\ decisions[m] = <<>> /\ chances[m] \in {"none", "lost"}
    \/ /\ chances[m] = "open"
       /\ \E e : evaluated[m] = <<e>> /\ GoodCall(e) /\ AgreesWith(decisions[m], e.book)
DonePart(m) == m \in done <=> chances[m] # "none"
MarketPart(m) == market[m] \in FeedBook /\ CallPart(m) /\ DonePart(m)

ReplayInv ==
    /\ time \in Nat /\ done \subseteq Markets
    /\ DOMAIN market = Markets /\ DOMAIN decisions = Markets
    /\ DOMAIN evaluated = Markets
    /\ chances \in [Markets -> {"none", "open", "lost"}]
    /\ \A m \in Markets : MarketPart(m)

LEMMA ReplayInit == Init => ReplayInv
<1> SUFFICES ASSUME Init PROVE ReplayInv
  OBVIOUS
<1>1. ASSUME NEW m \in Markets PROVE MarketPart(m)
  <2> DEFINE runner == [ltp |-> None, status |-> "ACTIVE", bsp |-> None, sp |-> None]
  <2>1. market[m] = [NoBook EXCEPT !.defined = TRUE, !.country = "GB", !.marketType = "WIN",
                                   !.runners = [i \in 1 .. 2 |-> runner]]
    BY DEF Init
  <2>2. runner \in Runner
    BY DEF Runner, None
  <2> DEFINE both == [i \in 1 .. 2 |-> runner]
  <2> HIDE DEF runner
  <2>7. both \in [1 .. 2 -> Runner] /\ \A i \in 1 .. 2 : both[i] = runner
    BY <2>2
  <2> HIDE DEF both
  <2>8. market[m] = [runners |-> both, off |-> None, inPlay |-> FALSE, defined |-> TRUE,
                     country |-> "GB", marketType |-> "WIN"]
    BY <2>1 DEF NoBook, both
  <2>3. market[m] \in Book /\ \A i \in 1 .. 2 : market[m].runners[i] = runner
    <3> DEFINE Rs == [1 .. 2 -> Runner]
    <3>2. both \in Rs /\ None \in OffTimes \cup {None}
      BY <2>7
    <3> HIDE DEF Rs
    <3>3. [runners |-> both, off |-> None, inPlay |-> FALSE, defined |-> TRUE,
           country |-> "GB", marketType |-> "WIN"]
          \in [runners : Rs, off : OffTimes \cup {None}, inPlay : BOOLEAN,
               defined : BOOLEAN, country : {"GB"}, marketType : {"WIN"}]
      BY ONLY <3>2
    <3>1. market[m] \in Book
      BY <2>8, <3>3, Zenon DEF Book, Rs
    <3>4. market[m].runners = both
      BY <2>8
    <3> QED  BY <2>7, <3>1, <3>4
  <2> USE DEF runner
  <2>4. ~Closed(market[m])
    BY <2>3 DEF Closed, Book
  <2>5. CallPart(m) /\ DonePart(m)
    BY DEF Init, CallPart, DonePart
  <2>6. OneStartingPrice(market[m])
    BY <2>3 DEF OneStartingPrice
  <2> QED  BY <2>3, <2>4, <2>5, <2>6 DEF MarketPart, FeedBook
<1> QED  BY <1>1 DEF ReplayInv, Init

\* One book leaves the other markets alone.
LEMMA BookKeeps ==
    ASSUME ReplayInv, NEW m \in Markets, MarketBook(m)
    PROVE  ReplayInv'
<1>1. PICK t \in {time, time + 1} \cap 0 .. MaxTime, b \in NextBooks(market[m]) :
        /\ time' = t
        /\ market' = [market EXCEPT ![m] = b]
        /\ Remember(m, b)
        /\ Consider(m, b, t)
        /\ chances' = [chances EXCEPT ![m] = IF @ # "none" \/ Chance(b, t) = {} THEN @
                                             ELSE CHOOSE c \in Chance(b, t) : TRUE]
  BY DEF MarketBook
<1>2. /\ t \in Nat /\ b \in FeedBook /\ MarketPart(m)
      /\ b.off \in OffTimes \cup {None} /\ OffTimes \subseteq Nat /\ Window \in Nat
  BY ReplayAssumption, NextBookIsOfTheFeed DEF ReplayInv, MarketPart, FeedBook, Book
<1>3. Readable(b) /\ DOMAIN b.runners = 1 .. 2
  <2>1. IsFiniteSet(1 .. 2)
    <3>1. \A i, j \in Int : IsFiniteSet(i .. j)
      BY FS_Interval, Zenon
    <3>2. 1 \in Int /\ 2 \in Int
      OBVIOUS
    <3> QED  BY <3>1, <3>2, Zenon
  <2> QED  BY <1>2, <2>1 DEF FeedBook, Book, Runner, Readable
<1>4. chances'[m] = IF chances[m] # "none" \/ Chance(b, t) = {} THEN chances[m]
                    ELSE CHOOSE c \in Chance(b, t) : TRUE
  BY <1>1 DEF ReplayInv
<1>5. CASE m \in done \/ b.off = None
  <2>1. UNCHANGED <<done, decisions, evaluated>>
    BY <1>1, <1>5 DEF Consider
  <2>2. chances'[m] = chances[m]
    BY <1>2, <1>4, <1>5 DEF MarketPart, DonePart, Chance
  <2>3. chances' = chances
    BY <1>1, <2>2 DEF ReplayInv
  <2> QED  BY <1>1, <1>2, <2>1, <2>3 DEF ReplayInv, MarketPart, CallPart, DonePart
<1> DEFINE Offered == m \notin done /\ b.off # None
<1>6. ASSUME Offered
      PROVE  b.off \in Nat /\ chances[m] = "none" /\ evaluated[m] = <<>> /\ decisions[m] = <<>>
  BY <1>2, <1>6 DEF MarketPart, DonePart, CallPart
<1>7. CASE Offered /\ ~OutOfRange(b) /\ TooEarly(b, t)
  <2>1. UNCHANGED <<done, decisions, evaluated>>
    BY <1>1, <1>7 DEF Consider
  <2>2. b.off - t > Window /\ b.off \in InRange
    BY <1>7 DEF TooEarly, OutOfRange
  <2>3. ~(b.off <= t) /\ ~(b.off <= t + Window)
    BY <1>2, <1>6, <1>7, <2>2
  <2>4. Chance(b, t) = {}
    BY <1>7, <2>2, <2>3 DEF Chance
  <2>5. chances' = chances
    BY <1>1, <1>4, <2>4 DEF ReplayInv
  <2> QED  BY <1>1, <1>2, <2>1, <2>5 DEF ReplayInv, MarketPart, CallPart, DonePart
<1>8. CASE Offered /\ (OutOfRange(b) \/ (~TooEarly(b, t) /\ Overdue(b, t)))
  <2>1. done' = done \cup {m} /\ UNCHANGED <<decisions, evaluated>>
    BY <1>1, <1>8 DEF Consider
  <2>2. Chance(b, t) = {"lost"}
    <3>1. CASE OutOfRange(b)
      BY <1>8, <3>1 DEF OutOfRange, Chance
    <3>2. CASE Overdue(b, t)
      <4>1. b.off <= t
        BY <1>2, <1>6, <1>8, <3>2 DEF Overdue
      <4> QED  BY <1>8, <4>1 DEF Chance
    <3> QED  BY <1>8, <3>1, <3>2
  <2>3. chances'[m] = "lost"
    BY <1>4, <1>6, <1>8, <2>2
  <2>4. chances' = [chances EXCEPT ![m] = "lost"]
    BY <1>1, <2>3 DEF ReplayInv
  <2> QED  BY <1>1, <1>2, <1>6, <1>8, <2>1, <2>4 DEF ReplayInv, MarketPart, CallPart, DonePart
<1>9. CASE Offered /\ ~OutOfRange(b) /\ ~TooEarly(b, t) /\ ~Overdue(b, t)
  <2>1. EvaluateMarket(m, b, t)
    BY <1>1, <1>9 DEF Consider
  <2> DEFINE e == [at |-> t, book |-> b]
  <2>2. PICK result \in Evaluate(b, Strategy) :
          /\ decisions' = IF result.bets # <<>>
                          THEN [decisions EXCEPT ![m] = result.bets] ELSE decisions
          /\ done' = done \cup {m}
          /\ evaluated' = [evaluated EXCEPT ![m] = Append(@, e)]
    BY <2>1 DEF EvaluateMarket, Done
  <2>3. evaluated'[m] = <<e>>
    <3> HIDE DEF e
    <3>1. evaluated'[m] = Append(<<>>, e)
      BY <1>6, <1>9, <2>2 DEF ReplayInv
    <3>2. Append(<<>>, e) = <<e>>
      BY <<>> \in Seq({e})
    <3> QED  BY <3>1, <3>2
  <2>4. GoodCall(e)
    <3>1. b.off \in InRange /\ ~(b.off - t > Window) /\ ~(b.off - t <= 0)
      BY <1>9 DEF OutOfRange, TooEarly, Overdue
    <3>2. t < b.off /\ b.off <= t + Window
      BY <1>2, <1>6, <1>9, <3>1
    <3> QED  BY <1>2, <3>1, <3>2 DEF GoodCall
  <2>5. AgreesWith(decisions'[m], b)
    <3>1. CASE result.bets = <<>>
      BY <1>6, <1>9, <2>2, <3>1 DEF AgreesWith
    <3>2. CASE result.bets # <<>>
      <4>1. decisions'[m] = result.bets
        BY <2>2, <3>2 DEF ReplayInv
      <4> QED  BY <1>3, <2>2, <3>2, <4>1, BetsOnActiveRunners DEF AgreesWith
    <3> QED  BY <3>1, <3>2
  <2>6. Chance(b, t) = {"open"}
    BY <1>2, <1>6, <1>9, <2>4 DEF Chance, GoodCall
  <2>7. chances'[m] = "open"
    BY <1>4, <1>6, <1>9, <2>6
  <2>8. CallPart(m)'
    BY <2>3, <2>4, <2>5, <2>7 DEF CallPart
  <2>9. MarketPart(m)'
    BY <1>1, <1>2, <2>2, <2>7, <2>8 DEF MarketPart, DonePart, ReplayInv
  <2>10. ASSUME NEW k \in Markets, k # m PROVE MarketPart(k)'
    <3>1. /\ market'[k] = market[k] /\ decisions'[k] = decisions[k] /\ chances'[k] = chances[k]
          /\ evaluated'[k] = evaluated[k] /\ (k \in done' <=> k \in done)
      BY <1>1, <2>2, <2>10 DEF ReplayInv
    <3>2. MarketPart(k)
      BY DEF ReplayInv
    <3> QED  BY <3>1, <3>2 DEF MarketPart, CallPart, DonePart
  <2>11. chances' = [chances EXCEPT ![m] = "open"]
    BY <1>1, <2>7 DEF ReplayInv
  <2>12. done' \subseteq Markets /\ DOMAIN decisions' = Markets /\ DOMAIN evaluated' = Markets
    BY <2>2 DEF ReplayInv
  <2>13. time' \in Nat /\ DOMAIN market' = Markets
    BY <1>1, <1>2 DEF ReplayInv
  <2>14. \A k \in Markets : MarketPart(k)'
    BY <2>9, <2>10
  <2> QED  BY <2>11, <2>12, <2>13, <2>14 DEF ReplayInv
<1> QED  BY <1>5, <1>7, <1>8, <1>9

LEMMA ReplayNext == ReplayInv /\ [Next]_vars => ReplayInv'
<1> SUFFICES ASSUME ReplayInv, [Next]_vars PROVE ReplayInv'
  OBVIOUS
<1>1. ASSUME NEW m \in Markets, MarketBook(m) PROVE ReplayInv'
  BY <1>1, BookKeeps
<1>2. ASSUME UNCHANGED <<time, market, done, decisions, evaluated, chances>> PROVE ReplayInv'
  BY <1>2 DEF ReplayInv, MarketPart, CallPart, DonePart
<1>3. CASE UNCHANGED vars
  BY <1>2, <1>3 DEF vars
<1>4. ASSUME NEW m \in Markets, Settle(m) PROVE ReplayInv'
  BY <1>2, <1>4 DEF Settle
<1>5. CASE EndOfStream \/ Summarise
  BY <1>2, <1>5 DEF EndOfStream, Summarise
<1> QED  BY <1>1, <1>3, <1>4, <1>5 DEF Next

LEMMA ReplaySafety == Spec => []ReplayInv
BY ReplayInit, ReplayNext, PTL DEF Spec

\* Bets are made before the off, in window and range, on runners that are in
\* the betting at that price: nothing the file says later is known to them.
THEOREM BetsWithoutHindsight == Spec => []NoHindsight
<1>1. ReplayInv => NoHindsight
  <2> SUFFICES ASSUME ReplayInv, NEW m \in Markets, decisions[m] # <<>>
               PROVE  LET e == Last(evaluated[m]) IN
                      /\ e.at < e.book.off /\ e.book.off <= e.at + Window
                      /\ e.book.off \in InRange
                      /\ ~e.book.inPlay /\ ~Closed(e.book)
                      /\ \A i \in DOMAIN decisions[m] :
                            LET r == e.book.runners[decisions[m][i].sel] IN
                            r.status = "ACTIVE" /\ r.ltp = decisions[m][i].price
    BY DEF NoHindsight
  <2>1. PICK e : evaluated[m] = <<e>> /\ GoodCall(e) /\ AgreesWith(decisions[m], e.book)
    BY DEF ReplayInv, MarketPart, CallPart
  <2>2. Last(evaluated[m]) = e
    BY <2>1 DEF Last
  <2>3. /\ ~e.book.inPlay /\ 1 \in DOMAIN decisions[m]
        /\ \A i \in DOMAIN decisions[m] :
              /\ decisions[m][i].sel \in ActiveRunners(e.book)
              /\ decisions[m][i].price = Price(e.book, decisions[m][i].sel)
    BY <2>1 DEF AgreesWith
  <2>4. e.book \in FeedBook
    BY <2>1 DEF GoodCall
  <2>5. /\ e.at < e.book.off /\ e.book.off <= e.at + Window
        /\ e.book.off \in InRange
    BY <2>1 DEF GoodCall
  <2>6. ASSUME NEW i \in DOMAIN decisions[m]
        PROVE  /\ e.book.runners[decisions[m][i].sel].status = "ACTIVE"
               /\ e.book.runners[decisions[m][i].sel].ltp = decisions[m][i].price
    BY <2>3, <2>4, <2>6, ActiveInTheFeed DEF Price
  <2>7. ~Closed(e.book)
    <3>1. decisions[m][1].sel \in ActiveRunners(e.book)
      BY <2>1, <2>3
    <3>2. \E k \in 1 .. 2 : e.book.runners[k].status = "ACTIVE"
      BY <2>4, <3>1, ActiveInTheFeed
    <3> QED  BY <2>4, <3>2 DEF FeedBook
  <2> QED  BY <2>2, <2>3, <2>5, <2>6, <2>7
<1> QED  BY <1>1, ReplaySafety, PTL

\* A market is evaluated once, at the first book that offers anything, if
\* that is a chance to bet.
THEOREM OneChancePerMarket == Spec => []FirstChanceIsTaken
<1>1. ReplayInv => FirstChanceIsTaken
  <2> SUFFICES ASSUME ReplayInv, NEW m \in Markets
               PROVE  /\ Len(evaluated[m]) <= 1
                      /\ (evaluated[m] # <<>>) <=> (chances[m] = "open")
                      /\ evaluated[m] # <<>> => m \in done
    BY DEF FirstChanceIsTaken
  <2>1. CallPart(m) /\ DonePart(m)
    BY DEF ReplayInv, MarketPart
  <2>2. CASE evaluated[m] = <<>> /\ chances[m] \in {"none", "lost"}
    BY <2>2
  <2>3. CASE chances[m] = "open" /\ \E e : evaluated[m] = <<e>>
    <3>1. PICK e : evaluated[m] = <<e>>
      BY <2>3
    <3>2. Len(<<e>>) = 1 /\ <<e>> # <<>>
      OBVIOUS
    <3>3. m \in done
      BY <2>1, <2>3 DEF DonePart
    <3> QED  BY <2>3, <3>1, <3>2, <3>3
  <2> QED  BY <2>1, <2>2, <2>3 DEF CallPart
<1> QED  BY <1>1, ReplaySafety, PTL

-----------------------------------------------------------------------------
(* Settlement.                                                             *)

Lays == LaysOf(1 .. 2)
Rows == [sel : 1 .. 2, stake : Nat, liability : Int,
         outcome : {"WON", "LOST", "VOID"}, pnl : Int]

\* The odds a lay loses at: those of the start, or its own.
Odds(bet, r) == (IF r.bsp # None THEN r.bsp ELSE bet.price) - 100

\* What a row may say of a lay of runner r.
PaidBy(pnl, bet, r) ==
    /\ pnl \in Int
    /\ r.status = "LOSER" => pnl = bet.stake
    /\ r.status \in {"ACTIVE", "REMOVED"} => pnl = 0
    /\ r.status = "WINNER" => pnl <= 0 /\ 100 * pnl + bet.stake * Odds(bet, r) \in -50 .. 50

LEMMA LossIsNear ==
    ASSUME NEW stake \in Nat, NEW odds \in Nat, NEW l \in Nearest(stake * odds, 100)
    PROVE  /\ l \in Nat /\ 100 * (-l) + stake * odds \in -50 .. 50
<1> DEFINE n == stake * odds
<1>1. n \in Nat
  BY ProductIsNatural
<1> HIDE DEF n
<1>2. l \in Int /\ 2 * (n - l * 100) <= 100 /\ 2 * (l * 100 - n) <= 100
  <2>1. l \in Nearest(n, 100)
    BY DEF n
  <2> QED  BY <1>1, <2>1, NearestIsNear
<1>3. l \in Nat /\ 100 * (-l) + n \in -50 .. 50
  BY <1>1, <1>2
<1> QED  BY <1>3 DEF n

LEMMA PnlIsPaid ==
    ASSUME NEW bet \in Lays, NEW r \in Runner, r.sp \in {None, r.bsp}, NEW pnl \in Pnl(bet, r)
    PROVE  PaidBy(pnl, bet, r)
<1>1. bet.stake \in Nat /\ bet.price \in Nat /\ bet.price > 100
  BY DEF Lays, LaysOf
<1>2. r.bsp \in {None} \cup {p \in Nat : p > 100}
  BY ReplayAssumption DEF Runner
<1>3. SettlementPrice(bet, r) - 100 = Odds(bet, r)
  BY DEF SettlementPrice, Bsp, Odds
<1>4. Odds(bet, r) \in Nat
  BY <1>1, <1>2 DEF Odds
<1>5. CASE r.status = "WINNER"
  <2>1. PICK l \in Nearest(bet.stake * Odds(bet, r), 100) : pnl = -l
    BY <1>3, <1>5 DEF Pnl, Outcome, Loss
  <2>2. l \in Nat /\ 100 * (-l) + bet.stake * Odds(bet, r) \in -50 .. 50
    BY <1>1, <1>4, LossIsNear
  <2>3. pnl \in Int /\ pnl <= 0
    BY <2>1, <2>2
  <2> QED  BY <1>5, <2>1, <2>2, <2>3 DEF PaidBy
<1>6. CASE r.status = "LOSER"
  BY <1>1, <1>6 DEF Pnl, Outcome, PaidBy
<1>7. CASE r.status \in {"ACTIVE", "REMOVED"}
  BY <1>7 DEF Pnl, Outcome, PaidBy
<1> QED  BY <1>5, <1>6, <1>7 DEF Runner

\* Row i of market m says what became of bet i on the last book of the file.
Horse(m, i) == market[m].runners[decisions[m][i].sel]
RowSettled(m, i) ==
    \E pnl : /\ PaidBy(pnl, decisions[m][i], Horse(m, i))
             /\ rows[m][i] = Row(m, decisions[m][i], Horse(m, i), pnl)

MarketSettled(m) ==
    /\ decisions[m] \in Seq(Lays)
    /\ decisions[m] # <<>> => lastBook[m] = market[m]
    /\ rows[m] \in Seq(Rows) /\ Len(rows[m]) <= Len(decisions[m])
    /\ phase = "streaming" => rows[m] = <<>>
    /\ \A i \in 1 .. Len(rows[m]) : RowSettled(m, i)

SettleInv ==
    /\ DOMAIN rows = Markets /\ DOMAIN lastBook = Markets
    /\ \A m \in Markets : MarketSettled(m)
    /\ phase = "summarised" =>
          summary = Totals /\ \A m \in Markets : Len(rows[m]) = Len(decisions[m])

LEMMA SettleInit == Init => SettleInv
<1> SUFFICES ASSUME Init PROVE SettleInv
  OBVIOUS
<1>1. ASSUME NEW m \in Markets PROVE MarketSettled(m)
  <2>1. decisions[m] = <<>> /\ rows[m] = <<>>
    BY DEF Init
  <2> QED  BY <2>1 DEF MarketSettled
<1> QED  BY <1>1 DEF Init, SettleInv

\* A book: whoever has bets from it is settled on what comes next.
LEMMA BookSettles ==
    ASSUME ReplayInv, SettleInv, NEW m \in Markets, MarketBook(m)
    PROVE  SettleInv'
<1>1. PICK t, b :
        /\ t \in {time, time + 1} \cap 0 .. MaxTime /\ b \in NextBooks(market[m])
        /\ market' = [market EXCEPT ![m] = b]
        /\ lastBook' = [lastBook EXCEPT ![m] = b]
        /\ Consider(m, b, t)
  BY DEF MarketBook, Remember
<1>2. phase = "streaming" /\ phase' = phase /\ rows' = rows
  BY DEF MarketBook
<1>3. b \in FeedBook
  BY <1>1, NextBookIsOfTheFeed DEF ReplayInv, MarketPart
<1>4. /\ \A k \in Markets : k # m => decisions'[k] = decisions[k]
      /\ decisions'[m] \in Seq(Lays)
  <2>1. CASE decisions' = decisions
    BY <2>1 DEF SettleInv, MarketSettled
  <2>2. CASE EvaluateMarket(m, b, t)
    <3>1. PICK result \in Evaluate(b, Strategy) :
            decisions' = IF result.bets # <<>> THEN [decisions EXCEPT ![m] = result.bets]
                         ELSE decisions
      BY <2>2 DEF EvaluateMarket
    <3>2. Readable(b) /\ ActiveRunners(b) \subseteq 1 .. 2
      BY <1>3, ActiveInTheFeed
    <3>3. result.bets \in Seq(LaysOf(ActiveRunners(b)))
      BY <3>2, BetsAreLays, ReplayAssumption
    <3>4. LaysOf(ActiveRunners(b)) \subseteq Lays
      BY <3>2 DEF LaysOf, Lays
    <3>5. result.bets \in Seq(Lays)
      BY <3>3, <3>4
    <3> QED  BY <3>1, <3>5 DEF ReplayInv, SettleInv, MarketSettled
  <2> QED  BY <1>1, <2>1, <2>2 DEF Consider
<1>5. ASSUME NEW k \in Markets PROVE MarketSettled(k)'
  <2>1. rows'[k] = <<>> /\ Len(rows'[k]) = 0 /\ rows'[k] \in Seq(Rows)
    BY <1>2 DEF SettleInv, MarketSettled
  <2>2. decisions'[k] \in Seq(Lays) /\ Len(decisions'[k]) \in Nat
    <3>1. decisions[k] \in Seq(Lays)
      BY DEF SettleInv, MarketSettled
    <3>2. decisions'[k] \in Seq(Lays)
      BY <1>4, <3>1
    <3> QED  BY <3>2
  <2>3. decisions'[k] # <<>> => lastBook'[k] = market'[k]
    <3>1. DOMAIN market = Markets /\ DOMAIN lastBook = Markets
      BY DEF SettleInv, ReplayInv
    <3>2. CASE k = m
      BY <1>1, <3>1, <3>2
    <3>3. CASE k # m
      <4>1. lastBook'[k] = lastBook[k] /\ market'[k] = market[k] /\ decisions'[k] = decisions[k]
        BY <1>1, <1>4, <3>1, <3>3
      <4> QED  BY <4>1 DEF SettleInv, MarketSettled
    <3> QED  BY <3>2, <3>3
  <2> QED  BY <2>1, <2>2, <2>3 DEF MarketSettled
<1>6. DOMAIN rows' = Markets /\ DOMAIN lastBook' = Markets
  BY <1>1, <1>2 DEF SettleInv
<1> QED  BY <1>2, <1>5, <1>6 DEF SettleInv

\* One bet is settled.
LEMMA SettleSettles ==
    ASSUME ReplayInv, SettleInv, NEW m \in Markets, Settle(m)
    PROVE  SettleInv'
<1> DEFINE n == Len(rows[m]) + 1
           bet == decisions[m][n]
           r == lastBook[m].runners[bet.sel]
<1>1. PICK pnl \in Pnl(bet, r) : rows' = [rows EXCEPT ![m] = Append(@, Row(m, bet, r, pnl))]
  BY DEF Settle
<1>2. /\ phase = "settling" /\ phase' = phase /\ Len(rows[m]) < Len(decisions[m])
      /\ market' = market /\ decisions' = decisions /\ lastBook' = lastBook
  BY DEF Settle
<1>3. /\ decisions[m] \in Seq(Lays) /\ rows[m] \in Seq(Rows)
      /\ decisions[m] # <<>> => lastBook[m] = market[m]
  BY DEF SettleInv, MarketSettled
<1>4. n \in 1 .. Len(decisions[m]) /\ bet \in Lays /\ n \in Nat
  BY <1>2, <1>3
<1>5. r = Horse(m, n) /\ r \in Runner /\ r.sp \in {None, r.bsp}
  <2>1. lastBook[m] = market[m] /\ market[m] \in FeedBook /\ bet.sel \in 1 .. 2
    <3>1. decisions[m] # <<>>
      BY <1>2, <1>3
    <3>2. market[m] \in FeedBook
      BY DEF ReplayInv, MarketPart
    <3>3. bet.sel \in 1 .. 2
      <4> HIDE DEF bet
      <4> QED  BY <1>4 DEF Lays, LaysOf
    <3> HIDE DEF bet
    <3> QED  BY <1>3, <3>1, <3>2, <3>3
  <2> QED  BY <2>1 DEF FeedBook, Book, OneStartingPrice, Horse
<1> DEFINE row == Row(m, bet, r, pnl)
<1>6. PaidBy(pnl, bet, r)
  BY <1>4, <1>5, PnlIsPaid
<1>7. row \in Rows
  BY <1>4, <1>6 DEF Row, Rows, PaidBy, Lays, LaysOf, Outcome
<1>8. /\ rows'[m] \in Seq(Rows) /\ Len(rows'[m]) = n /\ rows'[m][n] = row
      /\ \A i \in 1 .. Len(rows[m]) : rows'[m][i] = rows[m][i]
  <2>1. rows'[m] = Append(rows[m], row)
    BY <1>1 DEF SettleInv
  <2> HIDE DEF row
  <2> QED  BY <1>3, <1>7, <2>1
<1>9. ASSUME NEW i \in 1 .. n PROVE RowSettled(m, i)'
  <2>1. CASE i = n
    <3>1. (decisions[m][i])' = bet /\ Horse(m, i)' = r
      BY <1>2, <1>5, <2>1 DEF Horse
    <3>2. (rows[m][i])' = row
      BY <1>8, <2>1
    <3> HIDE DEF bet, r
    <3> QED  BY <1>6, <3>1, <3>2 DEF RowSettled, PaidBy, Row, Odds
  <2>2. CASE i # n
    <3>1. i \in 1 .. Len(rows[m])
      BY <1>3, <2>2
    <3>2. RowSettled(m, i) /\ rows'[m][i] = rows[m][i]
      BY <1>8, <3>1 DEF SettleInv, MarketSettled
    <3> QED  BY <1>2, <3>2 DEF RowSettled, Horse
  <2> QED  BY <2>1, <2>2
<1>10. MarketSettled(m)'
  BY <1>2, <1>3, <1>4, <1>8, <1>9 DEF MarketSettled
<1>11. ASSUME NEW k \in Markets, k # m PROVE MarketSettled(k)'
  <2>1. rows'[k] = rows[k] /\ MarketSettled(k)
    BY <1>1, <1>11 DEF SettleInv
  <2> QED  BY <1>2, <2>1 DEF MarketSettled, RowSettled, Horse
<1>12. DOMAIN rows' = Markets /\ DOMAIN lastBook' = Markets
  BY <1>1, <1>2 DEF SettleInv
<1> QED  BY <1>2, <1>10, <1>11, <1>12 DEF SettleInv

LEMMA SettleNext == ReplayInv /\ SettleInv /\ [Next]_vars => SettleInv'
<1> SUFFICES ASSUME ReplayInv, SettleInv, [Next]_vars PROVE SettleInv'
  OBVIOUS
<1>1. ASSUME UNCHANGED <<market, lastBook, decisions, rows>>,
             phase # "streaming" => phase' # "streaming",
             phase = "streaming" => phase' = "streaming" \/ phase' = "settling",
             phase' = "summarised" =>
                summary' = Totals' /\ \A m \in Markets : Len(rows[m]) = Len(decisions[m])
      PROVE  SettleInv'
  <2>1. ASSUME NEW m \in Markets PROVE MarketSettled(m)'
    <3>1. MarketSettled(m)
      BY DEF SettleInv
    <3> QED  BY <1>1, <3>1 DEF MarketSettled, RowSettled, Horse
  <2> QED  BY <1>1, <2>1 DEF SettleInv
<1>2. CASE UNCHANGED vars
  <2>1. Totals' = Totals
    BY <1>2 DEF vars, Totals, Played, RowAt, Count, TotalStake, TotalLiability, TotalPnl
  <2> QED  BY <1>1, <1>2, <2>1 DEF vars, SettleInv
<1>3. CASE EndOfStream
  BY <1>1, <1>3 DEF EndOfStream
<1>4. CASE Summarise
  <2>1. Totals' = Totals
    BY <1>4 DEF Summarise, Totals, Played, RowAt, Count, TotalStake, TotalLiability, TotalPnl
  <2> QED  BY <1>1, <1>4, <2>1 DEF Summarise
<1>5. ASSUME NEW m \in Markets, MarketBook(m) PROVE SettleInv'
  BY <1>5, BookSettles
<1>6. ASSUME NEW m \in Markets, Settle(m) PROVE SettleInv'
  BY <1>6, SettleSettles
<1> QED  BY <1>2, <1>3, <1>4, <1>5, <1>6 DEF Next

LEMMA SettleSafety == Spec => []SettleInv
BY SettleInit, SettleNext, ReplaySafety, PTL DEF Spec

\* A lay is settled on what the file last said of its horse, and a loss is
\* priced at the start.
THEOREM BetsAreSettled == Spec => []SettledOnTheResult
<1>1. ReplayInv /\ SettleInv => SettledOnTheResult
  <2> SUFFICES ASSUME ReplayInv, SettleInv, NEW m \in Markets, NEW i \in DOMAIN rows[m]
               PROVE  LET row == rows[m][i]
                          bet == decisions[m][i]
                          horse == market[m].runners[bet.sel]
                          odds == (IF horse.bsp # None THEN horse.bsp ELSE bet.price) - 100
                      IN  /\ row.sel = bet.sel /\ row.stake = bet.stake
                          /\ horse.status = "LOSER" => row.outcome = "WON" /\ row.pnl = row.stake
                          /\ horse.status \in {"ACTIVE", "REMOVED"} =>
                                row.outcome = "VOID" /\ row.pnl = 0
                          /\ horse.status = "WINNER" =>
                                row.outcome = "LOST" /\ 100 * row.pnl + row.stake * odds \in -50 .. 50
    BY DEF SettledOnTheResult
  <2> DEFINE bet == decisions[m][i]
             horse == Horse(m, i)
  <2>1. RowSettled(m, i)
    BY DEF SettleInv, MarketSettled
  <2>2. PICK pnl : PaidBy(pnl, bet, horse) /\ rows[m][i] = Row(m, bet, horse, pnl)
    BY <2>1 DEF RowSettled
  <2>3. horse = market[m].runners[bet.sel]
    BY DEF Horse
  <2> HIDE DEF bet, horse
  <2>4. /\ rows[m][i].sel = bet.sel /\ rows[m][i].stake = bet.stake
        /\ rows[m][i].outcome = Outcome(horse.status) /\ rows[m][i].pnl = pnl
    BY <2>2 DEF Row
  <2>5. /\ horse.status = "LOSER" => rows[m][i].outcome = "WON" /\ rows[m][i].pnl = rows[m][i].stake
        /\ horse.status \in {"ACTIVE", "REMOVED"} => rows[m][i].outcome = "VOID" /\ rows[m][i].pnl = 0
        /\ horse.status = "WINNER" =>
              /\ rows[m][i].outcome = "LOST"
              /\ 100 * rows[m][i].pnl + rows[m][i].stake * Odds(bet, horse) \in -50 .. 50
    BY <2>2, <2>4 DEF PaidBy, Outcome
  <2> QED  BY <2>3, <2>4, <2>5 DEF bet, Odds
<1> QED  BY <1>1, ReplaySafety, SettleSafety, PTL

-----------------------------------------------------------------------------
(* The summary.                                                            *)

RowOK(row) == row \in Rows /\ row.pnl <= row.stake
              /\ (row.pnl = row.stake => row.outcome = "WON" \/ row.stake = 0)

\* A lay never earns more than its stake.
LEMMA RowsAreOK ==
    ASSUME ReplayInv, SettleInv
    PROVE  \A p \in Played : RowOK(RowAt(p))
<1> SUFFICES ASSUME NEW m \in Markets, NEW i \in DOMAIN rows[m] PROVE RowOK(rows[m][i])
  BY DEF Played, RowAt
<1>1. rows[m] \in Seq(Rows) /\ decisions[m] \in Seq(Lays) /\ RowSettled(m, i)
      /\ Len(rows[m]) <= Len(decisions[m])
  BY DEF SettleInv, MarketSettled
<1>2. rows[m][i] \in Rows /\ decisions[m][i] \in Lays
  BY <1>1
<1> DEFINE bet == decisions[m][i]
           horse == Horse(m, i)
           row == rows[m][i]
<1>3. PICK pnl : PaidBy(pnl, bet, horse) /\ row = Row(m, bet, horse, pnl)
  BY <1>1 DEF RowSettled
<1>4. horse \in Runner
  BY <1>2 DEF ReplayInv, MarketPart, FeedBook, Book, Horse, Lays, LaysOf
<1>5. row \in Rows /\ bet.stake \in Nat
  BY <1>2 DEF Lays, LaysOf
<1> HIDE DEF bet, horse, row
<1>6. row.stake = bet.stake /\ row.pnl = pnl /\ row.outcome = Outcome(horse.status)
  BY <1>3 DEF Row
<1>7. pnl \in Int /\ horse.status \in {"ACTIVE", "REMOVED", "WINNER", "LOSER"}
  BY <1>3, <1>4 DEF PaidBy, Runner
<1>8. RowOK(row)
  BY <1>3, <1>5, <1>6, <1>7 DEF RowOK, PaidBy, Outcome
<1> QED  BY <1>8 DEF row

LEMMA PlayedIsFinite ==
    ASSUME SettleInv
    PROVE  IsFiniteSet(Played)
<1> DEFINE f == [m \in Markets |-> {m} \X DOMAIN rows[m]]
           T == {{m} \X DOMAIN rows[m] : m \in Markets}
<1>1. IsFiniteSet(T)
  <2>1. f \in Surjection(Markets, T)
    BY DEF Surjection
  <2> HIDE DEF f, T
  <2> QED  BY <2>1, FS_Surjection, ReplayAssumption
<1>2. ASSUME NEW m \in Markets PROVE IsFiniteSet({m} \X DOMAIN rows[m])
  <2>1. DOMAIN rows[m] = 1 .. Len(rows[m]) /\ Len(rows[m]) \in Int
    BY DEF SettleInv, MarketSettled
  <2>2. IsFiniteSet(DOMAIN rows[m])
    BY <2>1, FS_Interval
  <2>3. IsFiniteSet({m})
    BY FS_Singleton
  <2> QED  BY <2>2, <2>3, FS_Product
<1>3. \A U \in T : IsFiniteSet(U)
  BY <1>2
<1>4. Played = UNION T
  BY DEF Played
<1> HIDE DEF T
<1> QED  BY <1>1, <1>3, <1>4, FS_UNION

\* Every row has one of the three outcomes.
LEMMA OutcomesAddUp ==
    ASSUME ReplayInv, SettleInv
    PROVE  Count("WON") + Count("LOST") + Count("VOID") = Cardinality(Played)
<1> DEFINE W == {p \in Played : RowAt(p).outcome = "WON"}
           L == {p \in Played : RowAt(p).outcome = "LOST"}
           V == {p \in Played : RowAt(p).outcome = "VOID"}
<1>1. W \cup L \cup V = Played /\ W \cap L = {} /\ (W \cup L) \cap V = {}
  BY RowsAreOK DEF RowOK, Rows
<1>2. IsFiniteSet(W) /\ IsFiniteSet(L) /\ IsFiniteSet(V)
  <2>1. W \in SUBSET Played /\ L \in SUBSET Played /\ V \in SUBSET Played
    OBVIOUS
  <2> HIDE DEF W, L, V
  <2> QED  BY <2>1, PlayedIsFinite, FS_Subset
<1>3. Count("WON") = Cardinality(W) /\ Count("LOST") = Cardinality(L) /\ Count("VOID") = Cardinality(V)
  BY DEF Count
<1> HIDE DEF W, L, V
<1>4. Cardinality({}) = 0
  BY FS_EmptySet
<1>5. IsFiniteSet(W \cup L) /\ Cardinality(W \cup L) = Cardinality(W) + Cardinality(L) - 0
  BY <1>1, <1>2, <1>4, FS_Union
<1>6. Cardinality(W \cup L \cup V) = Cardinality(W \cup L) + Cardinality(V) - 0
  BY <1>1, <1>2, <1>4, <1>5, FS_Union
<1>7. Cardinality(W) \in Nat /\ Cardinality(L) \in Nat /\ Cardinality(V) \in Nat
  BY <1>2, FS_CardinalityType
<1>8. Cardinality(W \cup L) = Cardinality(W) + Cardinality(L)
  BY <1>5, <1>7
<1>9. Cardinality(W \cup L \cup V) = Cardinality(W) + Cardinality(L) + Cardinality(V)
  BY <1>6, <1>7, <1>8
<1>10. Cardinality(W \cup L \cup V) = Cardinality(Played)
  BY <1>1, Zenon
<1> QED  BY <1>3, <1>9, <1>10, Zenon

\* A market with rows has a first row.
LEMMA MarketsHaveRows ==
    ASSUME SettleInv
    PROVE  Cardinality({m \in Markets : rows[m] # <<>>}) <= Cardinality(Played)
<1> DEFINE M == {m \in Markets : rows[m] # <<>>}
           f == [m \in M |-> <<m, 1>>]
<1>1. ASSUME NEW m \in M PROVE <<m, 1>> \in Played
  <2>1. rows[m] \in Seq(Rows) /\ rows[m] # <<>>
    BY DEF SettleInv, MarketSettled
  <2>2. 1 \in DOMAIN rows[m]
    BY <2>1
  <2> QED  BY <2>2 DEF Played
<1>2. f \in Injection(M, Played)
  BY <1>1 DEF Injection, IsInjective
<1> HIDE DEF M, f
<1>3. Cardinality(M) <= Cardinality(Played)
  BY <1>2, PlayedIsFinite, FS_Injection
<1> QED  BY <1>3 DEF M

\* The summary counts every bet, its outcomes add up, and lays earn their
\* stakes at best.
THEOREM SummaryIsSound == Spec => []SummaryAddsUp
<1>1. ReplayInv /\ SettleInv => SummaryAddsUp
  <2> SUFFICES ASSUME ReplayInv, SettleInv, phase = "summarised"
               PROVE  /\ summary.bets = Cardinality(UNION {{m} \X DOMAIN decisions[m] : m \in Markets})
                      /\ summary.won + summary.lost + summary.void = summary.bets
                      /\ summary.markets <= summary.bets
                      /\ summary.pnl <= summary.stake
                      /\ summary.pnl = summary.stake =>
                            \A m \in Markets : \A i \in DOMAIN rows[m] :
                                rows[m][i].outcome = "WON" \/ rows[m][i].stake = 0
    BY DEF SummaryAddsUp
  <2>1. /\ summary.bets = Cardinality(Played) /\ summary.won = Count("WON")
        /\ summary.lost = Count("LOST") /\ summary.void = Count("VOID")
        /\ summary.markets = Cardinality({m \in Markets : rows[m] # <<>>})
        /\ summary.pnl = TotalPnl /\ summary.stake = TotalStake
    BY DEF SettleInv, Totals
  <2>2. Played = UNION {{m} \X DOMAIN decisions[m] : m \in Markets}
    <3>1. \A m \in Markets : DOMAIN rows[m] = DOMAIN decisions[m]
      BY DEF SettleInv, MarketSettled
    <3> QED  BY <3>1 DEF Played
  <2> DEFINE pnls == [p \in Played |-> RowAt(p).pnl]
             stakes == [p \in Played |-> RowAt(p).stake]
  <2>3. DOMAIN pnls = Played /\ DOMAIN stakes = Played
    OBVIOUS
  <2>4. \A p \in Played : /\ pnls[p] \in Int /\ stakes[p] \in Int /\ pnls[p] <= stakes[p]
                          /\ pnls[p] = RowAt(p).pnl /\ stakes[p] = RowAt(p).stake
    BY RowsAreOK DEF RowOK, Rows
  <2>5. TotalPnl = SumFunction(pnls) /\ TotalStake = SumFunction(stakes)
    BY DEF TotalPnl, TotalStake
  <2> HIDE DEF pnls, stakes
  <2>6. Summands(pnls) /\ Summands(stakes)
    BY <2>3, <2>4, PlayedIsFinite DEF Summands
  <2>7. /\ SumFunction(pnls) <= SumFunction(stakes)
        /\ SumFunction(pnls) = SumFunction(stakes) => \A p \in Played : pnls[p] = stakes[p]
    <3>1. DOMAIN pnls = DOMAIN stakes /\ \A p \in DOMAIN pnls : pnls[p] <= stakes[p]
      BY <2>3, <2>4
    <3>2. /\ SumFunction(pnls) <= SumFunction(stakes)
          /\ SumFunction(pnls) = SumFunction(stakes) => \A p \in DOMAIN pnls : pnls[p] = stakes[p]
      BY <2>6, <3>1, SumMonotone, Zenon
    <3> QED  BY <2>3, <3>2
  <2>8. ASSUME TotalPnl = TotalStake, NEW m \in Markets, NEW i \in DOMAIN rows[m]
        PROVE  rows[m][i].outcome = "WON" \/ rows[m][i].stake = 0
    <3>1. <<m, i>> \in Played /\ RowAt(<<m, i>>) = rows[m][i]
      BY DEF Played, RowAt
    <3> QED  BY <2>4, <2>5, <2>7, <2>8, <3>1, RowsAreOK DEF RowOK
  <2> QED  BY <2>1, <2>2, <2>5, <2>7, <2>8, OutcomesAddUp, MarketsHaveRows
<1> QED  BY <1>1, ReplaySafety, SettleSafety, PTL

=============================================================================
