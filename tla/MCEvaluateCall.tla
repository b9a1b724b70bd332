--------------------------- MODULE MCEvaluateCall ---------------------------
(* Three runners at every combination of prices around the edges of the    *)
(* bands, and the rules of the shipped plugins, whole and cut down.        *)
EXTENDS EvaluateCall

LtpValues == {None, 150, 200, 210, 230, 600, 900}

Runner ==
    [ltp : LtpValues, status : {"ACTIVE"}] \cup [ltp : {None, 210, 600}, status : {"REMOVED", ""}]

Book(runners) ==
    [runners |-> runners, defined |-> TRUE, inPlay |-> FALSE,
     country |-> "GB", marketType |-> "WIN"]

\* A market that evaluate() turns down before it looks at the runners.
OddBooks ==
    LET b == Book(<<[ltp |-> 210, status |-> "ACTIVE"], [ltp |-> 600, status |-> "ACTIVE"]>>)
    IN  {[b EXCEPT !.defined = FALSE], [b EXCEPT !.inPlay = TRUE],
         [b EXCEPT !.country = "FR"], [b EXCEPT !.country = ""],
         [b EXCEPT !.marketType = "PLACE"], [b EXCEPT !.runners = <<>>]}

MCBooks == {Book(r) : r \in [1 .. 3 -> Runner]} \cup OddBooks

NewRule(lo, hi, base) ==
    [band |-> <<lo, hi>>, baseStake |-> base, stake |-> None,
     gapLt |-> None, gapGte |-> None, also2nd |-> FALSE]

\* The bands of mark_4rule_lay_v1, with a stake that halves to half a penny;
\* amounts are in quarters.
FourRules ==
    <<NewRule(150, 200, 1200), NewRule(200, 500, 420),
      [NewRule(500, 800, None) EXCEPT !.stake = 400, !.gapLt = 200, !.also2nd = TRUE],
      [NewRule(500, 800, None) EXCEPT !.stake = 401, !.gapGte = 200]>>

\* Overlapping bands, the first of them with a stake of 0 as in
\* chimera_may2026_v1.
Overlapping ==
    <<[NewRule(200, 300, 0) EXCEPT !.gapGte = 30], NewRule(150, 250, 29),
      [NewRule(101, 1000, 133) EXCEPT !.also2nd = TRUE]>>

Controls ==
    [floor : {150}, ceiling : {800}, jofs : BOOLEAN, spread : {20},
     uplift : {None, 0, 5}, spreadControl : BOOLEAN]

MCStrategies ==
    [rules : {FourRules, Overlapping}, controls : Controls, point : {3, 4},
     countries : {{"GB", "IE"}}, marketTypes : {{"WIN"}}]

=============================================================================
