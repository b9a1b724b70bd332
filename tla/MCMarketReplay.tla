--------------------------- MODULE MCMarketReplay ---------------------------
(* Two runners that trade at two prices, off times in the range and beyond *)
(* it, and a strategy that lays both of them from one band.                *)
EXTENDS MarketReplay

CONSTANT m1

MCMarkets == {m1}

MCStrategy ==
    [rules |-> <<[band |-> <<150, 500>>, baseStake |-> 203, stake |-> None,
                  gapLt |-> None, gapGte |-> None, also2nd |-> TRUE]>>,
     controls |-> [floor |-> 150, ceiling |-> 800, jofs |-> FALSE, spread |-> 20,
                   uplift |-> None, spreadControl |-> FALSE],
     point |-> 2, countries |-> {}, marketTypes |-> {}]

MCBsps == {None, 350}

=============================================================================
