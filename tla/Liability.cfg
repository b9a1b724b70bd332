SPECIFICATION Spec
CONSTANTS
    Grain = 2
    m1 = m1
    Markets <- MCMarkets
    Strategy <- MCStrategy
    Window = 2
    OffTimes = {2, 3, 9}
    InRange = {2, 3}
    ExtractBsp = FALSE
    Ltps = {200, 301}
    Bsps <- MCBsps
    MaxTime = 4
INVARIANTS
    LossWithinLiability
CHECK_DEADLOCK FALSE
