SPECIFICATION Spec
CONSTANTS
    Grain = 4
    Books <- MCBooks
    Strategies <- MCStrategies
INVARIANTS
    ZeroStakeSkips
CHECK_DEADLOCK FALSE
