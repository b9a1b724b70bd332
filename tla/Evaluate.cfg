SPECIFICATION Spec
CONSTANTS
    Grain = 4
    Books <- MCBooks
    Strategies <- MCStrategies
INVARIANTS
    AnswerWellFormed
    LaysTheFavourites
    FirstRuleWins
    StakeFollowsFormula
    TightMarketsAreShared
    LiabilityFollowsStake
    OutsidersDoNotMatter
    ListingOrderDoesNotMatter
CHECK_DEADLOCK FALSE
