\* One instrument, every kind of corporate action, four sessions,
\* each ending with a rebalance.
CONSTANTS
    Instruments <- MCInstruments
    NumInstruments = 1
    NumSessions = 4
    RebalanceSessions = {1, 2, 3, 4}
    QtyUnit = 2
    PriceUnit = 1
    InitialCash = 9
    NoBar = NoBar
    SlippageBps = 2500
    Commission = 1
    ParticipationBps = 5000
    WeightUnit = 4
    NoTradeBandBps = 500
    MinTrade = 1
    BarValues <- MCBars
    SplitRatios <- MCSplits
    DividendAmounts <- MCDividends
    DelistingAmounts <- MCDelistings
    TargetWeights <- MCAllIn
    MaxActions = 2
SPECIFICATION Spec
INVARIANTS
    TypeOK
    OneFillPerOrder
    FilledAtFirstExecutableOpen
    AttemptsFollowLifeCycle
    NeverMarkedAtCost
    FailsOnlyOnStaleSale
PROPERTIES
    DoubleEntry
CHECK_DEADLOCK FALSE
