\* Two instruments that trade in size whenever they trade at all, and no
\* corporate actions: no order is ever carried over or goes stale.
CONSTANTS
    Instruments <- MCInstruments
    NumInstruments = 2
    NumSessions = 3
    RebalanceSessions = {1, 2, 3}
    QtyUnit = 2
    PriceUnit = 1
    InitialCash = 9
    NoBar = NoBar
    SlippageBps = 2500
    Commission = 1
    ParticipationBps = 5000
    WeightUnit = 4
    NoTradeBandBps = 500
    MinTrade = 1
    BarValues <- MCLiquidBars
    SplitRatios = {}
    DividendAmounts = {}
    DelistingAmounts = {}
    TargetWeights <- MCSwitch
    MaxActions = 0
SPECIFICATION Spec
INVARIANTS
    NoOversell
PROPERTIES
    CarriedAtSameValue
CHECK_DEADLOCK FALSE
