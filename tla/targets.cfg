\* A sweep of two runs over two rebalance sessions: two seats, or three, for four
\* names; every order may fail; the caps bind and the rounding shows.
SPECIFICATION SweepSpec
CONSTANTS
    Instruments <- MCInstruments
    FactorWeights <- MCFactorWeights
    Direction <- MCDirection
    MinWeightPercent = 60
    Scale = 100
    CashBuffer = 3
    MaxNameWeight = 49
    DefaultVolatility = 20
    Sector <- MCSector
    RiskNameWeight = 45
    SectorWeight = 60
    UnknownSectorWeight = 0
    GrossCap = 100
    RiskCashBuffer = 10
    MaxIterations = 10
    CrossSections <- MCCrossSections
    RebalanceSessions = 2
    ConfiguredSize = 2
    ConfiguredBuffer = 3
    BufferMargin = 1
    AskedVariants <- MCAskedVariants
    Methods <- MCMethods
    RiskMetrics <- MCRiskMetrics
    MaxRuns = 2
INVARIANTS
    SweepTypeOK
    SelectionFollowsBuffer
    WeightsAreSound
    VariantsShareTheSignal
CHECK_DEADLOCK FALSE
