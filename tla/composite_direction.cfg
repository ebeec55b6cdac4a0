\* docs/calculators/factors-v1.md, section 5: a risk factor has direction -1, a lower
\* value yields a higher composite score.
SPECIFICATION SweepSpec
CONSTANTS
    Instruments <- MCInstruments
    FactorWeights <- MCFactorWeights
    Direction <- MCDirection
    MinWeightPercent = 60
    Scale = 100
    CashBuffer = 3
    MaxNameWeight = 49
    DefaultVolatility = 20
    Sector <- MCSector
    RiskNameWeight = 45
    SectorWeight = 60
    UnknownSectorWeight = 0
    GrossCap = 100
    RiskCashBuffer = 10
    MaxIterations = 10
    CrossSections <- MCCrossSections
    RebalanceSessions = 2
    ConfiguredSize = 2
    ConfiguredBuffer = 3
    BufferMargin = 1
    AskedVariants <- MCAskedVariants
    Methods <- MCMethods
    RiskMetrics <- MCRiskMetrics
    MaxRuns = 2
INVARIANT
    BetterIsNotScoredLower
CHECK_DEADLOCK FALSE
