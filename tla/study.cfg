\* Panels, comparisons and controls beside rebuilds and restatements.
SPECIFICATION Spec
CONSTANTS
    Instruments <- MCInstruments
    Month <- MCMonth
    Datasets <- MCDatasets
    Filings <- MCFilings
    Features <- MCFeatures
    FactorWeights <- MCFactorWeights
    MinWeight = 50
    Requests <- MCRequests
    DecayHorizons <- MCDecayHorizons
    MinNames = 3
    MaxRebuilds = 1
    MaxRestarts = 1
    Year = 3
    HalfYear = 2
    SkipMonth = 1
    VolSessions = 2
    YearDays = 5
    HalfYearDays = 3
    VolDays = 4
    PriceDays = 1
    PeriodsPerYear = 2
    Expanding = TRUE
    MinTrain = 1
    TrainWindow = 2
    TestWindow = 2
    StepSize = 2
    Purge = 1
    None = None
INVARIANTS
    TypeOK
    ScoresPrecedeReturns
    TrainingLabelsResolveInTime
    TestedOnce
    ControlUsesSamePanel
CHECK_DEADLOCK FALSE
