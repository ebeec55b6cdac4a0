\* A sweep of two sizes and two ablations, interleaved with two trials, two holdout
\* accesses and a restart.
SPECIFICATION Spec
CONSTANTS
    Strategies = {"composite"}
    Configs = {"v1"}
    TopKGrid = {20, 30}
    TargetSize = 30
    Sleeves = {"momentum_12_1", "volatility_60d"}
    Measurements <- MCMeasurements
    SlippageBps = 5
    FewTrials = 3
    ManyTrials = 50
    Campaigns = {C1, C2}
    Specs = {S1, S2}
    Holdouts = {test, lockbox}
    Actors = {"ana"}
    Schemes <- MCSchemes
    Agendas <- MCAgendas
    MaxTrials = 2
    MaxTime = 2
    MaxRestarts = 1
    None = None
SYMMETRY MCSymmetry
INVARIANTS
    TypeOK
    VerdictRestsOnEvidence
PROPERTY
    LedgersAreOneWay
