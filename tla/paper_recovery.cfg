\* One instrument, three fills, a crash at any point and a second one
\* during the recovery; every fill has a later timestamp than the last.
CONSTANTS
    Instruments = {i1}
    InitialCash = 400000
    SlippageBps = 5
    Commission = 10000
    Quotes <- MCQuotes
    DefaultQuote = 100000
    Quantities = {1, 2}
    ClockSteps <- MCAdvancing
    FillIds = {1, 2, 3}
    MaxFills = 3
    MaxCrashes = 2
    NoAccount = NoAccount
SPECIFICATION FairSpec
INVARIANTS
    TypeOK
    RecoversPastAccount
    SavedAccountInLedger
PROPERTIES
    LedgerIsDurable
    RecoveryEnds
CHECK_DEADLOCK FALSE
