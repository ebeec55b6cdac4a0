\* Reads as of two instants, in every order with writes by this process and
\* by another.
CONSTANTS
    I = I
    J = J
    None = None
    Instruments = {I, J}
    YearLength = 3
    Bars <- MCBars
    BarFeeds <- MCBarFeeds
    ActionFeed <- MCActions
    Requests <- MCRequests
    CacheLimit = 2
    MaxWrites = 4
    MaxRestarts = 1
SPECIFICATION Spec
INVARIANTS
    TypeOK
    NoLookAhead
    AnswersArePointInTime
CHECK_DEADLOCK FALSE
