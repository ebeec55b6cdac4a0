\* Ingestions of the same and of other content, with rate limits and stops.
CONSTANTS
    Processes = {p1, p2}
    Prices <- MCPrices
    Actions <- MCActions
    Filings = {}
    MissingFiles = {"fundamentals"}
    Jobs <- MCJobs
    MaxRetries = 3
    RateLimits = 4
    MaxJobs = 3
    MaxStops = 1
    None = None
    Short = Short
SPECIFICATION Spec
INVARIANTS
    TypeOK
PROPERTIES
    StoredIsReadable
    FailuresHaveAReason
CHECK_DEADLOCK FALSE
