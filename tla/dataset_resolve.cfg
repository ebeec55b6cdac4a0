\* One dataset built twice from the same source.
CONSTANTS
    D1 = D1
    D2 = D2
    I = I
    FB = FB
    META = META
    Datasets = {D1}
    Instruments = {I}
    InstrumentOf <- MCInstrumentOf
    YearLength = 2
    Sources <- MCSame
    MaxBuilds = 2
    MaxStops = 0
    NoFile = NoFile
    Torn = Torn
SPECIFICATION Spec
INVARIANTS
    ResolvesUniquely
CHECK_DEADLOCK FALSE
