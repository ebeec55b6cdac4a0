\* Two datasets built side by side, one of them twice, with revised closes
\* and a stop at any point.
CONSTANTS
    D1 = D1
    D2 = D2
    I = I
    FB = FB
    META = META
    Datasets = {D1, D2}
    Instruments = {I}
    InstrumentOf <- MCInstrumentOf
    YearLength = 2
    Sources <- MCSources
    MaxBuilds = 2
    MaxStops = 1
    NoFile = NoFile
    Torn = Torn
SPECIFICATION Spec
INVARIANTS
    TypeOK
    IngestedExactlyOnce
    ReadsBackOwnRows
PROPERTIES
    ManifestMatchesTables
CHECK_DEADLOCK FALSE
