SPECIFICATION FairSpec
CONSTANTS
    Releases = {good, bad}
    Broken = {bad}
    Original = Original
    Torn = Torn
    NoFile = NoFile
    MaxInstalls = 2
    MaxFaults = 1
    MaxLines = 2
    Buffer = 1
    MaxInputs = 1
    Runs = {p1, p2}
    PageSize = 1
INVARIANTS
    TypeOK
    RollbackHasRun
    StreamComplete
    NoRunMissed
    QuietSummaryExact
PROPERTIES
    OnlyRollbackTears
    ServiceReturns
    StreamsEnd
CHECK_DEADLOCK FALSE
