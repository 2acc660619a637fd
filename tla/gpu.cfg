SPECIFICATION FairSpec
CONSTANTS
    Cards = {c1}
    Runs = {r1, r2}
    Free = Free
    Fresh = 1
    Skew = 1
    Ahead = 1
    MaxAge = 4
INVARIANTS
    TypeOK
PROPERTIES
    LongUseRefused
    RunsSettle
CHECK_DEADLOCK FALSE
