\* Two jobs, two tabs, two requests at a time.
SPECIFICATION FairSpec
CONSTANTS
    Jobs = {j1, j2}
    Slots = {f1, f2}
    PageSize = 1
    MaxMoves = 3
    MaxClicks = 3
    MaxFailures = 1
    Unknown = Unknown
INVARIANTS
    TypeOK
    DepthWasTrue
PROPERTIES
    Converges
    SpinnerStops
CHECK_DEADLOCK FALSE
