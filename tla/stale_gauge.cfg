\* DOCUMENTATION.md 335: distri_queue_depth says how many jobs wait right now.
SPECIFICATION FairSpec
CONSTANTS
    Jobs = {j1}
    Slots = {f1}
    PageSize = 1
    MaxMoves = 1
    MaxClicks = 1
    MaxFailures = 0
    Unknown = Unknown
PROPERTIES
    GaugeFollows
CHECK_DEADLOCK FALSE
