\* Each program from boot to exit: two loops, two signals, two jobs, three runs.
SPECIFICATION FairSpec
CONSTANTS
    Loops = {l1, l2}
    Signals = {sigint, sigterm}
    JobCount = 2
    Rounds = 3
INVARIANTS
    TypeOK
    GracefulExit
    RoundsApart
PROPERTIES
    Stops
    ScriptsEnd
CHECK_DEADLOCK FALSE
