\* The intervals of config/index.ts on a coarser scale, with late timers and
\* clocks that are one tick apart.
SPECIFICATION Spec
CONSTANTS
    HeartbeatInterval = 2
    HeartbeatTtl = 5
    WatchdogInterval = 3
    SchedulerInterval = 2
    MaxDelay = 5
    Jitter = 1
    Unit = 1
    MaxAttempts = 4
    Lag = 1
    Skew = 1
INVARIANTS
    TypeOK
    HeartbeatHolds
    RescuedInTime
    RetriedInTime
PROPERTIES
    NotBeforeBackoff
