\* A worker, a watchdog run and a scheduler run: a crash, a stall, an eviction.
SPECIFICATION FairRecordSpec
CONSTANTS
    j1 = j1
    j2 = j2
    k1 = k1
    n1 = n1
    n2 = n2
    w1 = w1
    w2 = w2
    d1 = d1
    s1 = s1
    s2 = s2
    NoJob = NoJob
    NoKey = NoKey
    Jobs = {j1}
    Keys = {}
    Workers = {w1}
    Watchdogs = {d1}
    Schedulers = {s1}
    Requests = {}
    Nodes = {n1}
    PRIORITIES <- OneList
    Priority <- NoPriority
    MaxAttempts <- Twice
    KeyOf <- NoKeys
    NodeOf <- Together
    Handled = {j1}
    AttemptsCap = 3
    CounterCap = 0
    MaxCopies = 2
    MaxCrashes = 1
    MaxLapses = 1
    MaxEvictions = 1
    MaxExpiries = 0
INVARIANTS
    TypeOK
    StatusTruthful
    LossNeedsBoth
    Accounted
    OnePlaceUnlessRaced
PROPERTIES
    OnlyOrphansDiscarded
    KeepsLedger
