\* Two enqueues under one key that may run out, no watchdog, a crash.
SPECIFICATION RecordSpec
CONSTANTS
    j1 = j1
    j2 = j2
    k1 = k1
    n1 = n1
    n2 = n2
    w1 = w1
    w2 = w2
    d1 = d1
    s1 = s1
    s2 = s2
    NoJob = NoJob
    NoKey = NoKey
    Jobs = {j1, j2}
    Keys = {k1}
    Workers = {w1, w2}
    Watchdogs = {}
    Schedulers = {s1}
    Requests = {r1}
    Nodes = {n1, n2}
    PRIORITIES <- TwoLists
    Priority <- HighFirst
    MaxAttempts <- Twice
    KeyOf <- SameKey
    NodeOf <- Placed
    Handled = {j1}
    AttemptsCap = 3
    CounterCap = 0
    MaxCopies = 2
    MaxCrashes = 1
    MaxLapses = 0
    MaxEvictions = 0
    MaxExpiries = 1
INVARIANTS
    OneJobPerKey
    LoserGetsTheJob
    PublishedAreWhole
    OneRunner
    OnePlaceUnlessRaced
    NothingStray
    OvertakesInPassing
PROPERTIES
    LeadsJobLife
