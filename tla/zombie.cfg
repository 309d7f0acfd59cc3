\* Watchdog.ts 86: ids whose metadata is missing are cleaned up.
SPECIFICATION FairSpec
CONSTANTS
    j1 = j1
    j2 = j2
    k1 = k1
    n1 = n1
    n2 = n2
    w1 = w1
    w2 = w2
    d1 = d1
    s1 = s1
    s2 = s2
    NoJob = NoJob
    NoKey = NoKey
    Jobs = {j1}
    Keys = {}
    Workers = {w1}
    Watchdogs = {d1}
    Schedulers = {s1}
    Requests = {}
    Nodes = {n1, n2}
    PRIORITIES <- TwoLists
    Priority <- HighFirst
    MaxAttempts <- Twice
    KeyOf <- NoKeys
    NodeOf <- Placed
    Handled = {j1}
    AttemptsCap = 3
    CounterCap = 0
    MaxCopies = 2
    MaxCrashes = 0
    MaxLapses = 0
    MaxEvictions = 1
    MaxExpiries = 0
PROPERTIES
    OrphansAreCleanedUp
