\* Scheduler.ts 12: a delayed job is transferred once.
SPECIFICATION Spec
CONSTANTS
    j1 = j1
    j2 = j2
    k1 = k1
    n1 = n1
    n2 = n2
    w1 = w1
    w2 = w2
    d1 = d1
    s1 = s1
    s2 = s2
    NoJob = NoJob
    NoKey = NoKey
    Jobs = {j1}
    Keys = {}
    Workers = {w1, w2}
    Watchdogs = {}
    Schedulers = {s1, s2}
    Requests = {}
    Nodes = {n1, n2}
    PRIORITIES <- OneList
    Priority <- NoPriority
    MaxAttempts <- Twice
    KeyOf <- NoKeys
    NodeOf <- Placed
    Handled = {j1}
    AttemptsCap = 3
    CounterCap = 0
    MaxCopies = 2
    MaxCrashes = 0
    MaxLapses = 0
    MaxEvictions = 0
    MaxExpiries = 0
INVARIANTS
    OneRunner
