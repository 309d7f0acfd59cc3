\* Two workers, a watchdog and a crash over a connection that breaks once.
SPECIFICATION ResendSpec
CONSTANTS
    j1 = j1
    j2 = j2
    k1 = k1
    n1 = n1
    n2 = n2
    w1 = w1
    w2 = w2
    d1 = d1
    s1 = s1
    s2 = s2
    NoJob = NoJob
    NoKey = NoKey
    Jobs = {j1}
    Keys = {}
    Workers = {w1, w2}
    Watchdogs = {d1}
    Schedulers = {}
    Requests = {}
    Nodes = {n1}
    PRIORITIES <- OneList
    Priority <- NoPriority
    MaxAttempts <- Once
    KeyOf <- NoKeys
    NodeOf <- Together
    Handled = {j1}
    AttemptsCap = 2
    CounterCap = 0
    MaxCopies = 2
    MaxCrashes = 1
    MaxLapses = 0
    MaxEvictions = 0
    MaxExpiries = 0
    MaxResends = 1
SYMMETRY WorkersAndJobs
INVARIANTS
    ResendTypeOK
    LossNeedsTwo
