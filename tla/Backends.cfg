CONSTANTS
    NMasters = 2
    MaxCrashes <- MCMaxCrashes
    Callers = {"c1", "c2"}
    Watchers = {1, 2}
    PoolIds = {1, 2, 3, 4, 5, 6, 7, 8, 9, 10}
    MaxTries = 3
    MaxReturns = 1
    Pings = 1
    Pushers = {"p1", "p2"}
    Jobs = {"a"}
    QPools = {1, 2, 3, 4, 5}
    Reporters = {"r1", "r2"}
    QueueCap = 2
    Threshold = 2
    Window = 1
    MaxTime = 2
    MaxOps = 4
    Casts = {"b1", "b2"}
    Batches <- MCBatches
    RelayLists <- MCRelayLists
    SelfURL = "self"
    Conns = {1, 2, 3, 4}
    NoConn = 0
    MaxFaults = 1
    Loads = {"writes", "jobs", "status", "broadcast"}
SPECIFICATION Spec
INVARIANT FailoverSound
INVARIANT StatusFollowsOperations
INVARIANT BroadcastSound
PROPERTY ImplementsOutbox
PROPERTY PushEnds
PROPERTY BroadcastEnds
CHECK_DEADLOCK FALSE
