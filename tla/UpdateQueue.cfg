SPECIFICATION FairSpec
CONSTANTS
    c1 = c1
    c2 = c2
    NoClient = NoClient
    p = p
    q = q
    Clients <- MCClients
    Points <- MCPoints
    Targets <- MCTargets
    QueueSize = 2
    RamBuffer = 1
    Interval = 1
    Found <- MCFound
    Faults = {"crash", "power", "failure", "truncate"}
    MaxFaults = 1
INVARIANTS
    QueueInLogOrder
    CompletedIsKept
    EveryUpdateIsAccountedFor
    FailedIsRetained
PROPERTIES
    LoadEnds
    AnswersCome
CHECK_DEADLOCK FALSE
