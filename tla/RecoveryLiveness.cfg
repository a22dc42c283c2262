SPECIFICATION FairSpec
CONSTANTS
    NoClock = NoClock
    Clocks = {a}
    Peers = {a, c}
    Replicas = {a, c}
    WriteConsistency = 1
    MaxAttempts = 3
    MaxOps = 2
    MaxProposals = 6
    MaxLost = 1
    MaxLostReports = 1
    MaxRestarts = 1
    Restartable = {a}
    QueuedTail = 0
PROPERTIES UpdatesAreSettled DeadReplicasRecover
CHECK_DEADLOCK FALSE
