SPECIFICATION Spec
CONSTANTS
    NoClock = NoClock
    Clocks = {b}
    Peers = {a, b, c}
    Replicas = {a, c}
    WriteConsistency = 1
    MaxAttempts = 3
    MaxOps = 3
    MaxProposals = 5
    MaxLost = 2
    MaxLostReports = 0
    MaxRestarts = 0
    Restartable = {c}
    QueuedTail = 1
INVARIANT ClaimedIsHeld
CHECK_DEADLOCK FALSE
