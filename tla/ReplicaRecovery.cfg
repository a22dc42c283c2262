SPECIFICATION Spec
CONSTANTS
    NoClock = NoClock
    Clocks = {b}
    Peers = {a, b, c}
    Replicas = {a, c}
    WriteConsistency = 1
    MaxAttempts = 3
    MaxOps = 3
    MaxProposals = 5
    MaxLost = 1
    MaxLostReports = 0
    MaxRestarts = 1
    Restartable = {a, c}
    QueuedTail = 1
INVARIANTS
    ActiveReplicasAreComplete
    RecoveryPointsAreBacked
SYMMETRY Symmetry
CHECK_DEADLOCK FALSE
