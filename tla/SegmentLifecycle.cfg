SPECIFICATION Spec
CONSTANTS
    Points = {p1}
    Jobs = {j1, j2}
    Sessions = {x1}
    MaxOp = 3
    MaxId = 5
    Thresholds = {1, 9}
    Others = 1
SYMMETRY Symmetry
CHECK_DEADLOCK FALSE
INVARIANT LastWriteIsKept
INVARIANT OneVersionUnlessDeferred
INVARIANT PinnedGenerationIsFixed
INVARIANT ProxiesAreOwned
INVARIANT AlwaysAppendable
PROPERTY ReadsNeverGoBack
