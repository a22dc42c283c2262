SPECIFICATION Spec
CONSTANTS
    Points = {p1}
    Jobs = {j1}
    Sessions = {}
    MaxOp = 4
    MaxId = 6
    Thresholds = {1}
    Others = 1
SYMMETRY Symmetry
CHECK_DEADLOCK FALSE
INVARIANT OneAuthoritativeValue
