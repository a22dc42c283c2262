SPECIFICATION Spec
CONSTANTS
    Points = {p1}
    Layouts <- Indexed
    Seats <- Together
    MaxOp = 3
    MaxId = 3
    MaxCrashes = 1
    MaxEvents = 4
INVARIANT MovedPointStaysOnDisk
CHECK_DEADLOCK FALSE
