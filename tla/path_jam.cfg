SPECIFICATION Spec
CONSTANTS
    Nodes = 2
    MaxBytes = 3
    Cap = 1
    MaxBreaks = 0
INVARIANT ReturnsWhenClosed
CHECK_DEADLOCK FALSE
