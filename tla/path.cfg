SPECIFICATION Spec
CONSTANTS
    Nodes = 3
    MaxBytes = 1
    Cap = 1
    MaxBreaks = 1
INVARIANTS OkMeansConnected DoneMeansClosed TruncationHasCause RestsOnlyWhenEnded
PROPERTY PathImplementsByteStream
CHECK_DEADLOCK FALSE
