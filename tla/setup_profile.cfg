SPECIFICATION Spec
CONSTANTS
    Procs = {p1, p2}
    Uses = 1
    MaxKeys = 2
    MaxRuns = 4
INVARIANT ImportedProfileLoads
CHECK_DEADLOCK FALSE
