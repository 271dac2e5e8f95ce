SPECIFICATION FairSpec
CONSTANTS
    Procs = {p1, p2}
    Uses = 1
    MaxKeys = 2
    MaxRuns = 4
INVARIANTS RegisteredKeyKept ProfileMeansRegistered StrandedHasCause
PROPERTIES CommandsEnd StatusConverges
CHECK_DEADLOCK FALSE
