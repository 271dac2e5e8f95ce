SPECIFICATION FairSpec
CONSTANTS
    Loads <- MCLoads
    MaxRate = 80
INVARIANTS FrameWithinModel DelayBounded
PROPERTIES FlushEnds RateRecovers
CHECK_DEADLOCK FALSE
