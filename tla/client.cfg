SPECIFICATION FairSpec
CONSTANTS
    Openers = {o1, o2}
    Configs <- MCConfigs
    BaseDelay = 8
    MaxDelay = 14
    MulNum = 3
    MulDen = 2
    MaxOutages = 2
    AttemptCap = 3
INVARIANTS OneLiveSession GivesUpAfterRetries BackoffExponential NoStreamLeak
PROPERTIES WaitersServed RecoversWithPath CancelStopsRun
CHECK_DEADLOCK FALSE
