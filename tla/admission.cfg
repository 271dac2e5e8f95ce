SPECIFICATION FairSpec
CONSTANTS
    c1 = c1
    c2 = c2
    Conns = {c1, c2}
    Scenes <- MCScenes
    Times <- MCTimes
    ProbeCap = 1
INVARIANTS ToldMeansAdmitted ClockTolerance TelemetryTrue
PROPERTY HandshakeEnds
CHECK_DEADLOCK FALSE
