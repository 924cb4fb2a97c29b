SPECIFICATION FairSpec
CONSTANTS
    PollSteps = 2
    MaxRuns = 3
    MaxInits = 2
INVARIANTS
    ThreadLifetime
    NoFalseStall
    AliveIsRecent
PROPERTIES
    JoinEnds
    HangIsReported
CHECK_DEADLOCK FALSE
