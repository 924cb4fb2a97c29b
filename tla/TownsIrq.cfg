SPECIFICATION FairSpec
CONSTANTS
    Keys <- TwoKeys
    Channels = {0}
    MaxEvents = 3
INVARIANTS
    LinesAgree
    NoneLost
    NoSpurious
    ShownIsWhole
PROPERTIES
    SoundServed
CHECK_DEADLOCK FALSE
