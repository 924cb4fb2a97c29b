SPECIFICATION FairSpec
CONSTANTS
    mA = mA
    mB = mB
    d1 = d1
    d2 = d2
    Models = {mA, mB}
    Devices = {d1}
    Contents = {c1}
    Mem = {v1, v2}
    DefaultOptions <- MCDefaultOptions
    NoMachine = NoMachine
    NoState = NoState
    GuardBoot = 2
    GuardPostLoad = 1
    MaxSlicesBoot = 5
    MaxSlicesLive = 3
    CheckPeriod = 2
    MaxBoots = 2
INVARIANTS
    RuntimeAgrees
    StalePictureEnds
    LoopStopsInTime
PROPERTIES
    SavesAreSettled
    ImplementsContract
    GuardExpires
