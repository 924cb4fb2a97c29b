SPECIFICATION Spec
CONSTANTS
    mA = mA
    mB = mB
    d1 = d1
    d2 = d2
    Models = {mA, mB}
    Devices = {d1}
    Contents = {c1}
    Mem = {v1, v2}
    DefaultOptions <- MCDefaultOptions
    NoMachine = NoMachine
    NoState = NoState
    GuardBoot = 2
    GuardPostLoad = 1
    MaxSlicesBoot = 3
    MaxSlicesLive = 2
    CheckPeriod = 2
    MaxBoots = 2
PROPERTY NvramPersisted
