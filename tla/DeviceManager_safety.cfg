SPECIFICATION Spec
CONSTANTS
    d1 = d1
    d2 = d2
    p1 = p1
    p2 = p2
    p3 = p3
    Devices = {d1, d2}
    Ipts = {d1, d2}
    Pids = {p1, p2, p3}
    NoDevice = NoDevice
    NoPid = NoPid
    IPTSD_MAX_INSTANCES = 2
    KillRetries = 1
    ReloadOnResume = {TRUE}
    EarlySigterm = TRUE
    MaxHotplug = 1
    MaxCrashes = 1
    MaxFailedStarts = 0
    MaxFaults = 0
    MaxSuspends = 1
INVARIANT TypeOK
INVARIANT SlotsOwnTheirChild
INVARIANT EveryChildHasASlot
INVARIANT OneProcessPerDevice
INVARIANT NoOrphans
INVARIANT NoZombieForgotten
INVARIANT NoDeviceForgotten
SYMMETRY Symmetry
CHECK_DEADLOCK FALSE
