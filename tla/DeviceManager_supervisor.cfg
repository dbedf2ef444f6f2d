SPECIFICATION Spec
CONSTANTS
    d1 = d1
    d2 = d2
    p1 = p1
    p2 = p2
    p3 = p3
    Devices = {d1, d2}
    Ipts = {d1, d2}
    Pids = {p1, p2}
    NoDevice = NoDevice
    NoPid = NoPid
    IPTSD_MAX_INSTANCES = 1
    KillRetries = 1
    ReloadOnResume = {TRUE, FALSE}
    EarlySigterm = FALSE
    MaxHotplug = 1
    MaxCrashes = 0
    MaxFailedStarts = 0
    MaxFaults = 1
    MaxSuspends = 1
PROPERTY ImplementsSupervisor
CHECK_DEADLOCK FALSE
