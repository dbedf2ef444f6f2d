SPECIFICATION Spec
CONSTANTS
    d1 = d1
    d2 = d2
    p1 = p1
    p2 = p2
    p3 = p3
    Devices = {d1}
    Ipts = {d1}
    Pids = {p1}
    NoDevice = NoDevice
    NoPid = NoPid
    IPTSD_MAX_INSTANCES = 1
    KillRetries = 1
    ReloadOnResume = {TRUE}
    EarlySigterm = FALSE
    MaxHotplug = 0
    MaxCrashes = 0
    MaxFailedStarts = 0
    MaxFaults = 0
    MaxSuspends = 2
INVARIANT EveryResumeHandled
CHECK_DEADLOCK FALSE
