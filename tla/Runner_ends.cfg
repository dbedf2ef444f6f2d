SPECIFICATION FairRunnerSpec
CONSTANTS
    MaxErrors = 3
    MaxSignals = 2
    MaxFaults = 1
INVARIANT RunnerTypeOK
INVARIANT NeverLeftInMultitouch
PROPERTY EndsWithDevice
PROPERTY StopHonouredWhenBusy
CHECK_DEADLOCK FALSE
