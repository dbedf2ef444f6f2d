SPECIFICATION FairRunnerSpec
CONSTANTS
    MaxErrors = 3
    MaxSignals = 2
    MaxFaults = 1
PROPERTY StopHonoured
CHECK_DEADLOCK FALSE
