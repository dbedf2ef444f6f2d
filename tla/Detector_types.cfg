SPECIFICATION Spec
CONSTANTS
    MODE = MODE
    AVERAGE = AVERAGE
    CONSTANT_VALUE = CONSTANT_VALUE
    Garbage = 0
    ForceAccessChecks = TRUE
    Configs <- SomeConfigs
    NEUTRAL_BACKOFF = 2
    KERNEL_BLUR <- Blur
    ACTIVATION = 150
    DEACTIVATION = 100
    ITERATIONS = 5
    Backgrounds <- SomeBackgrounds
    Heatmaps <- SomeHeatmaps
    MaxFrames = 2
INVARIANT TypeOK
INVARIANT MergedApart
CHECK_DEADLOCK FALSE
