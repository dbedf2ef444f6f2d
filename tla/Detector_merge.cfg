SPECIFICATION Spec
CONSTANTS
    MODE = MODE
    AVERAGE = AVERAGE
    CONSTANT_VALUE = CONSTANT_VALUE
    Garbage = 0
    ForceAccessChecks = TRUE
    Configs <- NoSuppression
    NEUTRAL_BACKOFF = 2
    KERNEL_BLUR <- Blur
    ACTIVATION = 300
    DEACTIVATION = 200
    ITERATIONS = 5
    Backgrounds <- SomeBackgrounds
    Heatmaps <- OnlyStripes
    MaxFrames = 1
INVARIANT NoContactLost
CHECK_DEADLOCK FALSE
