SPECIFICATION Spec
CONSTANTS
    MaxDetected = 2
    MAX_CONTACTS = 16
INVARIANT FramesAreAsAssumed
PROPERTY SlotsAreFingers
PROPERTY PalmsAreHidden
CHECK_DEADLOCK FALSE
