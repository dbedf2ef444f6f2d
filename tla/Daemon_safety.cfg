SPECIFICATION Spec
CONSTANTS
    Indices = {0, 1}
    MaxFrame = 2
    MaxWriteErrors = 1
INVARIANT TypeOK
INVARIANT NoGhostWithoutErrors
INVARIANT PointerFollowsTouch
INVARIANT OneFingerTool
INVARIANT ActiveStylusSilencesTouch
PROPERTY ToolSwitchLifts
INVARIANT PalmLiftsEverything
PROPERTY RepeatedFrameSelects
CHECK_DEADLOCK FALSE
