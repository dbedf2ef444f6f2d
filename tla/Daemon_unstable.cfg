SPECIFICATION Spec
CONSTANTS
    Indices = {0, 1}
    MaxFrame = 2
    MaxWriteErrors = 0
PROPERTY UnstableIsIgnored
CHECK_DEADLOCK FALSE
