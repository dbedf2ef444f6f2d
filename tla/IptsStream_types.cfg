SPECIFICATION Spec
CONSTANTS
    Garbage <- AnyValue
    Messages <- Sent
    WrongSizes = {0, 3, 4, 11, 20, 65535}
INVARIANT TypeOK
CHECK_DEADLOCK FALSE
