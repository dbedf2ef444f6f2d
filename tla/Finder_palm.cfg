SPECIFICATION Spec
CONSTANTS
    MaxDetected = 1
    MAX_CONTACTS = 4
PROPERTY PalmStaysInvalid
