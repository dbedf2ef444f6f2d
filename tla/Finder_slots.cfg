SPECIFICATION Spec
CONSTANTS
    MaxDetected = 3
    MAX_CONTACTS = 2
INVARIANT SlotsSuffice
