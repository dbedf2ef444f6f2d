SPECIFICATION Spec
CONSTANTS
    MaxDetected = 3
    MAX_CONTACTS = 4
INVARIANT TypeOK
INVARIANT UniqueIndices
PROPERTY IdentityKept
