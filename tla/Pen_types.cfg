SPECIFICATION Spec
CONSTANTS
    None = None
    NaN = NaN
    MinMag = 1
    MinAmp = 2
    MaxGroups <- TwoOrThree
    Kinds <- Some
    Uses <- SomeUses
    Phases <- InPhaseOrNot
    Rows <- SomeRows
    PressedRows <- Pressed
    HoverRows <- Hover
INVARIANT TypeOK
CHECK_DEADLOCK FALSE
