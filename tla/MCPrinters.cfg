CONSTANTS
    p1 = p1
    p2 = p2
    r1 = r1
    r2 = r2
    Odd = Odd
    Absent = Absent
    MarkerPrinter = p1
    Names <- MCNames
    Readers <- MCReaders
    Conditions <- MCConditions
    Levels <- MCLevels
    Positions = 2
    MaxEvents = 3
SPECIFICATION PrinterSpec
CHECK_DEADLOCK FALSE
INVARIANTS
    PictureIsStored
    MarkersKept
PROPERTIES
    Synchronised
