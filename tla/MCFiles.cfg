CONSTANTS
    u1 = u1
    u2 = u2
    d1 = d1
    d2 = d2
    Cleaner = Cleaner
    UserDelete = UserDelete
    Uploads <- MCUploads
    Deletions <- MCDeletions
    MaxFaults = 1
SPECIFICATION FileSpec
CHECK_DEADLOCK FALSE
INVARIANTS
    RowHasItsFile
    OrphansWereCutShort
PROPERTIES
    OldRowsGo
