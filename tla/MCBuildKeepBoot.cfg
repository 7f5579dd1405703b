SPECIFICATION Spec
CONSTANTS
    Designs <- MCDesigns
    Cores <- MCCores
    Contents = {"as_checked_out", "edited"}
    CheckedOut = "as_checked_out"
    Absent = "absent"
    MaxXsa = 2
    MaxRuns = 3
    MaxMeddles = 2
    MaxCuts = 1

PROPERTY KeepsYoctoTree
CHECK_DEADLOCK FALSE
