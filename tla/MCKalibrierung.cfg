SPECIFICATION Spec
CONSTANTS
    Bipolar = {"roll"}
    Unipolar = {"schub"}
    Width = {1, 2}
    Table <- MCTable
    NotFound = NotFound
    MaxStarts = 2
    MaxPowerLosses = 1
INVARIANTS
    TypeOK
    
    FlagCommits
    
\* a calibration may be off for good, with all that is bounded used up
CHECK_DEADLOCK FALSE
