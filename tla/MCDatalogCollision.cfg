SPECIFICATION Spec
CONSTANTS
    RingSize = 2
    ParamCount = 1
    Value = {0, 1}
    Names = 1
    MaxRecords = 2
    MaxSets = 1
    MaxErrors = 1
INVARIANT
    NobodyForgotten
CHECK_DEADLOCK FALSE
