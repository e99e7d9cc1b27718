SPECIFICATION FairSpec
CONSTANTS
    RingSize = 3
    ParamCount = 2
    Value = {0, 1}
    Names = 2
    MaxRecords = 7
    MaxSets = 1
    MaxErrors = 1
INVARIANTS
    TypeOK
    
    
PROPERTIES
    RequestServed
\* the system rests once the records and parameters are used up
CHECK_DEADLOCK FALSE
