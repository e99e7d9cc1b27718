CONSTANTS
    Slots = 4
    Addr <- MCAddr
    VirtAddVarTab <- MCTable
    NB_OF_VAR = 3
    Data <- MCData
    Blank = 65535
    Version = 3
    OldVersion = 0
    StackGarbage <- MCGarbage
    NotFound = NotFound
    NO_VALID_PAGE = NO_VALID_PAGE
    FaultsPossible = FALSE
    MaxPowerLosses = 1
SPECIFICATION Spec
INVARIANTS
    TypeOK
    AckedReadable
    NothingInvented
PROPERTIES
    ImplementsStore
