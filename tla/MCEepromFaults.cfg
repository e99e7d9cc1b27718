CONSTANTS
    Slots = 3
    Addr <- MCAddr
    VirtAddVarTab <- MCTable
    NB_OF_VAR = 3
    Data <- MCTwoValues
    Blank = 65535
    Version = 3
    OldVersion = 0
    StackGarbage <- MCGarbage
    NotFound = NotFound
    NO_VALID_PAGE = NO_VALID_PAGE
    FaultsPossible = TRUE
    MaxPowerLosses = 1
SPECIFICATION FairSpec
INVARIANTS
    OneValidPage
    AckedReadable
PROPERTIES
    DriverReturns
    ContentChangesByWrite
