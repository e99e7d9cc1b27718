CONSTANTS
    Slots = 4
    Addr <- MCAddr
    VirtAddVarTab <- MCShortTable
    NB_OF_VAR = 2
    Data <- MCTwoValues
    Blank = 65535
    Version = 3
    OldVersion = 0
    StackGarbage <- MCGarbage
    NotFound = NotFound
    NO_VALID_PAGE = NO_VALID_PAGE
    FaultsPossible = FALSE
    MaxPowerLosses = 0
SPECIFICATION Spec
INVARIANT AckedReadable
