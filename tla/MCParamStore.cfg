SPECIFICATION Spec
CONSTANTS
    ParamCount = 2
    Half <- MCHalf
    Default <- MCDefault
    NotFound = NotFound
    NoRequest = NoRequest
    MaxBreaks = 2
    MaxSets = 2
INVARIANTS
    TypeOK
    SavedIsKept
    OldThenNew
    OneMixedPerBreak
