SPECIFICATION FairSpec
CONSTANTS
    ONBOARD_PARAM_COUNT = 3
    Value = {v1, v2}
    Unknown = unknown
    Command <- MCAll
    MaxMessages = 3
INVARIANTS
    TypeOK
    ViewCurrent
PROPERTIES
    UndisturbedListComplete
\* the system rests once all messages are answered
CHECK_DEADLOCK FALSE
