SPECIFICATION Spec
CONSTANTS
    Writer = {a}
    Radio = radio
    FrameLen = 2
    Frames = 1
    InSize = 2
    OutSize = 2
    Bytes = 2
INVARIANTS
    RadioNeverDeaf
\* the system rests once all frames are sent and all bytes fetched
CHECK_DEADLOCK FALSE
