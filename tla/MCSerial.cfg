SPECIFICATION FairSpec
CONSTANTS
    Writer = {a}
    Radio = radio
    FrameLen = 2
    Frames = 2
    InSize = 1
    OutSize = 2
    Bytes = 2
INVARIANTS
    TypeOK
    TransmitArmed
    NoLostWakeup
    PerWriterOrder
    NoPhantomByte
    
    RadioAwake
PROPERTIES
    
    
    EverythingSent
\* the system rests once all frames are sent and all bytes fetched
CHECK_DEADLOCK FALSE
