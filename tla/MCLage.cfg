SPECIFICATION FairSpec
CONSTANTS
    PacketSize = 3
    FifoSize = 11
INVARIANTS
    TypeOK
    NoPacketForgotten
    MisalignedIsReported
PROPERTIES
    Resynchronises
