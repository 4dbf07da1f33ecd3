CONSTANTS
    Packets <- SomePackets
    MaxPackets = 2
    Radix = 2
    MaxPacketLength = 3
    WriteBufSize = 8
    ReadBufSize = 4
    BatchWriteLimit = 3
SPECIFICATION Spec
INVARIANTS
    TypeOK
PROPERTIES
    ReadsWhatWasSent
    AllArrives
CHECK_DEADLOCK FALSE
