CONSTANTS
    None = None
    s1 = s1
    s2 = s2
    Senders <- TwoSenders
    PacketsPerSender = 2
    PendingPacketQueueSize = 2
SPECIFICATION Spec
INVARIANTS
    TypeOK
    NoLostWakeup
    NothingBufferedAsleep
PROPERTIES
    SendsInOrder
    AcceptedIsWritten
    WriterStops
CHECK_DEADLOCK FALSE
