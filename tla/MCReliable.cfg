SPECIFICATION ProtocolSpec
CONSTANTS
    writer = writer
    reader = reader
    ThisWriter = writer
    ThisReader = reader
    Readers = {reader}
    HistorySize = 2
    MaxSamples = 2
    AckWindow = 2
    SendMayTimeOut = FALSE
    MaxSeq = 3
    MaxHeartbeats = 2
    MaxAckNacks = 2
INVARIANTS
    NothingSkipped
    WriterNeverStalls
PROPERTIES
    DiscardedIsDelivered
    ImplementsChannel
CHECK_DEADLOCK FALSE
