SPECIFICATION DeliverySpec
CONSTANTS
    writer = writer
    reader = reader
    ThisWriter = writer
    ThisReader = reader
    Readers = {reader}
    HistorySize = 2
    MaxSamples = 1
    AckWindow = 2
    SendMayTimeOut = FALSE
    MaxSeq = 3
    MaxHeartbeats = 40
    MaxAckNacks = 40
    MaxFaults = 1
    MaxEvents = 3
PROPERTY ImplementsFairChannel
CHECK_DEADLOCK FALSE
