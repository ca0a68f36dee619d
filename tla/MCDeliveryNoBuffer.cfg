SPECIFICATION DeliverySpec
CONSTANTS
    writer = writer
    reader = reader
    ThisWriter = writer
    ThisReader = reader
    Readers = {reader}
    HistorySize = 2
    MaxSamples = 1
    AckWindow = 2
    SendMayTimeOut = TRUE
    MaxSeq = 2
    MaxHeartbeats = 40
    MaxAckNacks = 40
    MaxFaults = 0
    MaxEvents = 2
PROPERTY ImplementsFairChannel
CHECK_DEADLOCK FALSE
