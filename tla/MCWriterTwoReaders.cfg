SPECIFICATION Spec
CONSTANTS
    r1 = r1
    r2 = r2
    writer = writer
    Readers = {r1, r2}
    ThisWriter = writer
    HistorySize = 2
    MaxSeq = 3
    MaxHeartbeats = 1000
    MaxAckNacks = 1
    SendMayTimeOut = TRUE
VIEW SilentView
SYMMETRY ReaderSymmetry
INVARIANTS
    TypeOK
    ChangesMatchHistory
PROPERTY LeavesAcknowledged
CHECK_DEADLOCK FALSE
