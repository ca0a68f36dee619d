SPECIFICATION Spec
CONSTANTS
    Writers = {w1, w2}
    ThisReader = reader
    MaxSamples = 2
    MaxSeq = 3
    MaxHeartbeats = 2
    MaxAckNacks = 2
    AckWindow = 2
SYMMETRY WriterSymmetry
CONSTRAINT FewOfMany
INVARIANTS
    TypeOK
    MarksAgree
    SettledIsAccounted
    AcksNeverRegress
    TakenInOrder
    FullHistoryCanBeTaken
    UnreadIsAvailable
CHECK_DEADLOCK FALSE
