SPECIFICATION Spec
CONSTANTS
    p1 = p1
    Ports = {p1}
    Listeners = {l1, l2}
    Senders = {s1}
    None = None
    PortOf <- MCPortOf
    Deletable = {l2}
    TotalCells = 2
    Nodes = {n1, n2}
    SegmentSize = 3
    Sizes <- MCSizes
    MaxMessages = 3
INVARIANTS
    TypeOK
    CellsAreAccountedFor
    CountsTellUsers
    HeldBuffersAreIntact
    ValidDescriptorsAreCurrent
    NoLostWakeup
PROPERTIES
    PortIsBroadcastQueue
    QueueIsDrained
    DeletionEnds
CHECK_DEADLOCK FALSE
