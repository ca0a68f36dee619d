\* Two messages are enough for the second one to recover the buffer of the first.
SPECIFICATION Spec
CONSTANTS
    p1 = p1
    Ports = {p1}
    Listeners = {l1, l2}
    Senders = {s1}
    None = None
    PortOf <- MCPortOf
    Deletable = {l2}
    TotalCells = 2
    Nodes = {n1, n2}
    SegmentSize = 3
    Sizes <- MCSizes
    MaxMessages = 2
INVARIANT ProcessedBuffersAreIntact
CHECK_DEADLOCK FALSE
