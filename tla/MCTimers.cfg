SPECIFICATION Spec
CONSTANTS
    initial_acknack_ = initial
    heartbeat_response_ = response
    Events = {initial, response}
    None = None
    MaxMatches = 3
    MaxHeartbeats = 2
INVARIANTS
    TypeOK
    StartedIsScheduled
    StoppedIsUnused
    DeletedIsUnknown
PROPERTIES
    DiscoveryReturns
    InitialAckNackRuns
    HeartbeatIsAnswered
