\* Signals on any thread at any time, and notifications of up to two samples.
CONSTANTS
    MaxBatch = 2
    CounterModulus = 3
SPECIFICATION PersistentUserSpec
INVARIANTS
    DrainedBetweenCallbacks
    AppOutlivesItsThreads
PROPERTIES
    StopEndsProcess
CHECK_DEADLOCK FALSE
