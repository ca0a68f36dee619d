\* A user who keeps pressing Ctrl+C, with participants being removed at any time.
CONSTANTS
    Readers = {r1}
    Edp = edp
    Droppers = {d1}
    CounterModulus = 1
    CountBound = 1
SPECIFICATION PersistentUserSpec
PROPERTIES
    StopEndsRun
