\* One Ctrl+C may be all the user sends.
CONSTANTS
    Readers = {r1}
    Edp = edp
    Droppers = {}
    CounterModulus = 2
    CountBound = 3
SPECIFICATION FairSpec
PROPERTIES
    StopEndsRun
