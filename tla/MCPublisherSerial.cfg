\* Endpoints come and go but no participant is removed: every discovery callback runs
\* under the PDP mutex.
CONSTANTS
    Readers = {r1, r2, r3}
    Edp = edp
    Droppers = {}
    CounterModulus = 2
    CountBound = 3
SPECIFICATION FairSpec
INVARIANTS
    TypeOK
    WritesOnlyMatched
    NoLostMatchWakeup
    MatchedTellsDiscovery
PROPERTIES
    PublishesWhileMatched
