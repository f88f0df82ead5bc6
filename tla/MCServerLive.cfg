\* Liveness and refinement: two threads, the default cap, two clients.
SPECIFICATION FairSpec
CONSTANTS
    Conns = {c1, c2}
    Threads = {t1, t2}
    ConfiguredStreams = 0
    None = None
PROPERTIES
    ImplementsSlots
    
    DeadStreamsEnd
    TeardownEnds
