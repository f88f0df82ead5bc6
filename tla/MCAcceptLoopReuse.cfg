\* The listening descriptor reused before accept() is called on it.
SPECIFICATION FairSpec
CONSTANTS
    Fds = {f1, f2, f3}
    NoFd = NoFd
    Ports = {80}
    Stoppers = {s1, s2}
    ForeignLimit = 1
PROPERTY
    StopEndsRun
