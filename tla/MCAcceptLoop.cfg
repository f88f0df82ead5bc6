\* Two threads stop while the rest of the process opens sockets.
SPECIFICATION FairSpec
CONSTANTS
    Fds = {f1, f2, f3}
    NoFd = NoFd
    Ports = {80}
    Stoppers = {s1, s2}
    ForeignLimit = 2
INVARIANTS
    NoForeignClose
    NoLeak
    PortTellsListening
PROPERTY
    StopWakesRun
