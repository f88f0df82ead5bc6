\* stop() between run()'s guard and running_ = true.
SPECIFICATION Spec
CONSTANTS
    Fds = {f1, f2, f3}
    NoFd = NoFd
    Ports = {80}
    Stoppers = {s1, s2}
    ForeignLimit = 0
SYMMETRY Symmetry
INVARIANT
    NotRunningAfterStop
