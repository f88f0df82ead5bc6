\* Safety: three threads race for the slots of a cap of two.
SPECIFICATION Spec
CONSTANTS
    Conns = {c1, c2, c3}
    Threads = {t1, t2, t3}
    ConfiguredStreams = 2
    None = None
SYMMETRY Symmetry
INVARIANTS
    SlotsBalance
    StreamCap
    OneHead
    OneOwner
    AnsweredBeforeClosed
    TasksHaveMembers
