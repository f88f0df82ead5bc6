\* Two threads serve one file under two paths while it is rewritten.
SPECIFICATION Spec
CONSTANTS
    Threads = {t1, t2}
    k1 = k1
    k2 = k2
    up = up
    file = file
    Outside = Outside
    Keys <- MCKeys
    Files = {file}
    Target <- MCTarget
    Capacity = 1
    Blocks = 2
    Versions = 2
SYMMETRY Symmetry
INVARIANTS
    TypeOK
    ReadsWhole
    StaysFresh
