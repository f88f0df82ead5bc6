\* Two requests, streams capped at one, through every chain.
SPECIFICATION ChainSpec
CONSTANTS
    Conns = {c1, c2}
    Threads = {t1, t2}
    ConfiguredStreams = 0
    None = None
    Chains <- MCChains
SYMMETRY Symmetry
INVARIANTS
    RecoveryShields
    CorsKept
    LoggedAsAnswered
PROPERTY
    ImplementsServer
