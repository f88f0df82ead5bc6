\* Every way to cut requests around the caps.
SPECIFICATION FairSpec
CONSTANTS
    MaxHeader = 6
    MaxBody = 2
    Chunk = 2
    HeadSizes <- MCHeadSizes
    FieldLists <- MCFieldLists
    SentSizes <- MCSentSizes
    Malformed = Malformed
CHECK_DEADLOCK FALSE
INVARIANTS
    BufferBound
    ParsedWhole
    NoFalse431
PROPERTY
    WholeRequestDecided
