\* Responses below, at and above the cap, honest and not.
SPECIFICATION FairSpec
CONSTANTS
    Request = 3
    Window = 2
    Chunk = 2
    MaxResponse = 6
    Heads = {1, 3}
    Lengths = {0, 2, 3, 7}
    Bodies = {0, 2, 3, 4, 9}
    Absent = Absent
    Malformed = Malformed
CHECK_DEADLOCK FALSE
INVARIANTS
    BufferBounded
    ReturnedWhole
    GivesUpForCause
PROPERTY
    SendReturns
