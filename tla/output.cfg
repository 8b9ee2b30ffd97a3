SPECIFICATION Spec
CONSTANTS
    r1 = r1
    Readers = {r1}
    Capacities = {2, 3}
    MaxRead = 2
    MaxEnd = 6
    MaxStreams = 3
    Escapes = {1, 3}
    None = None
INVARIANTS
    OutputTypeOK
    BufferAsAdvertised
    NoByteTwice
PROPERTIES
    ScrollbackIsKept
CHECK_DEADLOCK FALSE
