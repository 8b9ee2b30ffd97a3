SPECIFICATION Spec
CONSTANTS
    r1 = r1
    r2 = r2
    p1 = p1
    s = s
    Runs = {r1, r2}
    Stops = {p1}
    Names = {s}
    SessionOf <- OneSession
    None = None
    QueueCap = 1
    MaxBacklog = 0
    DriverType = "PTY"
    Env = {"db", "exit", "expire", "shutdown"}
SYMMETRY Symmetry
INVARIANTS
    Inv
    NoOrphan
    NoDoubleServe
PROPERTIES
    StopAnswerIsTrue
CHECK_DEADLOCK FALSE
