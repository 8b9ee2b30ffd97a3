SPECIFICATION Spec
CONSTANTS
    r1 = r1
    r2 = r2
    p1 = p1
    s = s
    Runs = {r1, r2}
    Stops = {p1}
    Names = {s}
    SessionOf <- OneSession
    None = None
    QueueCap = 2
    MaxBacklog = 0
    DriverType = "DOCKER"
    Env = {"shutdown"}
SYMMETRY Symmetry
INVARIANTS
    NoOrphan
CHECK_DEADLOCK FALSE
