SPECIFICATION Spec
CONSTANTS
    r1 = r1
    r2 = r2
    p1 = p1
    s = s
    Runs = {r1, r2}
    Stops = {p1}
    Names = {s}
    SessionOf <- OneSession
    None = None
    QueueCap = 2
    MaxBacklog = 1
    DriverType = "DOCKER"
    Env = {"slow", "teardown", "exit", "ipcStop", "redis", "giveUp"}
SYMMETRY Symmetry
PROPERTIES
    ImplementsOwnership
CHECK_DEADLOCK FALSE
