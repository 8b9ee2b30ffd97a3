SPECIFICATION FairSpec
CONSTANTS
    r1 = r1
    r2 = r2
    p1 = p1
    s = s
    Runs = {r1, r2}
    Stops = {p1}
    Names = {s}
    SessionOf <- OneSession
    None = None
    QueueCap = 10
    MaxBacklog = 0
    DriverType = "PTY"
    Env = {"exit", "shutdown"}
PROPERTIES
    CallsReturn
    EndedCommandIsUnloaded
    ShutdownEnds
CHECK_DEADLOCK FALSE
