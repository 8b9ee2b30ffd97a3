SPECIFICATION Spec
CONSTANTS
    r1 = r1
    r2 = r2
    p1 = p1
    s = s
    Runs = {r1, r2}
    Stops = {p1}
    Names = {s}
    SessionOf <- OneSession
    None = None
    QueueCap = 4
    MaxBacklog = 0
    DriverType = "PTY"
    Env = {"exit"}
SYMMETRY Symmetry
PROPERTIES
    ReportsStopTheirSender
CHECK_DEADLOCK FALSE
