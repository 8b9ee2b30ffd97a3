SPECIFICATION Spec
CONSTANTS
    r1 = r1
    r2 = r2
    p1 = p1
    s = s
    Runs = {r1, r2}
    Stops = {p1}
    Names = {s}
    SessionOf <- OneSession
    None = None
    QueueCap = 2
    MaxBacklog = 1
    DriverType = "PTY"
    Env = {"exit", "shutdown", "crash", "ipcStop", "startup"}
SYMMETRY Symmetry
INVARIANTS
    TypeOK
    NoDoubleAttach
    ReadyIsBacked
    NoOrphan
    ShutdownIsClean
PROPERTIES
    StopAnswerIsTrue
    StartAnswerIsTrue
    OldReportsAreHarmless
CHECK_DEADLOCK FALSE
