SPECIFICATION Spec
CONSTANTS
    i1 = i1
    n1 = n1
    n2 = n2
    v1 = v1
    v2 = v2
    c1 = c1
    r1 = r1
    r2 = r2
    Ids = {i1}
    Names = {n1, n2}
    Commands = {v1, v2}
    Clients = {c1}
    Runs = {r1, r2}
    Manager = Manager
    None = None
    Isolation = "immediate"
    Ops = {"define", "rename"}
SYMMETRY Symmetry
INVARIANTS
    OneRunnerPerSession
CHECK_DEADLOCK FALSE
