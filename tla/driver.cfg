SPECIFICATION FairSpec
CONSTANTS
    r = r
    leader = leader
    m1 = m1
    m2 = m2
    Run = r
    Leader = leader
    Members = {m1, m2}
    Immune = {m1}
    Env = {"exit", "startup", "protected", "slow", "cancel"}
INVARIANTS
    StrangersAreSpared
    GroupIsTornDown
PROPERTIES
    StopReturns
    ImplementsDriver
CHECK_DEADLOCK FALSE
