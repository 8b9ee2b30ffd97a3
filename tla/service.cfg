SPECIFICATION FairSpec
CONSTANTS
    main = main
    o1 = o1
    q1 = q1
    q2 = q2
    Main = main
    Others = {o1}
    Starts = {q1}
    Streams = {q2}
    Env = {"db", "listen", "forceQuit", "slow", "teardown"}
INVARIANTS
    StopIsFinal
    CleanExit
    SendsNeverBlock
PROPERTIES
    StoppedIsTerminal
    StopEndsInExit
CHECK_DEADLOCK FALSE
