SPECIFICATION LockSpec
CONSTANTS
    Procs = {"a", "b", "c"}
    Host <- MCHost
    KeepBootRuns = {}
    LastTarget = 2
    NoProc = "nobody"
    Garbled = "garbled"
    MaxReuse = 0
INVARIANT OneBuilder
CHECK_DEADLOCK FALSE
