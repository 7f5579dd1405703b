SPECIFICATION LockSpec
CONSTANTS
    Procs = {"a", "b", "c"}
    Host <- MCHost
    KeepBootRuns = {"b"}
    LastTarget = 2
    NoProc = "nobody"
    Garbled = "garbled"
    MaxReuse = 1
INVARIANTS OneWhenApart NoOrphan NothingLeftOut
CHECK_DEADLOCK FALSE
