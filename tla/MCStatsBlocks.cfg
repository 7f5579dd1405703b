SPECIFICATION Spec
CONSTANTS
    WINDOW = 3
    PRIME = 2
    PKTS_MOD = 8
    FrameBytes = {1, 3}
    MaxBytes = 6
    MaxRestarts = 1
    MaxSeq = 2
    StatusBits = {"RX_FIFO_OVF", "RX_PACK_OVF"}
    LatBits = {"STALE"}
    CNT_MOD = 4
    CDC_DEPTH = 1
    MaxEvents = 2
    MaxClears = 1
    LAT_BANKS = 2
    NBINS = 2
    MaxSamples = 2
    MaxCommands = 3
    Counters = {"RX_BYTES", "TX_BYTES"}
    RateWords = {"RX_RATE_BYTES", "TX_RATE_PKTS"}
    HALF = 2
    MaxCount = 3
    MaxWindows = 2
    MaxReads = 3
    None = None
INVARIANTS WindowsExact StickyExact SnapshotExact ReadsExact
PROPERTIES ClearSeparates BusyEnds
CHECK_DEADLOCK FALSE
