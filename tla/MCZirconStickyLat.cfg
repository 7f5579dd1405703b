SPECIFICATION Spec
CONSTANTS
    StatusBits = {"RX_FIFO_OVF"}
    LatBits = {"STALE", "LOST"}
    CNT_MOD = 4
    CDC_DEPTH = 1
    MaxEvents = 2
    MaxClears = 1
INVARIANTS LatNotLost
