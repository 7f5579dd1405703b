SPECIFICATION Spec
CONSTANTS
    RX_FIFO_BEATS = 3
    PKT_FIFO_BEATS = 3
    HDR_FIFO_BEATS = 1
    LEN_PIPE = 1
    MaxFrames = 5
    MaxResets = 1
INVARIANTS Aligned DispatchedWhole
PROPERTIES NoWedge ImplementsQueue
CHECK_DEADLOCK FALSE
