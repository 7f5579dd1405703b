SPECIFICATION Spec
CONSTANTS
    KEEP_W = 3
    STRIP = 2
    ECHO_MARGIN = 1
    RX_PATH_FIFO_BEATS = 4
    ECHO_META_DEPTH = 2
    Frames <- MCFrames
INVARIANTS PayloadExact EchoReady
PROPERTIES NeverBlocked
