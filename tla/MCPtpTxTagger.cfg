SPECIFICATION Spec
CONSTANTS
    TABLE = 2
    TAGS = 4
    PTP_FIFO_DEPTH = 2
    MaxFrames = 5
    MaxResets = 1
INVARIANTS Accounted MatchIsOwn EntryKept RecordPrecedesFrame
PROPERTIES FramesPass
