\* Two headers of 1000-byte names and values overrun the 3 KB buffer:
\* the BUG_ON after the copy fires only once the bytes are written.
CONSTANTS
    CAPACITY = 3072
    FRAMES_MAX = 2
    HeaderRecs <- MCBigHeaderRecs
    DataSizes = {0}
    MAX_ITEMS = 2
    MAX_FRAMES = 1
SPECIFICATION Spec
CHECK_DEADLOCK FALSE
INVARIANT WritesInBounds
