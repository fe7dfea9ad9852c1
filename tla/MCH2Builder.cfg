\* The builder with the buffer and the frame table of the code.  A block
\* that opens a third frame hits BUG_ON and the kernel stops, hence no
\* deadlock check.
CONSTANTS
    CAPACITY = 3072
    FRAMES_MAX = 2
    HeaderRecs <- MCHeaderRecs
    DataSizes = {0, 2}
    MAX_ITEMS = 2
    MAX_FRAMES = 3
SPECIFICATION Spec
CHECK_DEADLOCK FALSE
INVARIANT TypeOK
INVARIANT FramesAccount
INVARIANT HeadersRoundTrip
