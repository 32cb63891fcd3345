SPECIFICATION Spec
CONSTANTS
    SegSize = 3
    MaxLen = 5
    Files <- FilesUpTo
    Modes = {TRUE, FALSE}
    ReadErrors = {FALSE}
INVARIANTS RoundTrip BufferFilled
PROPERTIES SameSegmentAgain
CHECK_DEADLOCK FALSE
