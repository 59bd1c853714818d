SPECIFICATION MCSpec
CONSTANTS
    Pids = {p1, p2, p3}
    NoFile = NoFile
    Empty = Empty
    MaxCrashes = 1
    Kids = {k1, k2, k3}
    QueueMax = 2
    Window = 30
    MAX_LENGTH = 20
    Samples = 4
    Frequency = 9
    Rates = {21, 29, 32, 48}
    Requests <- MCRequests
    Media <- MCMedia
    Config <- MCConfig
    BUFFER_SIZE = 16
    TOKEN_SIZE = 2
INVARIANTS TypeOK LeavesNothing NamesADaemon QueueIsDrained BodyIsPromised PreviewOnFrame
PROPERTY Reaped
CHECK_DEADLOCK FALSE
