SPECIFICATION MCSpec
CONSTANTS
    Window = 40
    MAX_LENGTH = 25
    Fps = 2
    Tracks <- MCTracks
    MinRate = 8
    MaxRate = 36
    Unit = 25
    buffer_size = 120
    Opens = {2}
    Lags = {35, 60}
    Outages = {4}
    Lengths = {401, 1560}
    MaxTracks = 2
    MaxLost = 1
    Fd = {3, 4, 5}
    NoFd = none
    Attempts = {0, 1, 3}
    N = 3
INVARIANTS
    StreamTypeOK
    NothingSkipped
    Paced
PROPERTIES
    ConnectReturns
    ImplementsConnection
    ImplementsChannel
CHECK_DEADLOCK FALSE
