\* As Lin.cfg: what lin_status reports, against its description.
CONSTANTS
    Ids = {x1, x2}
    x1 = x1  x2 = x2
    MaxWrites = 2
    LIN_BUFFER_SIZE = 2
    FilterArgs = {auto, classic}
    auto = auto  classic = classic
    DefaultFilter = auto
    NoErr = NoErr  InvalidArgsErr = InvalidArgsErr  PeripheralErr = PeripheralErr
    TimeoutErr = TimeoutErr  NoId = NoId  NoFrame = NoFrame  NoTransfer = NoTransfer
SPECIFICATION Spec
PROPERTY StatusOfRecentSend
