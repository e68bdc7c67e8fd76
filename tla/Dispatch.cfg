\* Safety: functions may outlast LOCK_TIMEOUT, so every path is taken.
CONSTANTS
    i1 = i1  i2 = i2  i3 = i3  port = port  bus = bus
    Iface = {i1, i2, i3}
    Dev = {port, bus}
    NUM_PERIPHERALS = 2
    NumIdx <- MCNumIdx
    NumFns <- MCNumFns
    GetDev <- MCGetDev
    Request <- MCRequest
    NoErr = NoErr  NotSupportedErr = NotSupportedErr  BusyErr = BusyErr
    FnRetcode = {NoErr, BusyErr}
    MaxLen = 1
    LOCK_TIMEOUT = 1
    FnTime = 2
    NoDev = NoDev  None = None
SPECIFICATION Spec
SYMMETRY MCInterfaces
INVARIANTS TypeOK DeviceExclusion LockAccounted
PROPERTY ImplementsService
