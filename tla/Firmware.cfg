\* Short functions: both other interfaces together end before LOCK_TIMEOUT.
CONSTANTS
    port = port  bus = bus
    a1 = a1  a2 = a2  u1 = u1  u2 = u2  u3 = u3
    Iface = {u1, u2, u3}
    Dev = {port, bus}
    NUM_PERIPHERALS = 3
    NumIdx <- MCNumIdx
    NumFns <- MCNumFns
    GetDev <- MCGetDev
    Addr = {a1, a2}
    NULL = NULL
    Request <- MCRequest
    NoErr = NoErr  NotSupportedErr = NotSupportedErr  BusyErr = BusyErr
    FnRetcode = {NoErr}
    MaxLen = 0
    LOCK_TIMEOUT = 3
    FnTime = 1
    None = None
SPECIFICATION FairSystem
CHECK_DEADLOCK FALSE
INVARIANTS TypeOK LocksMatchDevices StartedOnlyWhenReady LocksProtectDevices NoBusyWhenFast
PROPERTIES ImplementsDispatch EveryRequestAnswered
