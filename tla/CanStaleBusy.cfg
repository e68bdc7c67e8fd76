\* The flag of a frame that is gone: see BusyMeansQueued.
CONSTANTS
    f1 = f1  f2 = f2  any = any  std = std  ext = ext
    MaxFrames = 3
    Mailboxes = 2
    CAN_BUFFER_SIZE = 2
    FilterIds = {f1, f2}
    Ranges = {any, std, ext}
    StdRanges = {any, std}
    AnyRange = any
    NoErr = NoErr  InvalidArgsErr = InvalidArgsErr  PeripheralErr = PeripheralErr
    BusyErr = BusyErr  NoSpace = NoSpace
SPECIFICATION Spec
SYMMETRY FilterSymmetry
INVARIANT BusyMeansQueued
