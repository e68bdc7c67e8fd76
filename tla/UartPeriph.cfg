\* Four bytes out in writes of up to two, four bytes in through a queue of two.
CONSTANTS
    MaxTx = 4
    MaxRx = 4
    MaxWrite = 2
    MaxRead = 2
    Chunk = 2
    RX_BUFFER_SIZE = 2
    NoErr = NoErr  InvalidArgsErr = InvalidArgsErr  PeripheralErr = PeripheralErr
    BusyErr = BusyErr
SPECIFICATION FairSpec
INVARIANTS TypeOK NoHoles
PROPERTIES ImplementsWrites BusyMeansSending BusyEnds
