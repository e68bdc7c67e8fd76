\* Two identifiers, two writes, a queue of two.
CONSTANTS
    Ids = {x1, x2}
    x1 = x1  x2 = x2
    MaxWrites = 2
    LIN_BUFFER_SIZE = 2
    FilterArgs = {auto, classic}
    auto = auto  classic = classic
    DefaultFilter = auto
    NoErr = NoErr  InvalidArgsErr = InvalidArgsErr  PeripheralErr = PeripheralErr
    TimeoutErr = TimeoutErr  NoId = NoId  NoFrame = NoFrame  NoTransfer = NoTransfer
SPECIFICATION FairSpec
INVARIANTS TypeOK CommanderStartsClean WaitHasCompletion
PROPERTIES ReadsOwnFrame SendsWhatWasWritten ReceivesWithOneFilter CommandsEnd
