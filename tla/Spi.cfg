\* Two instances on one bus; a mode spi_set_mode refuses and a frequency the
\* driver refuses are among those asked for.
CONSTANTS
    chipA = chipA  chipB = chipB  slow = slow  fast = fast
    Inst = {chipA, chipB}
    Freqs = {slow, fast}
    Supported = {slow}
    Modes = {0, 1, 4}
    DefaultFreq = slow
    NoErr = NoErr  InvalidArgsErr = InvalidArgsErr  PeripheralErr = PeripheralErr
    NoPointer = NoPointer
SPECIFICATION Spec
SYMMETRY Chips
INVARIANTS TypeOK
PROPERTY TransfersAsRequested
