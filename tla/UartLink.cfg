\* Two threads, three calls, one lost cell, services that outlast the time-out.
CONSTANTS
    t1 = t1  t2 = t2
    Threads = {t1, t2}
    MaxCalls = 3
    MaxLosses = 1
    MaxLen = 1
    UART_TIMEOUT = 2
    ServeTime = 3
    None = None
SPECIFICATION FairSpec
INVARIANTS TypeOK RequestsIntact
PROPERTIES AnswersMatch TimeoutOnlyWhenSlow NobodyHangs
