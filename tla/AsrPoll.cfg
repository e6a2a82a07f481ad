CONSTANTS
    TickMod = 6
    TickScale = 2
    BusyTimeout = 1
    Timeout = 1
    InitWrites = 1
SPECIFICATION Spec
INVARIANTS TypeOK HandleSound KeyRefusedOnlyInTransfer ResultGenuine
PROPERTIES OneTransferAtATime PollEnds KeyHandlerReturns GivenUpLate
