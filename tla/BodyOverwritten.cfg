CONSTANTS
    BufSz = 4
    MaxBody = 7
CHECK_DEADLOCK FALSE
SPECIFICATION Spec
INVARIANTS ReceivedDataStored
