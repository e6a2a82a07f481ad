CONSTANTS
    Painters = {"asr", "key"}
    Pictures <- TwoPictures
    Hours = {12, 20}
    Junk = {5}
SPECIFICATION Spec
INVARIANTS RowFitsBuffer
\* A hard fault stops the system.
CHECK_DEADLOCK FALSE
