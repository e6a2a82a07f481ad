CONSTANTS
    Painters = {"UI", "shell"}
    Pictures <- OnePicture
    Hours = {18}
    Junk = {}
SPECIFICATION Spec
INVARIANTS TypeOK ColoursAgree UndisturbedRepaint ModeFollowsClock
PROPERTIES EveningGetsDark
\* A hard fault stops the system.
CHECK_DEADLOCK FALSE
