SPECIFICATION Spec
CONSTANTS
    weather = weather
    key = key
    c1 = c1
    c2 = c2
    \* One thread stands for the weather thread and the UI thread in turn.
    Refreshers = {weather}
    Changers = {key}
    Viewers = {weather}
    Cities = {c1, c2}
    DefaultCity = c1
    NFields = 2
    \* One field is a name, one an icon.
    TextFields = {1}
    Pictures = {2}
    Blank = Blank
    Garbage = Garbage
INVARIANTS
    TypeOK
    NoLeak
    PaintedShowsCity
    FreshIsConsistent
PROPERTIES
    OnlyAcceptedBodiesStored
\* A hard fault stops the system.
CHECK_DEADLOCK FALSE
