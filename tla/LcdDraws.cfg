CONSTANTS
    Painters = {"asr", "key"}
    W = 2
    H = 1
    Draws <- TwoDraws
    Hi <- HiBytes
    Lo <- LoBytes
    None = None
SPECIFICATION Spec
INVARIANTS TypeOK UndisturbedDrawIsExact
