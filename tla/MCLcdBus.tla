------------------------------ MODULE MCLcdBus ------------------------------
\* Two painters and a panel of two pixels.
EXTENDS LcdBus

Right == [x1 |-> 1, x2 |-> 1, y1 |-> 0, y2 |-> 0]

Clear == [rect |-> Screen, pixels |-> 2, sends |-> 2, pinEach |-> FALSE]
Line  == [rect |-> Screen, pixels |-> 1, sends |-> 1, pinEach |-> TRUE]
Point == [rect |-> Right,  pixels |-> 1, sends |-> 1, pinEach |-> TRUE]

\* The one clears the panel or paints a line, the other paints points of a
\* picture.
TwoDraws == [p \in Painters |-> IF p = "asr" THEN {Clear, Line} ELSE {Point}]

HiBytes == [p \in Painters |-> 0]
LoBytes == [p \in Painters |-> IF p = "asr" THEN 1 ELSE 2]
=============================================================================
