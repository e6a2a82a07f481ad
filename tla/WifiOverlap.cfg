SPECIFICATION Spec
CONSTANTS
    s1 = s1
    s2 = s2
    s3 = s3
    UseShell = TRUE
    Sems = {s1, s2}
    NoSem = NoSem
    MaxTokens = 2
INVARIANTS
    NoOrphanWaiter
\* A failed RT_ASSERT stops the kernel.
CHECK_DEADLOCK FALSE
