SPECIFICATION FairSpec
CONSTANTS
    s1 = s1
    s2 = s2
    s3 = s3
    UseShell = FALSE
    Sems = {s1, s2, s3}
    NoSem = NoSem
    MaxTokens = 2
INVARIANTS
    TypeOK
    NoUseAfterDelete
    LeakOnlyOnFailedJoin
    SuccessIsOfThisCall
PROPERTIES
    FirstCallEnds
\* A failed RT_ASSERT stops the kernel.
CHECK_DEADLOCK FALSE
