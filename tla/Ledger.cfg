SPECIFICATION Spec
\* Every row may end, and then nothing is left to do.
CHECK_DEADLOCK FALSE
CONSTANTS
    Files = {f1, f2, f3}
    Links = {l1, l2}
    FileLimitEach = 2
    CountEach = 2
    TotalEach = 3
    FileLimit <- MCFileLimit
    CountLimit <- MCCountLimit
    TotalLimit <- MCTotalLimit
    NoLimit = NoLimit
    NoLink = NoLink
INVARIANT WithinTotal WithinCount
