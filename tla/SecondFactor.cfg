SPECIFICATION Spec
CONSTANTS
    Sessions = {s1, s2}
    Passkeys = {p1, p2}
    MaxPasskeys = 1
    MaxAttempts = 2
    LockThreshold = 2
    LockSteps = 1
    AdminRequireTotp = TRUE
    MaxStep = 3
    MaxSecrets = 1
    MaxIssues = 2
    CodesEach = 1
    MaxInFlight = 1
SYMMETRY Renamings
INVARIANT TypeOK CompleteIsEarned CodesCountOnce CodesBackAFactor
PROPERTY FreshIdOnly LockHolds LastFactorKept
