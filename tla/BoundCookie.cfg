SPECIFICATION FairSpec
CONSTANTS
    Sessions = {s1, s2}
    CookieTTL = 1
    Grace = 1
    ChallengeTTL = 2
    MaxInFlight = 1
    None = None
INVARIANT TypeOK CopiesExpire OvertakenOnce
PROPERTY BackIn
