SPECIFICATION Spec
CONSTANTS
    f1 = f1
    f2 = f2
    DirectFiles = {f1}
    TusFiles = {f2}
    Lossy = {}
    Links = {l1}
    MaxFileBytes = 1
    FileLimitEach = 2
    FilesEach = 1
    TotalEach = NoLimit
    LinkMaxFileBytes <- MCLinkMaxFileBytes
    LinkMaxFiles <- MCLinkMaxFiles
    LinkMaxTotalBytes <- MCLinkMaxTotalBytes
    Server = server
    Operators = {}
    NoLimit = NoLimit
    NoLink = NoLink
    Unknown = Unknown
    Gone = Gone
INVARIANT TypeOK CountHeld
PROPERTY LedgerSpec
