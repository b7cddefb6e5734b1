SPECIFICATION Spec
CONSTANTS
    f1 = f1
    f2 = f2
    DirectFiles = {f1, f2}
    TusFiles = {}
    Lossy = {}
    Links = {l1}
    MaxFileBytes = 2
    FileLimitEach = NoLimit
    FilesEach = NoLimit
    TotalEach = 3
    LinkMaxFileBytes <- MCLinkMaxFileBytes
    LinkMaxFiles <- MCLinkMaxFiles
    LinkMaxTotalBytes <- MCLinkMaxTotalBytes
    Server = server
    Operators = {}
    NoLimit = NoLimit
    NoLink = NoLink
    Unknown = Unknown
    Gone = Gone
INVARIANT QuotaHeld
PROPERTY FinishedDataKept UploadDataKept
