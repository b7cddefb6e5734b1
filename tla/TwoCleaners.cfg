SPECIFICATION Spec
CONSTANTS
    f1 = f1
    DirectFiles = {}
    TusFiles = {f1}
    Lossy = {f1}
    Links = {l1}
    MaxFileBytes = 2
    FileLimitEach = NoLimit
    FilesEach = 1
    TotalEach = NoLimit
    LinkMaxFileBytes <- MCLinkMaxFileBytes
    LinkMaxFiles <- MCLinkMaxFiles
    LinkMaxTotalBytes <- MCLinkMaxTotalBytes
    Server = server
    Operators = {cli}
    NoLimit = NoLimit
    NoLink = NoLink
    Unknown = Unknown
    Gone = Gone
INVARIANT SizeIsStored
PROPERTY FinishedDataKept UploadDataKept RowsOnlyAdvance TusSpec
