SPECIFICATION Spec
CONSTANTS
    f1 = f1
    DirectFiles = {f1}
    TusFiles = {}
    Lossy = {f1}
    Links = {l1}
    MaxFileBytes = 1
    FileLimitEach = NoLimit
    FilesEach = 1
    TotalEach = NoLimit
    LinkMaxFileBytes <- MCLinkMaxFileBytes
    LinkMaxFiles <- MCLinkMaxFiles
    LinkMaxTotalBytes <- MCLinkMaxTotalBytes
    Server = server
    Operators = {}
    NoLimit = NoLimit
    NoLink = NoLink
    Unknown = Unknown
    Gone = Gone
PROPERTY MissingNotSwept
