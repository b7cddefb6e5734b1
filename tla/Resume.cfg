SPECIFICATION FairSpec
CONSTANTS
    Uploads = {u1, u2, u3}
    Size = 3
    ChunkSize = 2
    Versions = 2
    None = None
INVARIANT TypeOK ReportsComplete ArrivesOnce OneVersion NothingAbandoned
PROPERTY ComesToAnEnd TusSpec
