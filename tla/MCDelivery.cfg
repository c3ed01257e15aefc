SPECIFICATION DeliverySpec
CONSTANTS
    Entities = {1}
    Grants = {1}
    PageSize = 1
    MaxChanges = 3
    MaxSnapshots = 2
    UploadIds = {1, 2}
    MaxConns = 2
    MaxFaults = 1
    MaxTasks = 2
    MaxAcks = 1
INVARIANTS
    NothingLost
    BooksAgree
PROPERTIES
    KeepsPromise
CHECK_DEADLOCK FALSE
