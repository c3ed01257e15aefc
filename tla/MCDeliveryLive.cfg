SPECIFICATION FairDeliverySpec
CONSTANTS
    Entities = {1}
    Grants = {}
    PageSize = 1
    MaxChanges = 2
    MaxSnapshots = 2
    UploadIds = {1, 2}
    MaxConns = 3
    MaxFaults = 1
    MaxTasks = 2
    MaxAcks = 1
PROPERTIES
    CapturedGetsCommitted
CHECK_DEADLOCK FALSE
