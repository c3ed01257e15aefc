SPECIFICATION FairOutboxSpec
CONSTANTS
    Entities = {1, 2, 3}
    Grants = {1}
    PageSize = 2
    MaxChanges = 4
    MaxSnapshots = 2
INVARIANTS
    OutboxRetainsUnacknowledged
    SnapshotIsAsOf
    SnapshotIsCut
PROPERTIES
    SnapshotGetsReady
CHECK_DEADLOCK FALSE
