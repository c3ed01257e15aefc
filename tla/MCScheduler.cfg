SPECIFICATION LiveSpec
CONSTANTS
    Accounts = {"a1", "a2"}
    Busy = {"a1"}
    Workers = {"w1"}
    Capacity = 1
    Retained = 1
    MaxRev = 1
    MaxAsks = 1
    MaxFaults = 1
INVARIANTS
    RequestsAreHeld
PROPERTIES
    ClosedPublishesNothing
    EveryRequestSettles
CHECK_DEADLOCK FALSE
