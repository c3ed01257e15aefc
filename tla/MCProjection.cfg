\* One account of one conversation: its three revisions are enough for both
\* slots to be used and the first to be replayed over a gap of two.
SPECIFICATION FairProjectionSpec
CONSTANTS
    Convs = {1}
    MaxRevisions = 3
    MaxFaults = 1
INVARIANTS
    SlotsAreExact
    ReadersSeeActivated
PROPERTIES
    VisibleAdvances
    RevisionsReachBridge
CHECK_DEADLOCK FALSE
