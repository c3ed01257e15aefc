SPECIFICATION FairSpec
CONSTANTS
    Connections = {c1, c2}
    Bridges = {b1}
    Timeout = 1
    PresenceTTL = 1
    MaxCasts = 2
    MaxFaults = 1
INVARIANTS
    SessionsAgree
PROPERTIES
    FencedForGood
    RetiredOnlyWhenSilent
    PresenceLastsItsTime
    SilentIsRetired
CHECK_DEADLOCK FALSE
