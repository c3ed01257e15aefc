SPECIFICATION SettingsSpec
CONSTANTS
    Consents = {1}
    MaxUpdates = 2
    MaxConns = 3
    MaxFaults = 1
INVARIANTS
    SettingsAreTrue
PROPERTIES
    LateReportsNeverRegress
CHECK_DEADLOCK FALSE
