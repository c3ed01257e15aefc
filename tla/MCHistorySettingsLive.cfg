SPECIFICATION FairSettingsSpec
CONSTANTS
    Consents = {}
    MaxUpdates = 2
    MaxConns = 5
    MaxFaults = 1
PROPERTIES
    SettingsTakeEffect
CHECK_DEADLOCK FALSE
