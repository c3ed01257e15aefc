SPECIFICATION FairCommandsSpec
CONSTANTS
    Cmds = {1}
    SendSuspends = FALSE
    MaxAttempts = 2
    MaxConns = 7
    MaxFaults = 2
INVARIANTS
    ExecutedAndRecorded
PROPERTIES
    OutcomeIsFinal
    CommandsSettle
    ResultsReachBrain
CHECK_DEADLOCK FALSE
