SPECIFICATION FairSpec
CONSTANTS
    MaxExecutions = 1
    MaxDeltas = 1
    MaxSlips = 0
    None = None
PROPERTY FallsBackToTheRow
CHECK_DEADLOCK FALSE
