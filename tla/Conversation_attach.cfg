SPECIFICATION FairSpec
CONSTANTS
    MaxExecutions = 1
    MaxDeltas = 3
    MaxSlips = 1
    None = None
INVARIANTS GenuineContent 
PROPERTIES WordsStay 
CHECK_DEADLOCK FALSE
