SPECIFICATION Spec
CONSTANTS
    MaxExecutions = 2
    MaxDeltas = 1
    MaxSlips = 1
    None = None
INVARIANTS GenuineContent AnsweredOnce
CHECK_DEADLOCK FALSE
