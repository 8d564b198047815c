SPECIFICATION FairSpec
CONSTANTS
    Executions = {e1, e2}
    Sessions = {s1}
    Runners = {r1}
    Clients = {c1}
    BatchSize = 2
    MaxAttempts = 2
    NoExecution = NoExecution
    NoRunner = NoRunner
PROPERTIES EveryMessageCloses 
CHECK_DEADLOCK FALSE
