SPECIFICATION Spec
CONSTANTS
    Executions = {e1}
    Sessions = {s1}
    Runners = {r1}
    Clients = {c1}
    BatchSize = 1
    MaxAttempts = 2
    NoExecution = NoExecution
    NoRunner = NoRunner
PROPERTY FailureIsTerminal
CHECK_DEADLOCK FALSE
