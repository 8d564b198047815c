SPECIFICATION Spec
CONSTANTS
    Executions = {e1, e2}
    Sessions = {s1}
    Runners = {r1, r2}
    Clients = {c1, c2}
    BatchSize = 2
    MaxAttempts = 2
    NoExecution = NoExecution
    NoRunner = NoRunner
SYMMETRY Symmetry
INVARIANTS SingleOwner OutboxMatchesExecution TerminalEventIsDurable AttemptsBounded
PROPERTIES OutcomeStands NothingStranded RuntimeEndsFirst ImplementsJob
CHECK_DEADLOCK FALSE
