CONSTANTS
    Tools = {t1, t2}
    MaxIterations = 2
    MaxParallel = 1
    MaxCalls = 2
    MaxChunks = 2
SPECIFICATION Spec
INVARIANTS
    
    ObservationsAgree
    ParallelismBounded
    GraphStaysInLimit
    AnswerIsShown
    
CHECK_DEADLOCK FALSE
PROPERTY
    ProgramEnds
