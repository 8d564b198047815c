CONSTANTS
    Program = Program
    Executions = {x, y}
    Calls = {c1, c2}
    MaxCompactions = 1
    MaxFaults = 1

SPECIFICATION Spec
SYMMETRY Symmetry
INVARIANTS Numbering  AnswerClosesTheRun CompletedIsRemembered
CHECK_DEADLOCK FALSE
