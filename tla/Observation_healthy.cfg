SPECIFICATION FairHealthySpec
CONSTANTS
    Observers = {o1}
    MaxSteps = 4
    MaxLen = 2
    ReadCount = 2
    None = None
INVARIANT LosslessView
PROPERTY ObserverReturns
