CONSTANTS
    Vals <- MCVals
    Transform <- MCTransform
    Steps = 5
    Duration = 2
    FactorNum = 3
    FactorDen = 2
    JitterNum = 1
    JitterDen = 1
    MaxRV = 4
    Cached = FALSE
SPECIFICATION Spec
\* The call returns: a state with pc = "done" has no successor.
CHECK_DEADLOCK FALSE
INVARIANT CancelDuringSleepAborts
