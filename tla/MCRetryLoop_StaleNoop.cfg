\* A client whose Get is served from a lagging informer cache.  TryUpdate
\* may then see an old object the transform leaves unchanged and return
\* success without a write, although the stored object is not one the
\* transform leaves unchanged.
CONSTANTS
    Vals <- MCVals
    Transform <- MCTransform
    Steps = 5
    Duration = 2
    FactorNum = 3
    FactorDen = 2
    JitterNum = 1
    JitterDen = 1
    MaxRV = 4
    Cached = TRUE
SPECIFICATION Spec
CHECK_DEADLOCK FALSE
PROPERTY ImplementsAtomicUpdate
