\* Two managed resources, the filter's class and one other, a retry budget
\* of two and six writes.  No symmetry: the run checks a liveness property,
\* for which TLC's symmetry reduction is unsound.
CONSTANTS
    m1 = m1
    m2 = m2
    MRs <- MCMRs
    Classes = {"seed", "other"}
    FilterClass = "seed"
    NoClass = "none"
    Ours = Ours
    Other = Other
    RetrySteps = 2
    MaxRV = 6
SPECIFICATION FairSpec
INVARIANTS
    TypeOK
    ForeignFinalizerPreserved
    QuiescentConverged
PROPERTIES
    ReconcilerTouchesOnlyOwn
    QuietSettles
