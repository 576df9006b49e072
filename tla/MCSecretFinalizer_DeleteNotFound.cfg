CONSTANTS
    m1 = m1
    m2 = m2
    MRs <- MCMRs
    Classes = {"seed", "other"}
    FilterClass = "seed"
    NoClass = "none"
    Ours = Ours
    Other = Other
    RetrySteps = 2
    MaxRV = 6
SYMMETRY MCSymmetry
SPECIFICATION Spec
PROPERTY DeleteToleratesNotFound
