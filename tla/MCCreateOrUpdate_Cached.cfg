\* The typed path: the Get reads the informer cache.
CONSTANTS
    c1 = c1  c2 = c2  v1 = v1  v2 = v2
    Callers <- MCCallers
    Vals <- MCVals
    Desired <- MCDesired
    Registered = TRUE
    MaxRV = 3
SPECIFICATION Spec
\* Every caller returns: a state where both have returned and the writes
\* are spent has no successor.
CHECK_DEADLOCK FALSE
PROPERTIES NoLostUpdate
