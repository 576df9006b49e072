\* The unstructured path: the Get reads the API server.
CONSTANTS
    c1 = c1  c2 = c2  v1 = v1  v2 = v2
    Callers <- MCCallers
    Vals <- MCVals
    Desired <- MCDesired
    Registered = FALSE
    MaxRV = 3
SPECIFICATION Spec
\* Every caller returns: a state where both have returned and the writes
\* are spent has no successor.
CHECK_DEADLOCK FALSE
INVARIANT ErrorReportsNone
