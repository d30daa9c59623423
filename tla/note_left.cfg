SPECIFICATION Spec
CONSTANTS
    n1 = n1
    n2 = n2
    Notes = {n1, n2}
    Opened = n1
    MaxTyped = 2
    MaxForeign = 1
    MaxPanes = 2
    MaxReads = 1
    MaxFailures = 1
INVARIANT
    LeftIsSaved
CHECK_DEADLOCK FALSE
