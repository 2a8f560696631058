CONSTANTS
    e1 = e1
    e2 = e2
    Exprs <- MCExprs
    MaxID = 2
    MaxTime = 2
    None = None
SPECIFICATION Spec
CHECK_DEADLOCK FALSE
PROPERTY LastGoodResultKept
