CONSTANTS
    c1 = c1
    c2 = c2
    ConnIDs <- MCConnIDs
    Inputs <- MCInputs
    MaxStarts = 2
    CloseChCap = 1
SPECIFICATION Spec
PROPERTY CloseReturns
