CONSTANTS
    c1 = c1
    c2 = c2
    ConnIDs <- MCConnIDs
    Inputs <- MCInputs
    MaxStarts = 1
    CloseChCap = 1
SPECIFICATION Spec
INVARIANT TypeOK
INVARIANT ProgressAtMostOne
INVARIANT JobErrorFaithful
INVARIANT AtMostOneSession
PROPERTY CloseReturns
PROPERTY ReplayFinishes
