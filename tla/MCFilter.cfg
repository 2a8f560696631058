CONSTANTS
    Tokens <- MCTokens
    MaxTokens = 3
SPECIFICATION Spec
CHECK_DEADLOCK FALSE

INVARIANT NoFalseNegative
