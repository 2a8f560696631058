CONSTANTS
    n1 = n1
    n2 = n2
    n3 = n3
    Nodes <- MCNodes
    MaxFaults = 0
    MaxStops = 3
SPECIFICATION Spec
CHECK_DEADLOCK FALSE
PROPERTY VIPFollowsOwner
