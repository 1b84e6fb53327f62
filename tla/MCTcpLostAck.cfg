SPECIFICATION Spec
CONSTANTS
    Builds = {TRUE}
    Late = FALSE
    MaxPorts = 1
    MaxConnects = 2
    MaxSends = 0
    MaxPeerData = 0
    MaxLost = 1
INVARIANT
    NoBug
CHECK_DEADLOCK FALSE
