SPECIFICATION Spec
CONSTANTS
    Builds = {TRUE, FALSE}
    Late = TRUE
    MaxPorts = 2
    MaxConnects = 3
    MaxSends = 1
    MaxPeerData = 1
    MaxLost = 1
INVARIANTS
    FinAckedMeansSeen
    ReleasedAfterBothFins
CHECK_DEADLOCK FALSE
