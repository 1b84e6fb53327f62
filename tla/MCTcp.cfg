SPECIFICATION HalfSpec
CONSTANTS
    Builds = {TRUE, FALSE}
    Late = FALSE
    MaxPorts = 2
    MaxConnects = 3
    MaxSends = 1
    MaxPeerData = 2
    MaxLost = 0
    Boards = {"s3c24x0", "at91sam926x", "s3c6410"}
    Pins = {7, 8, 9}
    MaxEvents = 4
INVARIANTS
    NoBug
    StreamInOrder
    NumbersAgree
PROPERTIES
    CloseReleases
    Served
CHECK_DEADLOCK FALSE
