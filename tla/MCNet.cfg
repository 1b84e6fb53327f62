SPECIFICATION FairSpec
CONSTANTS
    Ips = {1, 2}
    Hosts = {1}
    NSocks = 3
    MaxLeft = 1
    MaxRuns = 2
    MaxLost = 1
    MaxNoise = 2
    MaxNak = 1
CHECK_DEADLOCK FALSE
INVARIANTS NetTypeOK AddressSafe
PROPERTY DhcpEnds
