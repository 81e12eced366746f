\* Three nodes and no backend: the election rounds of three monitors.
SPECIFICATION FairSpec
CONSTANTS
    Nodes = {1, 2, 3}
    Services = {}
    Peers <- MCPeers
    RegistryURLs <- MCRegistryURLs
    MaxFaults = 3
PROPERTIES
    LeaderConverges
