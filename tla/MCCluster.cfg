\* Two nodes, one backend: replication of the registry between a leader and a follower.
SPECIFICATION FairSpec
CONSTANTS
    Nodes = {1, 2}
    Services = {a}
    a = a
    Peers <- MCPeers
    RegistryURLs <- MCRegistryURLs
    MaxFaults = 2
INVARIANTS
    TypeOK
    AnnouncedFirst
PROPERTIES
    HealthyKept
    HealthMapNeverShrinks
    BalancerConverges
