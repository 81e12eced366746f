\* Two nodes, no client: notifications copied between hubs, with one lost request or crash.
SPECIFICATION FairSpec
CONSTANTS
    Nodes = {1, 2}
    Peers <- MCPeers
    Ids = {1, 2, 3}
    Interests <- MCInterests
    TopicOf <- MCTopicOf
    Clients = {}
    HistoryMax = 2
    BufferMax = 1
    MaxFaults = 1
PROPERTIES EveryPeerReached
CHECK_DEADLOCK FALSE
