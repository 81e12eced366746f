\* One node, two clients: the hub, its history and the streams of its subscribers.
SPECIFICATION Spec
CONSTANTS
    Nodes = {1}
    Peers <- MCPeers
    Ids = {1, 2, 3}
    Interests <- MCInterests
    TopicOf <- MCTopicOf
    Clients = {c1, c2}
    HistoryMax = 2
    BufferMax = 1
    MaxFaults = 1
INVARIANTS TypeOK SeenIsHistory SendsOnOpen OncePerStream StreamsInOrder
PROPERTIES HistoryIsBoundedLog
CHECK_DEADLOCK FALSE
