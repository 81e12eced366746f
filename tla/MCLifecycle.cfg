SPECIFICATION FairSpec
CONSTANTS
    System = "system"
    Unqualified = ""
    Kinds = {"cassandra", "mongodb", "file"}
    Files <- MCFiles
    App = "janus"
    Definitions = "api_definition"
    Servers = "oauth"
    Handlers = {h1}
    ChanMax = 1
    MaxFailures = 1
    MaxSignals = 2
INVARIANTS TypeOK SchemaApplied WaitBlocks
PROPERTIES StaysUp SendersReleased SignalEnds
CHECK_DEADLOCK FALSE
