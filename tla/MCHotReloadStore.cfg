\* A PUT or DELETE on one instance while another one writes to the datastore.
SPECIFICATION FairSpec
CONSTANTS
    Names = {1, 2}
    Paths = {"p", "q"}
    Initials <- MCBoth
    Bodies = {}
    Updates <- MCUpdates
    Handlers = {h1}
    Objs = {1, 2, 3, 4, 5, 6, 7, 8, 9}
    Persistent = TRUE
    ChanMax = 1
    MaxOps = 1
    MaxElsewhere = 1
    MaxFaults = 1
INVARIANTS TypeOK
PROPERTIES DeleteRemoves StoreWins
CHECK_DEADLOCK FALSE
