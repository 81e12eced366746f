\* Does the router come to serve what the datastore holds?
SPECIFICATION FairSpec
CONSTANTS
    Names = {1, 2}
    Paths = {"p", "q"}
    Initials <- MCEmpty
    Bodies <- MCBodies
    Updates = {}
    Handlers = {h1}
    Objs = {1, 2, 3, 4, 5, 6, 7, 8}
    Persistent = TRUE
    ChanMax = 1
    MaxOps = 2
    MaxElsewhere = 0
    MaxFaults = 0
PROPERTIES ServesStore
CHECK_DEADLOCK FALSE
