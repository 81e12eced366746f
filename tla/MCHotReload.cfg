\* Two admin requests at a time on one definition, and writes that may fail.
SPECIFICATION FairSpec
CONSTANTS
    Names = {1, 2}
    Paths = {"p", "q"}
    Initials <- MCEither
    Bodies <- MCFirst
    Updates <- MCSpoils
    Handlers = {h1, h2}
    Objs = {1, 2, 3, 4, 5, 6, 7, 8}
    Persistent = TRUE
    ChanMax = 1
    MaxOps = 2
    MaxElsewhere = 0
    MaxFaults = 1
PROPERTIES EveryRequestAnswered LastAcceptedWins
CHECK_DEADLOCK FALSE
