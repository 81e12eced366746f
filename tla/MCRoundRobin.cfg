\* Two requests on a route of three targets while the health map changes.
SPECIFICATION FairSpec
CONSTANTS
    Requests = {r1, r2}
    Hosts <- MCHosts
    HealthKey <- MCHealthKey
    Keys <- MCKeys
    Local = {}
INVARIANTS TypeOK FullSweep
PROPERTIES FairTurns ElectionEnds
