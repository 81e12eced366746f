SPECIFICATION Spec
CONSTANTS
    Users = {"u1", "u2"}
    Passwords = {"p", "q"}
    Orgs = {"g1", "g2"}
    Configs = {"c1", "c2"}
    Setups <- MCOrganizationSetup
    Handlers = {h1, h2}
    Clients = {"c1", "c2"}
    Callers <- MCCallers
    Requests <- MCRequests
    Logins <- MCLogins
    MaxOps <- MCMaxOps
    Attempts = 2
    MaxFailures = 2
INVARIANTS OwnHeader
CHECK_DEADLOCK FALSE
