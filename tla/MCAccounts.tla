----------------------------- MODULE MCAccounts -----------------------------
EXTENDS Accounts

MCCallers == Handlers \union Clients

MCSetups == [plugin : {"basic"}, backend : {"memory", "mongo", "cassandra"}]
    \union [plugin : {"organization"}, backend : {"mongo", "cassandra"}]

MCCreate(u, p, g) == [op |-> "create", name |-> u, rename |-> Omitted, pass |-> p, org |-> g,
                      config |-> "c1", wrong |-> FALSE]

MCUpdate(u, v, p, w) == [op |-> "update", name |-> u, rename |-> v, pass |-> p,
                      org |-> Omitted, wrong |-> w]

MCDelete(u) == [op |-> "delete", name |-> u, rename |-> Omitted]

MCBasic == {MCCreate("u1", "p", NoOrg), MCCreate("u1", "q", NoOrg),
            MCUpdate("u1", Omitted, "q", FALSE),
            MCUpdate("u1", "u2", Omitted, FALSE), MCUpdate("u1", "u2", "q", TRUE),
            MCCreate("u2", "p", NoOrg), MCDelete("u1"), MCDelete("u2")}

MCOrganization ==
    {MCCreate("u1", "p", "g1"), MCCreate("u2", "q", "g2"),
     [op |-> "update", name |-> "u1", rename |-> Omitted, pass |-> Omitted,
                      org |-> "g2", wrong |-> FALSE],
     MCDelete("u1"),
     [op |-> "createOrg", org |-> "g1", config |-> "c2"],
     [op |-> "updateOrg", org |-> "g1", config |-> "c2"]}

MCRequests == [plg \in {"basic", "organization"} |->
                IF plg = "basic" THEN MCBasic ELSE MCOrganization]

MCLogin(u, p) == [name |-> u, pass |-> p]

MCLogins == [plg \in {"basic", "organization"} |-> [c \in Clients |->
    IF plg = "basic"
    THEN IF c = "c1" THEN {MCLogin("u1", "p"), MCLogin("u2", "p")} ELSE {}
    ELSE IF c = "c1" THEN {MCLogin("u1", "p")} ELSE {MCLogin("u2", "q")}]]

MCMaxOps == [b \in {"memory", "mongo", "cassandra"} |->
    IF b = "memory" THEN 5 ELSE IF b = "mongo" THEN 3 ELSE 2]

MCOrganizationSetup == [plugin : {"organization"}, backend : {"cassandra"}]

=============================================================================
