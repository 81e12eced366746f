------------------------------- MODULE MCOAuth -------------------------------
EXTENDS OAuth, TLC

MCCallers == Handlers \union {Loader}

MCRule(m, a) ==
    [says |-> [claim \in Claims |-> IF claim \in m THEN "match" ELSE "no match"],
     allow |-> a, parsed |-> FALSE]

MCBadRule ==
    [says |-> [claim \in Claims |-> IF claim = "de" THEN "error" ELSE "no boolean"],
     allow |-> TRUE, parsed |-> FALSE]

MCServer(n, st, se, k, r) ==
    [name |-> n, strategy |-> st, settings |-> se, key |-> k, secrets |-> {"app"}, rules |-> r]

\* The server of the API in several shapes, beside one that is not well configured.
MCStored == [b \in Backends |->
    {{MCServer("s1", "jwt", "methods", "k1", <<MCRule({"de"}, FALSE)>>),
      MCServer("s2", "unknown", "nil", "k1", <<>>)}}
    \union
    (IF b # "memory" THEN {}
     ELSE {{MCServer("s1", "jwt", "legacy", "k1", <<MCRule({"de"}, TRUE), MCBadRule>>)},
           {MCServer("s1", "introspection", "legacy", "k1", <<MCBadRule, MCRule({"us"}, FALSE)>>)},
           {MCServer("s1", "introspection", "map", "k1", <<>>)}})]

MCRequests ==
    {[op |-> "post", body |-> MCServer("s2", "jwt", "methods", "k2", <<>>)],
     [op |-> "post", body |-> MCServer("s2", "introspection", "nil", "k1", <<>>)],
     [op |-> "put", name |-> "s1", wrong |-> FALSE,
      body |-> [key |-> "k2", rules |-> <<MCRule({"us"}, FALSE), MCBadRule>>]],
     [op |-> "put", name |-> "s1", wrong |-> TRUE, body |-> [secrets |-> {"web"}]],
     [op |-> "put", name |-> "s1", wrong |-> FALSE, body |-> [name |-> "s2"]],
     [op |-> "delete", name |-> "s1"]}

MCTokens == {[key |-> "k1", claim |-> "de"], [key |-> "k2", claim |-> "us"],
             [key |-> NoKey, claim |-> "de"]}

MCMaxOps == [b \in Backends |-> IF b = "memory" THEN 2 ELSE 1]

MCSymmetry == Permutations(Handlers) \union Permutations(Visits)

=============================================================================
