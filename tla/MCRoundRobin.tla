---------------------------- MODULE MCRoundRobin ----------------------------
(***************************************************************************)
(* An instance of RoundRobin: a route with a target that is a key of the   *)
(* health map itself, one with a path, and one that never registers.       *)
(***************************************************************************)
EXTENDS RoundRobin

MCHosts == <<"http://a", "http://b/path", "http://c">>

MCHealthKey ==
    [t \in {"http://a", "http://b/path", "http://c"} |->
        IF t = "http://b/path" THEN "http://b" ELSE t]

MCKeys == {"http://a", "http://b"}

=============================================================================
