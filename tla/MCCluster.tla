----------------------------- MODULE MCCluster -----------------------------
(***************************************************************************)
(* The cluster of docker-compose.yml for TLC: every node is a peer of      *)
(* every other, and every backend registers with all the nodes in order.   *)
(***************************************************************************)
EXTENDS Cluster

MCPeers == [n \in Nodes |-> Nodes \ {n}]

MCRegistryURLs == [i \in 1 .. Cardinality(Nodes) |-> i]

=============================================================================
