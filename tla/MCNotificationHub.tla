-------------------------- MODULE MCNotificationHub --------------------------
(***************************************************************************)
(* Instances of NotificationHub.  JANUS_PEERS of node 1 names the node     *)
(* itself too, so that its own copies come back to it.                     *)
(***************************************************************************)
EXTENDS NotificationHub

MCPeers == [n \in Nodes |-> IF n = 1 THEN Nodes ELSE Nodes \ {n}]

MCInterests == {{"*"}, {"orders"}}

MCTopicOf == [i \in Ids |-> IF i = 1 THEN "users" ELSE "orders"]

=============================================================================
