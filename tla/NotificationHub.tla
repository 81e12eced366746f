--------------------------- MODULE NotificationHub ---------------------------
(***************************************************************************)
(* The notification hub of a cluster of nodes (pkg/web/notification.go).   *)
(* A publish request is accepted by the hub of the node it reaches and     *)
(* then copied to the peers of that node by a goroutine, one POST after    *)
(* the other, each tried once.  A hub drops a notification whose id it     *)
(* remembers, keeps the last HistoryMax of them, and hands each one to its *)
(* subscribers through a channel of BufferMax places without ever waiting. *)
(* A subscriber is an HTTP stream that ends at its deadline or when the    *)
(* client leaves.  The lock of the hub makes each of publishNotification,  *)
(* subscribe and unsubscribe one step.                                     *)
(***************************************************************************)
EXTENDS Integers, Sequences, FiniteSets

CONSTANTS
    Nodes,       \* node ids
    Peers,       \* Peers[n]: the nodes that the URLs in JANUS_PEERS of n reach
    Ids,         \* notification ids; a publication takes a fresh one
    TopicOf,     \* TopicOf[i]: the topic of notification i
    Interests,   \* the sets of topics that clients subscribe to; "*" is every topic
    Clients,     \* clients that subscribe
    HistoryMax,  \* length of the history, 200 in the code
    BufferMax,   \* capacity of the channel of a subscriber, 50 in the code
    MaxFaults    \* bound on lost requests and crashes

ASSUME PeersAssumption == Peers \in [Nodes -> SUBSET Nodes]
ASSUME HistoryAssumption == HistoryMax \in Nat \ {0}
ASSUME BufferAssumption == BufferMax \in Nat
ASSUME FaultsAssumption == MaxFaults \in Nat

VARIABLES
    history,    \* history[n]: ids of the last notifications of node n, the newest last
    seen,       \* seen[n]: the ids node n remembers
    origin,     \* origin[i]: the node that published i, as a set of at most one node
    toSend,     \* toSend[i]: peers the replication goroutine of i has still to post to
    net,        \* replication requests on their way, <<id, node>>
    registered, \* registered[n]: clients in the subscribers map of node n
    open,       \* clients whose channel is open
    wanted,     \* wanted[c]: the topics of the stream of client c
    buffer,     \* buffer[c]: ids in the channel of client c
    received,   \* received[c]: ids written to the stream of client c
    evicted,    \* evicted[n]: ids that left the history of n since its process began
    got,        \* <<id, node>>: node accepted the notification at some time
    lost,       \* <<id, node>>: a request for node failed, or died with a process
    faults      \* faults so far

hubVars == <<history, seen, evicted, got>>
replicationVars == <<origin, toSend, net>>
streamVars == <<registered, open, wanted, buffer, received>>
faultVars == <<lost, faults>>
vars == <<hubVars, replicationVars, streamVars, faultVars>>

Elems(s) == {s[k] : k \in DOMAIN s}

TypeOK ==
    /\ history \in [Nodes -> Seq(Ids)]
    /\ seen \in [Nodes -> SUBSET Ids]
    /\ origin \in [Ids -> SUBSET Nodes]
    /\ toSend \in [Ids -> SUBSET Nodes]
    /\ net \in SUBSET (Ids \X Nodes)
    /\ registered \in [Nodes -> SUBSET Clients]
    /\ open \in SUBSET Clients
    /\ wanted \in [Clients -> Interests \union {{}}]
    /\ buffer \in [Clients -> Seq(Ids)]
    /\ received \in [Clients -> Seq(Ids)]
    /\ evicted \in [Nodes -> SUBSET Ids]
    /\ got \in SUBSET (Ids \X Nodes)
    /\ lost \in SUBSET (Ids \X Nodes)
    /\ faults \in 0 .. MaxFaults
    /\ \A n \in Nodes : Len(history[n]) <= HistoryMax
    /\ \A c \in Clients : Len(buffer[c]) <= BufferMax

Init ==
    /\ history = [n \in Nodes |-> <<>>]
    /\ seen = [n \in Nodes |-> {}]
    /\ origin = [i \in Ids |-> {}]
    /\ toSend = [i \in Ids |-> {}]
    /\ net = {}
    /\ registered = [n \in Nodes |-> {}]
    /\ open = {}
    /\ wanted = [c \in Clients |-> {}]
    /\ buffer = [c \in Clients |-> <<>>]
    /\ received = [c \in Clients |-> <<>>]
    /\ evicted = [n \in Nodes |-> {}]
    /\ got = {}
    /\ lost = {}
    /\ faults = 0

----------------------------------------------------------------------------
(* publishNotification.                                                    *)

\* Mutant of Remember: the id of the notification that falls out stays remembered.
RememberForEver(n, i) == seen' = [seen EXCEPT ![n] = @ \union {i}]

Remember(n, i) ==
    seen' = [seen EXCEPT ![n] =
               (@ \union {i}) \ (IF Len(history[n]) >= HistoryMax
                                 THEN {Head(history[n])} ELSE {})]

\* Mutant of Record: the history grows by one more than it may.
RecordLate(n, i) ==
    history' = [history EXCEPT ![n] =
                  Append(IF Len(@) > HistoryMax THEN Tail(@) ELSE @, i)]

\* Mutant of Record: the newest notification comes first.
RecordNewestFirst(n, i) ==
    history' = [history EXCEPT ![n] =
                  <<i>> \o (IF Len(@) >= HistoryMax THEN Tail(@) ELSE @)]

Record(n, i) ==
    history' = [history EXCEPT ![n] =
                  Append(IF Len(@) >= HistoryMax THEN Tail(@) ELSE @, i)]

Matches(c, i) == "*" \in wanted[c] \/ TopicOf[i] \in wanted[c]

\* The non-blocking send: a full channel drops the new element.
Push(q, i) == IF Len(q) < BufferMax THEN Append(q, i) ELSE q

Fan(n, i) ==
    buffer' = [c \in Clients |->
                 IF c \in registered[n] /\ Matches(c, i) THEN Push(buffer[c], i)
                                                         ELSE buffer[c]]

\* Mutant of Known: every notification is taken for a new one.
KnownNever(n, i) == FALSE

Known(n, i) == i \in seen[n]

Accept(n, i) ==
    IF Known(n, i)
    THEN UNCHANGED <<hubVars, buffer>>
    ELSE /\ Remember(n, i)
         /\ Record(n, i)
         /\ Fan(n, i)
         /\ got' = got \union {<<i, n>>}
         /\ evicted' = [evicted EXCEPT ![n] =
                          @ \union (IF Len(history[n]) >= HistoryMax
                                    THEN {Head(history[n])} ELSE {})]

----------------------------------------------------------------------------
(* NotificationPublishHandler, the goroutine it starts and                 *)
(* NotificationReplicateHandler.  The client of the goroutine gives up     *)
(* after 2 s and goes on with the next peer, while its request may still   *)
(* be served: a request on its way arrives at any later time.              *)

\* Mutant of Recipients: one of the peers is left out.
RecipientsButOne(n) == Peers[n] \ {CHOOSE p \in Nodes : p \in Peers[n]}

Recipients(n) == Peers[n]

Publish(n, i) ==
    /\ origin[i] = {}
    /\ origin' = [origin EXCEPT ![i] = {n}]
    /\ Accept(n, i)
    /\ toSend' = [toSend EXCEPT ![i] = Recipients(n)]
    /\ UNCHANGED <<net, registered, open, wanted, received, faultVars>>

Post(i, p) ==
    /\ p \in toSend[i]
    /\ toSend' = [toSend EXCEPT ![i] = @ \ {p}]
    /\ \/ /\ net' = net \union {<<i, p>>}
          /\ UNCHANGED faultVars
       \/ /\ faults < MaxFaults
          /\ faults' = faults + 1
          /\ lost' = lost \union {<<i, p>>}
          /\ UNCHANGED net
    /\ UNCHANGED <<hubVars, origin, streamVars>>

Replicate(i, p) ==
    /\ <<i, p>> \in net
    /\ net' = net \ {<<i, p>>}
    /\ Accept(p, i)
    /\ UNCHANGED <<origin, toSend, registered, open, wanted, received, faultVars>>

----------------------------------------------------------------------------
(* NotificationSubscribeHandler: the stream of a client ends with          *)
(* unsubscribe, whatever its channel still holds.                          *)

Subscribe(c, n, topics) ==
    /\ c \notin open
    /\ registered' = [registered EXCEPT ![n] = @ \union {c}]
    /\ open' = open \union {c}
    /\ wanted' = [wanted EXCEPT ![c] = topics]
    /\ buffer' = [buffer EXCEPT ![c] = <<>>]
    /\ received' = [received EXCEPT ![c] = <<>>]
    /\ UNCHANGED <<hubVars, replicationVars, faultVars>>

Stream(c) ==
    /\ c \in open
    /\ buffer[c] # <<>>
    /\ received' = [received EXCEPT ![c] = Append(@, Head(buffer[c]))]
    /\ buffer' = [buffer EXCEPT ![c] = Tail(@)]
    /\ UNCHANGED <<hubVars, replicationVars, registered, open, wanted, faultVars>>

\* Mutant of Unregister: the closed channel stays in the map.
UnregisterNot(c) == UNCHANGED registered

Unregister(c) == registered' = [n \in Nodes |-> registered[n] \ {c}]

Unsubscribe(c) ==
    /\ c \in open
    /\ open' = open \ {c}
    /\ Unregister(c)
    /\ wanted' = [wanted EXCEPT ![c] = {}]
    /\ buffer' = [buffer EXCEPT ![c] = <<>>]
    /\ received' = [received EXCEPT ![c] = <<>>]
    /\ UNCHANGED <<hubVars, replicationVars, faultVars>>

----------------------------------------------------------------------------
(* The process of a node dies and comes back: its hub, its goroutines and  *)
(* its streams are gone, and so are the requests that were on their way.   *)

Crash(n) ==
    LET streams == registered[n]
        mine == {i \in Ids : origin[i] = {n}}
        dead == {r \in net : r[2] = n} \union {r \in Ids \X Nodes :
                                                 r[1] \in mine /\ r[2] \in toSend[r[1]]}
    IN
    /\ faults < MaxFaults
    /\ faults' = faults + 1
    /\ history' = [history EXCEPT ![n] = <<>>]
    /\ seen' = [seen EXCEPT ![n] = {}]
    /\ evicted' = [evicted EXCEPT ![n] = {}]
    /\ toSend' = [i \in Ids |-> IF i \in mine THEN {} ELSE toSend[i]]
    /\ net' = {r \in net : r[2] # n}
    /\ registered' = [registered EXCEPT ![n] = {}]
    /\ open' = open \ streams
    /\ buffer' = [c \in Clients |-> IF c \in streams THEN <<>> ELSE buffer[c]]
    /\ received' = [c \in Clients |-> IF c \in streams THEN <<>> ELSE received[c]]
    /\ lost' = lost \union dead
    /\ wanted' = [c \in Clients |-> IF c \in streams THEN {} ELSE wanted[c]]
    /\ UNCHANGED <<origin, got>>

Next ==
    \/ \E n \in Nodes : Crash(n) \/ \E i \in Ids : Publish(n, i)
    \/ \E i \in Ids, p \in Nodes : Post(i, p) \/ Replicate(i, p)
    \/ \E c \in Clients :
         \/ \E n \in Nodes, topics \in Interests : Subscribe(c, n, topics)
         \/ Stream(c)
         \/ Unsubscribe(c)

Spec == Init /\ [][Next]_vars

(***************************************************************************)
(* The replication goroutine of a notification runs on, and a request that *)
(* is on its way is served.                                                *)
(***************************************************************************)
Fairness ==
    \A i \in Ids, p \in Nodes : WF_vars(Post(i, p)) /\ WF_vars(Replicate(i, p))

FairSpec == Spec /\ Fairness

----------------------------------------------------------------------------
(* Properties.                                                             *)

\* The set that finds duplicates agrees with the history, eviction after eviction: no
\* notification stays remembered after it left (it would leak, and a copy that arrives
\* late would vanish), none is forgotten while it is there, none is there twice.
\* (publishNotification.)
SeenIsHistory ==
    \A n \in Nodes :
        /\ seen[n] = Elems(history[n])
        /\ \A j, k \in DOMAIN history[n] : history[n][j] = history[n][k] => j = k

\* A hub only sends on open channels: a send on a closed one would panic with the lock of
\* the hub held.  (subscribe, unsubscribe and the loop of publishNotification.)
SendsOnOpen == \A n \in Nodes : registered[n] \subseteq open

Sent(c) == received[c] \o buffer[c]

\* A stream gets a notification once, whatever requests repeat it, unless the
\* notification left the history of the node in between.
OncePerStream ==
    \A n \in Nodes : \A c \in registered[n] :
        \A j, k \in DOMAIN Sent(c) :
            j # k /\ Sent(c)[j] = Sent(c)[k] => Sent(c)[j] \in evicted[n]

\* All the streams of a node get its notifications in the order of its history, whatever
\* a full channel drops.
StreamsInOrder ==
    \A n \in Nodes : \A c \in registered[n] :
        \A j, k \in DOMAIN Sent(c), x, y \in DOMAIN history[n] :
            /\ Sent(c)[j] = history[n][x] /\ Sent(c)[j] \notin evicted[n]
            /\ Sent(c)[k] = history[n][y] /\ Sent(c)[k] \notin evicted[n]
            /\ j < k
            => x < y

\* A published notification reaches every peer of the node that took it, unless the one
\* request for that peer failed or died with a process.  (replicateNotification.)
EveryPeerReached ==
    \A n \in Nodes, i \in Ids : \A p \in Peers[n] :
        origin[i] = {n} ~> <<i, p>> \in got \union lost

\* The histories of the hubs implement bounded logs of distinct notifications, although
\* what tells a new notification is another set than the history.
Log == INSTANCE BoundedLog WITH Entries <- Ids, Capacity <- HistoryMax, log <- history

HistoryIsBoundedLog == Log!Spec

=============================================================================
