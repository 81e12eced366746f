------------------------------ MODULE Cluster ------------------------------
(***************************************************************************)
(* Leader election, service registry and backend health of a Janus         *)
(* cluster: pkg/web/health_check.go, the health map it writes in           *)
(* pkg/proxy/balancer/rr.go and the heartbeat loop of the backends         *)
(* (user-, product- and order-service/discovery.go).                       *)
(*                                                                         *)
(* Every node runs one monitor goroutine (StartActiveHealthCheck) that     *)
(* probes its peers, elects the least node it heard, then either probes    *)
(* the registered backends (leader) or copies the registry of the leader   *)
(* (follower), and finally copies its registry into the health map of the  *)
(* balancer.  Every backend runs one goroutine (autoRegister) that         *)
(* registers with every node, one after the other, for ever.  The registry *)
(* and the health map have a lock each, so every read or write of one of   *)
(* them is a step, and an HTTP request is a step of its own between them.  *)
(***************************************************************************)
EXTENDS Integers, Sequences, FiniteSets

CONSTANTS
    Nodes,         \* node ids, as numbers in the order of sort.Strings
    Peers,         \* Peers[n]: the ids in JANUS_PEERS of node n
    Services,      \* backend URLs, as normalizeServiceURL leaves them
    RegistryURLs,  \* REGISTRY_URLS of a backend: the nodes it registers with, in order
    MaxFaults      \* bound on the crashes and failed requests of a behaviour

ASSUME NodesAssumption == Nodes \subseteq Nat
ASSUME PeersAssumption == Peers \in [Nodes -> SUBSET Nodes]
ASSUME RegistryAssumption == RegistryURLs \in Seq(Nodes) /\ RegistryURLs # <<>>
ASSUME FaultsAssumption == MaxFaults \in Nat

VARIABLES
    up,          \* up[n]: the Janus process of n runs
    leader,      \* leader[n]: leaderID at n
    alive,       \* alive[n]: aliveNodes at n
    registered,  \* registered[n]: keys of registeredNodes at n (the values are all true)
    known,       \* known[n]: keys of balancer.ActiveNodes at n
    marked,      \* marked[n]: the keys of balancer.ActiveNodes whose value is true
    pc,          \* pc[n]: where the monitor goroutine of n is
    toProbe,     \* toProbe[n]: peers that electLeader has still to probe
    heard,       \* heard[n]: peers that answered this election
    toCheck,     \* toCheck[n]: backends that checkRegisteredBackends has still to probe
    local,       \* local[n]: the services the monitor of n carries from one lock to the next
    serving,     \* serving[s]: the process of backend s runs
    hbPc,        \* hbPc[s]: where the registration of s in flight is
    hbAt,        \* hbAt[s]: index in RegistryURLs of the node s registers with
    hbSnap,      \* hbSnap[s]: services the register handler of s read from the registry
    faults,      \* faults so far
    suspect      \* backends that crashed, or had a probe fail while they ran, at some time

nodeVars == <<up, leader, alive>>
registryVars == <<registered>>
balancerVars == <<known, marked>>
monitorVars == <<pc, toProbe, heard, toCheck, local>>
heartbeatVars == <<hbPc, hbAt, hbSnap>>
faultVars == <<faults, suspect>>
vars == <<nodeVars, registryVars, balancerVars, monitorVars, serving, heartbeatVars, faultVars>>

\* Mutant of Least: the last of the sorted nodes.
Greatest(S) == CHOOSE n \in S : \A m \in S : m <= n

\* The node electLeader takes from the sorted list of the nodes it heard.
Least(S) == CHOOSE n \in S : \A m \in S : n <= m

\* A fault of the environment: a crash, or an HTTP request that fails although its server
\* runs (the timeout of 2 s, an error status, a process that does not listen yet).
Fault == faults < MaxFaults /\ faults' = faults + 1

MonitorPc == {"elect", "list", "check", "remove", "fetch", "replace",
              "resnapshot", "reapply", "snapshot", "apply"}

HeartbeatPc == {"post", "snapshot", "apply"}

TypeOK ==
    /\ up \in [Nodes -> BOOLEAN]
    /\ leader \in [Nodes -> Nodes]
    /\ alive \in [Nodes -> SUBSET Nodes]
    /\ registered \in [Nodes -> SUBSET Services]
    /\ known \in [Nodes -> SUBSET Services]
    /\ marked \in [Nodes -> SUBSET Services]
    /\ pc \in [Nodes -> MonitorPc]
    /\ toProbe \in [Nodes -> SUBSET Nodes]
    /\ heard \in [Nodes -> SUBSET Nodes]
    /\ toCheck \in [Nodes -> SUBSET Services]
    /\ local \in [Nodes -> SUBSET Services]
    /\ serving \in [Services -> BOOLEAN]
    /\ hbPc \in [Services -> HeartbeatPc]
    /\ hbAt \in [Services -> 1 .. Len(RegistryURLs)]
    /\ hbSnap \in [Services -> SUBSET Services]
    /\ faults \in 0 .. MaxFaults
    /\ suspect \in SUBSET Services

----------------------------------------------------------------------------
(* A node starts with itself as the leader and the only node alive, an     *)
(* empty registry and an empty health map.  A backend may be up already.   *)

Init ==
    /\ up = [n \in Nodes |-> TRUE]
    /\ leader = [n \in Nodes |-> n]
    /\ alive = [n \in Nodes |-> {n}]
    /\ registered = [n \in Nodes |-> {}]
    /\ known = [n \in Nodes |-> {}]
    /\ marked = [n \in Nodes |-> {}]
    /\ pc = [n \in Nodes |-> "elect"]
    /\ toProbe = Peers
    /\ heard = [n \in Nodes |-> {}]
    /\ toCheck = [n \in Nodes |-> {}]
    /\ local = [n \in Nodes |-> {}]
    /\ serving \in [Services -> BOOLEAN]
    /\ hbPc = [s \in Services |-> "post"]
    /\ hbAt = [s \in Services |-> 1]
    /\ hbSnap = [s \in Services |-> {}]
    /\ faults = 0
    /\ suspect = {}

----------------------------------------------------------------------------
(* electLeader: one GET /cluster/status per peer, in the order of a map    *)
(* range, then the least node heard becomes the leader.                    *)

ProbePeer(n, p) ==
    /\ pc[n] = "elect"
    /\ p \in toProbe[n]
    /\ toProbe' = [toProbe EXCEPT ![n] = @ \ {p}]
    /\ \/ /\ up[p]
          /\ heard' = [heard EXCEPT ![n] = @ \union {p}]
          /\ UNCHANGED faultVars
       \/ /\ ~up[p]
          /\ UNCHANGED <<heard, faultVars>>
       \/ /\ up[p]
          /\ Fault
          /\ UNCHANGED <<heard, suspect>>
    /\ UNCHANGED <<nodeVars, registryVars, balancerVars, pc, toCheck, local,
                   serving, heartbeatVars>>

\* Mutant of Role: every node copies the registry of its leader, itself included.
AlwaysFollower(n, elected) == "fetch"

\* What the monitor loop does after the election.
Role(n, elected) == IF elected = n THEN "list" ELSE "fetch"

ElectLeader(n) ==
    LET nodes == heard[n] \union {n} IN
    /\ pc[n] = "elect"
    /\ toProbe[n] = {}
    /\ leader' = [leader EXCEPT ![n] = Least(nodes)]
    /\ alive' = [alive EXCEPT ![n] = nodes]
    /\ heard' = [heard EXCEPT ![n] = {}]
    /\ pc' = [pc EXCEPT ![n] = Role(n, Least(nodes))]
    /\ UNCHANGED <<up, registryVars, balancerVars, toProbe, toCheck, local,
                   serving, heartbeatVars, faultVars>>

----------------------------------------------------------------------------
(* checkRegisteredBackends, on a leader: a copy of the registry is probed  *)
(* service by service, with no lock held; a service whose probe failed is  *)
(* then deleted if it is in the registry at that time.                     *)

ListBackends(n) ==
    /\ pc[n] = "list"
    /\ toCheck' = [toCheck EXCEPT ![n] = registered[n]]
    /\ pc' = [pc EXCEPT ![n] = "check"]
    /\ UNCHANGED <<nodeVars, registryVars, balancerVars, toProbe, heard, local,
                   serving, heartbeatVars, faultVars>>

CheckBackend(n, s) ==
    /\ pc[n] = "check"
    /\ s \in toCheck[n]
    /\ toCheck' = [toCheck EXCEPT ![n] = @ \ {s}]
    /\ \/ /\ serving[s]
          /\ UNCHANGED <<pc, local, faultVars>>
       \/ /\ ~serving[s]
          /\ pc' = [pc EXCEPT ![n] = "remove"]
          /\ local' = [local EXCEPT ![n] = {s}]
          /\ UNCHANGED faultVars
       \/ /\ serving[s]
          /\ Fault
          /\ suspect' = suspect \union {s}
          /\ pc' = [pc EXCEPT ![n] = "remove"]
          /\ local' = [local EXCEPT ![n] = {s}]
    /\ UNCHANGED <<nodeVars, registryVars, balancerVars, toProbe, heard,
                   serving, heartbeatVars>>

RemoveBackend(n) ==
    /\ pc[n] = "remove"
    /\ registered' = [registered EXCEPT ![n] = @ \ local[n]]
    /\ local' = [local EXCEPT ![n] = {}]
    /\ pc' = [pc EXCEPT ![n] = "check"]
    /\ UNCHANGED <<nodeVars, balancerVars, toProbe, heard, toCheck,
                   serving, heartbeatVars, faultVars>>

----------------------------------------------------------------------------
(* syncFromLeader, on a follower: GET /api/services of the leader, then    *)
(* setActiveServices replaces the registry by the answer.  Any failure     *)
(* leaves the registry as it is.                                           *)

FetchServices(n) ==
    /\ pc[n] = "fetch"
    /\ \/ /\ up[leader[n]]
          /\ local' = [local EXCEPT ![n] = registered[leader[n]]]
          /\ pc' = [pc EXCEPT ![n] = "replace"]
          /\ UNCHANGED faultVars
       \/ /\ ~up[leader[n]]
          /\ pc' = [pc EXCEPT ![n] = "snapshot"]
          /\ UNCHANGED <<local, faultVars>>
       \/ /\ up[leader[n]]
          /\ Fault
          /\ pc' = [pc EXCEPT ![n] = "snapshot"]
          /\ UNCHANGED <<local, suspect>>
    /\ UNCHANGED <<nodeVars, registryVars, balancerVars, toProbe, heard, toCheck,
                   serving, heartbeatVars>>

ReplaceRegistry(n) ==
    /\ pc[n] = "replace"
    /\ registered' = [registered EXCEPT ![n] = local[n]]
    /\ local' = [local EXCEPT ![n] = {}]
    /\ pc' = [pc EXCEPT ![n] = "resnapshot"]
    /\ UNCHANGED <<nodeVars, balancerVars, toProbe, heard, toCheck,
                   serving, heartbeatVars, faultVars>>

----------------------------------------------------------------------------
(* syncBalancerHealth: read the registry under its lock, then write the    *)
(* health map under the lock of the balancer.  Every known key becomes     *)
(* false, then the services of the copy become true: a key is never        *)
(* deleted.  The monitor calls it at the end of setActiveServices          *)
(* ("resnapshot", "reapply") and at the end of its loop ("snapshot",       *)
(* "apply").  The last backend checked ends checkRegisteredBackends.       *)

\* Mutants of MarkActive: keys of removed services are deleted; keys are never turned
\* back to false; an empty registry is taken for "all up".
MarkActiveRebuilding(n, active) ==
    /\ known' = [known EXCEPT ![n] = active]
    /\ marked' = [marked EXCEPT ![n] = active]

MarkActiveOnly(n, active) ==
    /\ known' = [known EXCEPT ![n] = @ \union active]
    /\ marked' = [marked EXCEPT ![n] = @ \union active]

MarkActiveFailOpen(n, active) ==
    /\ known' = [known EXCEPT ![n] = @ \union active]
    /\ marked' = [marked EXCEPT ![n] = IF active = {} THEN Services ELSE active]

MarkActive(n, active) ==
    /\ known' = [known EXCEPT ![n] = @ \union active]
    /\ marked' = [marked EXCEPT ![n] = active]

ReadRegistry(n) ==
    /\ \/ pc[n] \in {"snapshot", "resnapshot"}
       \/ pc[n] = "check" /\ toCheck[n] = {}
    /\ local' = [local EXCEPT ![n] = registered[n]]
    /\ pc' = [pc EXCEPT ![n] = IF @ = "resnapshot" THEN "reapply" ELSE "apply"]
    /\ UNCHANGED <<nodeVars, registryVars, balancerVars, toProbe, heard, toCheck,
                   serving, heartbeatVars, faultVars>>

SyncBalancer(n) ==
    /\ pc[n] \in {"reapply", "apply"}
    /\ MarkActive(n, local[n])
    /\ local' = [local EXCEPT ![n] = {}]
    /\ IF pc[n] = "reapply"
       THEN /\ pc' = [pc EXCEPT ![n] = "snapshot"]
            /\ UNCHANGED toProbe
       ELSE /\ pc' = [pc EXCEPT ![n] = "elect"]
            /\ toProbe' = [toProbe EXCEPT ![n] = Peers[n]]
    /\ UNCHANGED <<nodeVars, registryVars, heard, toCheck,
                   serving, heartbeatVars, faultVars>>

----------------------------------------------------------------------------
(* autoRegister and RegisterServiceHandler: a backend posts to one node    *)
(* after the other and waits for each answer.  The handler adds the        *)
(* service to the registry and then runs syncBalancerHealth.               *)

Target(s) == RegistryURLs[hbAt[s]]

\* Mutant of NextURL: the loop over REGISTRY_URLS does not begin again.
NextURLNoWrap(s) == hbAt' = [hbAt EXCEPT ![s] = @ + 1]

NextURL(s) == hbAt' = [hbAt EXCEPT ![s] = (@ % Len(RegistryURLs)) + 1]

Register(s) ==
    /\ hbPc[s] = "post"
    /\ serving[s]
    /\ \/ /\ up[Target(s)]
          /\ registered' = [registered EXCEPT ![Target(s)] = @ \union {s}]
          /\ hbPc' = [hbPc EXCEPT ![s] = "snapshot"]
          /\ UNCHANGED <<hbAt, faultVars>>
       \/ /\ ~up[Target(s)]
          /\ NextURL(s)
          /\ UNCHANGED <<registered, hbPc, faultVars>>
       \/ /\ up[Target(s)]
          /\ Fault
          /\ NextURL(s)
          /\ UNCHANGED <<registered, hbPc, suspect>>
    /\ UNCHANGED <<nodeVars, balancerVars, monitorVars, serving, hbSnap>>

RegisterReadRegistry(s) ==
    /\ hbPc[s] = "snapshot"
    /\ hbSnap' = [hbSnap EXCEPT ![s] = registered[Target(s)]]
    /\ hbPc' = [hbPc EXCEPT ![s] = "apply"]
    /\ UNCHANGED <<nodeVars, registryVars, balancerVars, monitorVars, serving,
                   hbAt, faultVars>>

RegisterSyncBalancer(s) ==
    /\ hbPc[s] = "apply"
    /\ MarkActive(Target(s), hbSnap[s])
    /\ hbSnap' = [hbSnap EXCEPT ![s] = {}]
    /\ hbPc' = [hbPc EXCEPT ![s] = "post"]
    /\ NextURL(s)
    /\ UNCHANGED <<nodeVars, registryVars, monitorVars, serving, faultVars>>

----------------------------------------------------------------------------
(* Crashes.  All the state of a node is in memory: a crash of the process  *)
(* (ClusterCrashHandler, or the memory limit ClusterStressHandler runs     *)
(* into) loses it, with the register handlers it was running, and a        *)
(* restart begins with the values of the package variables.  The handler   *)
(* of a backend that crashed runs to its end before the backend is back.   *)

Crash(n) ==
    LET lost == {s \in Services : hbPc[s] # "post" /\ Target(s) = n} IN
    /\ up[n]
    /\ Fault
    /\ up' = [up EXCEPT ![n] = FALSE]
    /\ leader' = [leader EXCEPT ![n] = n]
    /\ alive' = [alive EXCEPT ![n] = {n}]
    /\ registered' = [registered EXCEPT ![n] = {}]
    /\ known' = [known EXCEPT ![n] = {}]
    /\ marked' = [marked EXCEPT ![n] = {}]
    /\ pc' = [pc EXCEPT ![n] = "elect"]
    /\ toProbe' = [toProbe EXCEPT ![n] = Peers[n]]
    /\ heard' = [heard EXCEPT ![n] = {}]
    /\ toCheck' = [toCheck EXCEPT ![n] = {}]
    /\ local' = [local EXCEPT ![n] = {}]
    /\ hbPc' = [s \in Services |-> IF s \in lost THEN "post" ELSE hbPc[s]]
    /\ hbSnap' = [s \in Services |-> IF s \in lost THEN {} ELSE hbSnap[s]]
    /\ hbAt' = [s \in Services |->
                  IF s \in lost THEN (hbAt[s] % Len(RegistryURLs)) + 1 ELSE hbAt[s]]
    /\ UNCHANGED <<serving, suspect>>

Restart(n) ==
    /\ ~up[n]
    /\ up' = [up EXCEPT ![n] = TRUE]
    /\ UNCHANGED <<leader, alive, registryVars, balancerVars, monitorVars, serving,
                   heartbeatVars, faultVars>>

BackendCrash(s) ==
    /\ serving[s]
    /\ Fault
    /\ serving' = [serving EXCEPT ![s] = FALSE]
    /\ suspect' = suspect \union {s}
    /\ UNCHANGED <<nodeVars, registryVars, balancerVars, monitorVars, heartbeatVars>>

BackendStart(s) ==
    /\ ~serving[s]
    /\ hbPc[s] = "post"
    /\ serving' = [serving EXCEPT ![s] = TRUE]
    /\ hbAt' = [hbAt EXCEPT ![s] = 1]
    /\ UNCHANGED <<nodeVars, registryVars, balancerVars, monitorVars, hbPc, hbSnap,
                   faultVars>>

----------------------------------------------------------------------------

Monitor(n) ==
    /\ up[n]
    /\ \/ \E p \in Nodes : ProbePeer(n, p)
       \/ ElectLeader(n)
       \/ ListBackends(n)
       \/ \E s \in Services : CheckBackend(n, s)
       \/ RemoveBackend(n)
       \/ FetchServices(n)
       \/ ReplaceRegistry(n)
       \/ ReadRegistry(n)
       \/ SyncBalancer(n)

Heartbeat(s) ==
    \/ Register(s)
    \/ RegisterReadRegistry(s)
    \/ RegisterSyncBalancer(s)

Next ==
    \/ \E n \in Nodes : Monitor(n) \/ Crash(n) \/ Restart(n)
    \/ \E s \in Services : Heartbeat(s) \/ BackendCrash(s) \/ BackendStart(s)

Spec == Init /\ [][Next]_vars

(***************************************************************************)
(* The monitor loop and the heartbeat loop never end while their process   *)
(* runs, and nothing in them blocks for ever: each takes its next step.    *)
(* Crashes, timeouts and restarts are not fair: they may stop at any time. *)
(***************************************************************************)
Fairness ==
    /\ \A n \in Nodes : WF_vars(Monitor(n))
    /\ \A s \in Services : WF_vars(Heartbeat(s))

FairSpec == Spec /\ Fairness

----------------------------------------------------------------------------
(* Properties.                                                             *)

\* A node that leads itself drops the registration of a backend only if that backend
\* crashed or had a probe time out: neither the probe round on a stale copy of the
\* registry nor a concurrent heartbeat may cost a healthy backend its place.
\* (checkRegisteredBackends; a follower does lose registrations, in setActiveServices.)
HealthyKept ==
    [][\A n \in Nodes, s \in Services :
         /\ s \in registered[n] \ registered'[n]
         /\ leader[n] = n
         /\ up'[n]
         => s \in suspect']_vars

\* A balancer sends requests only to a backend that announced itself: what it holds UP,
\* through whatever chain of registries and copies it came, either serves or has failed
\* since.  (RegisterServiceHandler, syncFromLeader, syncBalancerHealth.)
AnnouncedFirst ==
    \A n \in Nodes : \A s \in marked[n] : serving[s] \/ s \in suspect

\* A running node never goes back to an empty health map, which isTargetAlive reads as
\* "every target is alive": removing backends turns keys to false, it deletes none.
HealthMapNeverShrinks ==
    [][\A n \in Nodes : up'[n] => known[n] \subseteq known'[n]]_vars

\* Once crashes and timeouts end, every running node follows the least running node,
\* for ever: the split brain of the start, of a restart or of a lost probe heals.
LeaderConverges ==
    <>[](\A n, m \in Nodes : up[n] /\ up[m] => up[leader[n]] /\ leader[n] <= m)

\* Once crashes and timeouts end, every running balancer holds UP exactly the backends
\* that serve, for ever: a removed registration comes back with a heartbeat, a stale copy
\* is overwritten, and no node hands a dead backend back to the one that removed it.
BalancerConverges ==
    <>[](\A n \in Nodes : up[n] => marked[n] = {s \in Services : serving[s]})

=============================================================================
