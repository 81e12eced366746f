--------------------------- MODULE ClusterProofs ---------------------------
(***************************************************************************)
(* Proofs about Cluster for every set of nodes, every set of peers, every  *)
(* set of backends and every number of faults.                             *)
(***************************************************************************)
EXTENDS Cluster, NaturalsInduction, WellFoundedInduction, TLAPS

----------------------------------------------------------------------------
(* Lemmas about the operators.                                             *)

\* The sorted list of electLeader has a first element, and it is one of the nodes heard.
LEMMA LeastInSet ==
  ASSUME NEW S \in SUBSET Nodes, S # {}
  PROVE  Least(S) \in S /\ \A m \in S : Least(S) <= m
<1>1. S \subseteq Nat
  BY NodesAssumption
<1>2. PICK n \in S : \A m \in S : ~(<<m, n>> \in OpToRel(<, Nat))
  BY <1>1, NatLessThanWellFounded, WFMin, Zenon
<1>3. \A m \in S : ~(m < n)
  BY <1>1, <1>2, Zenon DEF OpToRel
<1>4. \A m \in S : n <= m
  BY <1>1, <1>3
<1> QED
  BY <1>4 DEF Least

\* The next URL of autoRegister is a position of the list.
LEMMA NextIndex ==
  ASSUME NEW i \in 1 .. Len(RegistryURLs)
  PROVE  (i % Len(RegistryURLs)) + 1 \in 1 .. Len(RegistryURLs)
<1>1. Len(RegistryURLs) \in Nat \ {0}
  BY RegistryAssumption
<1> QED
  BY <1>1

\* A backend registers with a node.
LEMMA TargetIsNode ==
  ASSUME TypeOK, NEW s \in Services
  PROVE  Target(s) \in Nodes
BY RegistryAssumption DEF TypeOK, Target

----------------------------------------------------------------------------
(* Type correctness.                                                       *)

LEMMA InitType == Init => TypeOK
BY PeersAssumption, RegistryAssumption, FaultsAssumption
   DEF Init, TypeOK, MonitorPc, HeartbeatPc

LEMMA NextType == TypeOK /\ [Next]_vars => TypeOK'
<1> SUFFICES ASSUME TypeOK, [Next]_vars PROVE TypeOK'
  OBVIOUS
<1> USE FaultsAssumption
    DEF MonitorPc, HeartbeatPc, nodeVars, registryVars, balancerVars,
        monitorVars, heartbeatVars, faultVars, Fault
<1>1. ASSUME NEW n \in Nodes, NEW p \in Nodes, ProbePeer(n, p) PROVE TypeOK'
  <2>1. toProbe' \in [Nodes -> SUBSET Nodes] /\ heard' \in [Nodes -> SUBSET Nodes]
    BY <1>1 DEF TypeOK, ProbePeer
  <2>2. faults' \in 0 .. MaxFaults /\ suspect' = suspect
    BY <1>1 DEF TypeOK, ProbePeer
  <2> QED
    BY <1>1, <2>1, <2>2 DEF TypeOK, ProbePeer
<1>2. ASSUME NEW n \in Nodes, ElectLeader(n) PROVE TypeOK'
  <2>1. heard[n] \union {n} \in SUBSET Nodes
    BY DEF TypeOK
  <2>2. Least(heard[n] \union {n}) \in Nodes
    BY <2>1, LeastInSet
  <2> QED
    BY <1>2, <2>1, <2>2 DEF TypeOK, ElectLeader, Role
<1>3. ASSUME NEW n \in Nodes, ListBackends(n) PROVE TypeOK'
  BY <1>3 DEF TypeOK, ListBackends
<1>4. ASSUME NEW n \in Nodes, NEW s \in Services, CheckBackend(n, s) PROVE TypeOK'
  <2>1. pc \in [Nodes -> MonitorPc] /\ local \in [Nodes -> SUBSET Services]
    BY DEF TypeOK
  <2>2. /\ pc' = pc \/ pc' = [pc EXCEPT ![n] = "remove"]
        /\ local' = local \/ local' = [local EXCEPT ![n] = {s}]
    BY <1>4 DEF TypeOK, CheckBackend
  <2>3. pc' \in [Nodes -> MonitorPc] /\ local' \in [Nodes -> SUBSET Services]
    BY <2>2, <2>1
  <2>4. faults' \in 0 .. MaxFaults /\ suspect' \in SUBSET Services
    BY <1>4 DEF TypeOK, CheckBackend
  <2> QED
    BY <1>4, <2>3, <2>4 DEF TypeOK, CheckBackend
<1>5. ASSUME NEW n \in Nodes, RemoveBackend(n) PROVE TypeOK'
  BY <1>5 DEF TypeOK, RemoveBackend
<1>6. ASSUME NEW n \in Nodes, FetchServices(n) PROVE TypeOK'
  <2>1. /\ pc \in [Nodes -> MonitorPc] /\ local \in [Nodes -> SUBSET Services]
        /\ registered[leader[n]] \in SUBSET Services
    BY DEF TypeOK
  <2>2. /\ \/ pc' = [pc EXCEPT ![n] = "replace"]
           \/ pc' = [pc EXCEPT ![n] = "snapshot"]
        /\ local' = local \/ local' = [local EXCEPT ![n] = registered[leader[n]]]
    BY <1>6 DEF TypeOK, FetchServices
  <2>3. pc' \in [Nodes -> MonitorPc] /\ local' \in [Nodes -> SUBSET Services]
    BY <2>2, <2>1
  <2>4. faults' \in 0 .. MaxFaults /\ suspect' = suspect
    BY <1>6 DEF TypeOK, FetchServices
  <2> QED
    BY <1>6, <2>3, <2>4 DEF TypeOK, FetchServices
<1>7. ASSUME NEW n \in Nodes, ReplaceRegistry(n) PROVE TypeOK'
  BY <1>7 DEF TypeOK, ReplaceRegistry
<1>8. ASSUME NEW n \in Nodes, ReadRegistry(n) PROVE TypeOK'
  BY <1>8 DEF TypeOK, ReadRegistry
<1>9. ASSUME NEW n \in Nodes, SyncBalancer(n) PROVE TypeOK'
  <2>1. pc \in [Nodes -> MonitorPc] /\ toProbe \in [Nodes -> SUBSET Nodes]
    BY DEF TypeOK
  <2>2. /\ \/ pc' = [pc EXCEPT ![n] = "snapshot"]
           \/ pc' = [pc EXCEPT ![n] = "elect"]
        /\ toProbe' = toProbe \/ toProbe' = [toProbe EXCEPT ![n] = Peers[n]]
    BY <1>9 DEF TypeOK, SyncBalancer
  <2>3. pc' \in [Nodes -> MonitorPc] /\ toProbe' \in [Nodes -> SUBSET Nodes]
    BY <2>2, <2>1, PeersAssumption
  <2> QED
    BY <1>9, <2>3 DEF TypeOK, SyncBalancer, MarkActive
<1>10. ASSUME NEW s \in Services, Register(s) PROVE TypeOK'
  <2>1. /\ hbAt \in [Services -> 1 .. Len(RegistryURLs)]
        /\ hbPc \in [Services -> HeartbeatPc]
        /\ registered \in [Nodes -> SUBSET Services]
    BY DEF TypeOK
  <2>2. /\ \/ hbAt' = hbAt
           \/ hbAt' = [hbAt EXCEPT ![s] = (hbAt[s] % Len(RegistryURLs)) + 1]
        /\ hbPc' = hbPc \/ hbPc' = [hbPc EXCEPT ![s] = "snapshot"]
        /\ \/ registered' = registered
           \/ registered' = [registered EXCEPT ![Target(s)] =
                                registered[Target(s)] \union {s}]
    BY <1>10, TargetIsNode DEF TypeOK, Register, NextURL
  <2>3. hbAt' \in [Services -> 1 .. Len(RegistryURLs)]
    <3>1. (hbAt[s] % Len(RegistryURLs)) + 1 \in 1 .. Len(RegistryURLs)
      BY <2>1, NextIndex
    <3> QED
      BY <2>1, <2>2, <3>1
  <2>4. hbPc' \in [Services -> HeartbeatPc] /\ registered' \in [Nodes -> SUBSET Services]
    BY <2>2, <2>1, TargetIsNode
  <2>5. faults' \in 0 .. MaxFaults /\ suspect' = suspect
    BY <1>10 DEF TypeOK, Register
  <2> QED
    BY <1>10, <2>3, <2>4, <2>5 DEF TypeOK, Register
<1>11. ASSUME NEW s \in Services, RegisterReadRegistry(s) PROVE TypeOK'
  BY <1>11, TargetIsNode DEF TypeOK, RegisterReadRegistry
<1>12. ASSUME NEW s \in Services, RegisterSyncBalancer(s) PROVE TypeOK'
  BY <1>12, TargetIsNode, NextIndex DEF TypeOK, RegisterSyncBalancer, MarkActive, NextURL
<1>13. ASSUME NEW n \in Nodes, Crash(n) PROVE TypeOK'
  <2>1. hbAt' \in [Services -> 1 .. Len(RegistryURLs)]
    <3>1. \A s \in Services : hbAt[s] \in 1 .. Len(RegistryURLs)
      BY DEF TypeOK
    <3>2. \A s \in Services :
            (hbAt[s] % Len(RegistryURLs)) + 1 \in 1 .. Len(RegistryURLs)
      BY <3>1, NextIndex
    <3>3. PICK lost : hbAt' = [s \in Services |->
            IF s \in lost THEN (hbAt[s] % Len(RegistryURLs)) + 1 ELSE hbAt[s]]
      BY <1>13 DEF Crash
    <3> QED
      BY <3>1, <3>2, <3>3
  <2>2. hbPc' \in [Services -> HeartbeatPc] /\ hbSnap' \in [Services -> SUBSET Services]
    BY <1>13 DEF TypeOK, Crash
  <2>3. toProbe' \in [Nodes -> SUBSET Nodes]
    BY <1>13, PeersAssumption DEF TypeOK, Crash
  <2> QED
    BY <1>13, <2>1, <2>2, <2>3 DEF TypeOK, Crash
<1>14. ASSUME NEW n \in Nodes, Restart(n) PROVE TypeOK'
  BY <1>14 DEF TypeOK, Restart
<1>15. ASSUME NEW s \in Services, BackendCrash(s) PROVE TypeOK'
  BY <1>15 DEF TypeOK, BackendCrash
<1>16. ASSUME NEW s \in Services, BackendStart(s) PROVE TypeOK'
  BY <1>16, RegistryAssumption DEF TypeOK, BackendStart
<1>17. CASE UNCHANGED vars
  BY <1>17 DEF TypeOK, vars
<1> QED
  BY <1>1, <1>2, <1>3, <1>4, <1>5, <1>6, <1>7, <1>8, <1>9, <1>10, <1>11, <1>12,
     <1>13, <1>14, <1>15, <1>16, <1>17
  DEF Next, Monitor, Heartbeat

\* Every variable keeps its type: the election always finds a leader among the nodes it
\* heard, and the heartbeat loop never leaves its list of URLs.
THEOREM TypeCorrect == Spec => []TypeOK
BY InitType, NextType, PTL DEF Spec


----------------------------------------------------------------------------
(* The inductive invariant.  AnnouncedFirst is not inductive: what a       *)
(* balancer holds UP came through the registry of some node, the copy of a *)
(* monitor or the copy of a register handler, so each of these must hold   *)
(* announced backends only.  HealthyKept needs that a monitor deletes only *)
(* on its own leadership, and only a backend that failed its probe.        *)

\* The backends that serve, or failed after they served.
Announced == {s \in Services : serving[s] \/ s \in suspect}

RegistriesAnnounced == \A n \in Nodes : registered[n] \subseteq Announced

MarkedAnnounced == \A n \in Nodes : marked[n] \subseteq Announced

CopiesAnnounced ==
    /\ \A n \in Nodes : local[n] \subseteq Announced /\ toCheck[n] \subseteq Announced
    /\ \A s \in Services : hbSnap[s] \subseteq Announced

RoleMatchesLeader ==
    \A n \in Nodes :
        /\ pc[n] \in {"list", "check", "remove"} => leader[n] = n
        /\ pc[n] \in {"fetch", "replace"} => leader[n] # n

RemovesSuspects ==
    \A n \in Nodes : pc[n] = "remove" => local[n] \subseteq suspect

IInv ==
    /\ TypeOK
    /\ RegistriesAnnounced
    /\ MarkedAnnounced
    /\ CopiesAnnounced
    /\ RoleMatchesLeader
    /\ RemovesSuspects

LEMMA InitInv == Init => IInv
BY InitType
   DEF Init, IInv, RegistriesAnnounced, MarkedAnnounced, CopiesAnnounced,
       RoleMatchesLeader, RemovesSuspects

\* A backend that announced itself stays announced: BackendCrash makes it a suspect.
LEMMA AnnouncedGrows ==
  TypeOK /\ [Next]_vars => Announced \subseteq Announced' /\ suspect \subseteq suspect'
<1> SUFFICES ASSUME TypeOK, [Next]_vars
             PROVE  Announced \subseteq Announced' /\ suspect \subseteq suspect'
  OBVIOUS
<1> USE DEF faultVars, Announced
<1>1. ASSUME serving' = serving, suspect \subseteq suspect'
      PROVE  Announced \subseteq Announced' /\ suspect \subseteq suspect'
  BY <1>1
<1>2. ASSUME NEW n \in Nodes, Monitor(n)
      PROVE  serving' = serving /\ suspect \subseteq suspect'
  BY <1>2 DEF Monitor, ProbePeer, ElectLeader, ListBackends, CheckBackend, RemoveBackend,
              FetchServices, ReplaceRegistry, ReadRegistry, SyncBalancer
<1>3. ASSUME NEW n \in Nodes, Crash(n) \/ Restart(n)
      PROVE  serving' = serving /\ suspect \subseteq suspect'
  BY <1>3 DEF Crash, Restart
<1>4. ASSUME NEW s \in Services, Heartbeat(s)
      PROVE  serving' = serving /\ suspect \subseteq suspect'
  BY <1>4 DEF Heartbeat, Register, RegisterReadRegistry, RegisterSyncBalancer
<1>5. ASSUME NEW s \in Services, BackendCrash(s) \/ BackendStart(s)
      PROVE  Announced \subseteq Announced' /\ suspect \subseteq suspect'
  BY <1>5 DEF TypeOK, BackendCrash, BackendStart
<1>6. CASE UNCHANGED vars
  BY <1>6 DEF vars
<1> QED
  BY <1>1, <1>2, <1>3, <1>4, <1>5, <1>6 DEF Next

\* The monitor acts as a leader only while it leads itself: only ElectLeader writes the
\* leader, at a place of the loop where neither role is in progress.
LEMMA NextRole ==
  TypeOK /\ RoleMatchesLeader /\ [Next]_vars => RoleMatchesLeader'
<1> SUFFICES ASSUME TypeOK, RoleMatchesLeader, [Next]_vars PROVE RoleMatchesLeader'
  OBVIOUS
<1> USE DEF RoleMatchesLeader, monitorVars, nodeVars
<1>1. CASE pc' = pc /\ leader' = leader
  BY <1>1
<1>2. ASSUME NEW n \in Nodes, ElectLeader(n) PROVE RoleMatchesLeader'
  BY <1>2 DEF TypeOK, ElectLeader, Role
<1>3. ASSUME NEW n \in Nodes, ListBackends(n) \/ RemoveBackend(n) PROVE RoleMatchesLeader'
  BY <1>3 DEF TypeOK, ListBackends, RemoveBackend
<1>4. ASSUME NEW n \in Nodes, NEW s \in Services, CheckBackend(n, s)
      PROVE  RoleMatchesLeader'
  <2>1. pc' = pc \/ pc' = [pc EXCEPT ![n] = "remove"]
    BY <1>4 DEF CheckBackend
  <2>2. leader' = leader /\ pc[n] = "check"
    BY <1>4 DEF CheckBackend
  <2> QED
    BY <2>1, <2>2 DEF TypeOK
<1>5. ASSUME NEW n \in Nodes, FetchServices(n) \/ ReplaceRegistry(n)
      PROVE  RoleMatchesLeader'
  BY <1>5 DEF TypeOK, FetchServices, ReplaceRegistry
<1>6. ASSUME NEW n \in Nodes, ReadRegistry(n) \/ SyncBalancer(n) PROVE RoleMatchesLeader'
  BY <1>6 DEF TypeOK, ReadRegistry, SyncBalancer
<1>7. ASSUME NEW n \in Nodes, Crash(n) PROVE RoleMatchesLeader'
  BY <1>7 DEF TypeOK, Crash
<1>8. ASSUME NEW n \in Nodes, Restart(n) \/ \E p \in Nodes : ProbePeer(n, p)
      PROVE  pc' = pc /\ leader' = leader
  BY <1>8 DEF Restart, ProbePeer
<1>9. ASSUME NEW s \in Services, Heartbeat(s) \/ BackendCrash(s) \/ BackendStart(s)
      PROVE  pc' = pc /\ leader' = leader
  BY <1>9 DEF Heartbeat, Register, RegisterReadRegistry, RegisterSyncBalancer,
              BackendCrash, BackendStart
<1>10. CASE UNCHANGED vars
  BY <1>10 DEF vars
<1> QED
  BY <1>1, <1>2, <1>3, <1>4, <1>5, <1>6, <1>7, <1>8, <1>9, <1>10 DEF Next, Monitor

\* Registries, health maps and the copies between them pass announced backends on.
LEMMA NextAnnounced ==
  IInv /\ [Next]_vars => RegistriesAnnounced' /\ MarkedAnnounced' /\ CopiesAnnounced'
<1> SUFFICES ASSUME IInv, [Next]_vars
             PROVE  RegistriesAnnounced' /\ MarkedAnnounced' /\ CopiesAnnounced'
  OBVIOUS
<1> DEFINE A == Announced
<1> DEFINE Kept ==
      /\ \A n \in Nodes : /\ registered'[n] \subseteq A'
                          /\ marked'[n] \subseteq A'
                          /\ local'[n] \subseteq A'
                          /\ toCheck'[n] \subseteq A'
      /\ \A s \in Services : hbSnap'[s] \subseteq A'
<1> SUFFICES Kept
  BY DEF RegistriesAnnounced, MarkedAnnounced, CopiesAnnounced
<1>1. A \subseteq A'
  BY AnnouncedGrows DEF IInv
<1>2. /\ \A n \in Nodes : /\ registered[n] \subseteq A
                          /\ marked[n] \subseteq A
                          /\ local[n] \subseteq A
                          /\ toCheck[n] \subseteq A
      /\ \A s \in Services : hbSnap[s] \subseteq A
  BY DEF IInv, RegistriesAnnounced, MarkedAnnounced, CopiesAnnounced
<1>3. TypeOK
  BY DEF IInv
<1>4. {s \in Services : serving[s]} \subseteq A
  BY DEF Announced
<1> HIDE DEF A
<1> USE <1>1, <1>2 DEF nodeVars, registryVars, balancerVars, monitorVars, heartbeatVars
<1>5. CASE UNCHANGED <<registered, marked, local, toCheck, hbSnap>>
  BY <1>5
<1>6. ASSUME NEW n \in Nodes, ListBackends(n) PROVE Kept
  BY <1>3, <1>6 DEF TypeOK, ListBackends
<1>7. ASSUME NEW n \in Nodes, NEW s \in Services, CheckBackend(n, s) PROVE Kept
  BY <1>3, <1>7 DEF TypeOK, CheckBackend
<1>8. ASSUME NEW n \in Nodes, RemoveBackend(n) PROVE Kept
  BY <1>3, <1>8 DEF TypeOK, RemoveBackend
<1>9. ASSUME NEW n \in Nodes, FetchServices(n) PROVE Kept
  BY <1>3, <1>9 DEF TypeOK, FetchServices
<1>10. ASSUME NEW n \in Nodes, ReplaceRegistry(n) PROVE Kept
  BY <1>3, <1>10 DEF TypeOK, ReplaceRegistry
<1>11. ASSUME NEW n \in Nodes, ReadRegistry(n) PROVE Kept
  BY <1>3, <1>11 DEF TypeOK, ReadRegistry
<1>12. ASSUME NEW n \in Nodes, SyncBalancer(n) PROVE Kept
  BY <1>3, <1>12 DEF TypeOK, SyncBalancer, MarkActive
<1>13. ASSUME NEW s \in Services, Register(s) PROVE Kept
  <2>1. UNCHANGED <<marked, local, toCheck, hbSnap>>
    BY <1>13 DEF Register
  <2>2. \/ registered' = registered
        \/ registered' = [registered EXCEPT ![Target(s)] =
                             registered[Target(s)] \union {s}]
    BY <1>13 DEF Register
  <2>3. s \in A
    BY <1>4, <1>13 DEF Register
  <2>4. registered \in [Nodes -> SUBSET Services] /\ Target(s) \in Nodes
    BY <1>3, TargetIsNode DEF TypeOK
  <2> QED
    BY <2>1, <2>2, <2>3, <2>4
<1>14. ASSUME NEW s \in Services, RegisterReadRegistry(s) PROVE Kept
  BY <1>3, <1>14, TargetIsNode DEF TypeOK, RegisterReadRegistry
<1>15. ASSUME NEW s \in Services, RegisterSyncBalancer(s) PROVE Kept
  BY <1>3, <1>15, TargetIsNode DEF TypeOK, RegisterSyncBalancer, MarkActive
<1>16. ASSUME NEW n \in Nodes, Crash(n) PROVE Kept
  BY <1>3, <1>16 DEF TypeOK, Crash
<1>17. ASSUME NEW n \in Nodes,
              ElectLeader(n) \/ Restart(n) \/ \E p \in Nodes : ProbePeer(n, p)
      PROVE  UNCHANGED <<registered, marked, local, toCheck, hbSnap>>
  BY <1>17 DEF ElectLeader, Restart, ProbePeer
<1>18. ASSUME NEW s \in Services, BackendCrash(s) \/ BackendStart(s)
      PROVE  UNCHANGED <<registered, marked, local, toCheck, hbSnap>>
  BY <1>18 DEF BackendCrash, BackendStart
<1>19. CASE UNCHANGED vars
  BY <1>19 DEF vars
<1> QED
  BY <1>5, <1>6, <1>7, <1>8, <1>9, <1>10, <1>11, <1>12, <1>13, <1>14, <1>15, <1>16,
     <1>17, <1>18, <1>19 DEF Next, Monitor, Heartbeat

\* The monitor is about to delete a backend: its probe failed, so it is a suspect.
LEMMA NextSuspects ==
  IInv /\ [Next]_vars => RemovesSuspects'
<1> SUFFICES ASSUME IInv, [Next]_vars PROVE RemovesSuspects'
  OBVIOUS
<1>1. TypeOK /\ RemovesSuspects
  BY DEF IInv
<1>2. suspect \subseteq suspect'
  BY AnnouncedGrows DEF IInv
<1> USE <1>1, <1>2 DEF RemovesSuspects, monitorVars
<1>3. CASE pc' = pc /\ local' = local
  BY <1>3
<1>4. ASSUME NEW n \in Nodes, ElectLeader(n) PROVE RemovesSuspects'
  BY <1>4 DEF TypeOK, ElectLeader, Role
<1>5. ASSUME NEW n \in Nodes, ListBackends(n) \/ RemoveBackend(n) PROVE RemovesSuspects'
  BY <1>5 DEF TypeOK, ListBackends, RemoveBackend
<1>6. ASSUME NEW n \in Nodes, NEW s \in Services, CheckBackend(n, s)
      PROVE  RemovesSuspects'
  <2>1. \/ pc' = pc /\ local' = local
        \/ local' = [local EXCEPT ![n] = {s}] /\ pc' = [pc EXCEPT ![n] = "remove"]
           /\ (~serving[s] \/ s \in suspect')
    BY <1>6 DEF CheckBackend
  <2>2. s \in Announced
    BY <1>6 DEF IInv, CopiesAnnounced, CheckBackend
  <2>3. serving[s] \/ s \in suspect
    BY <2>2 DEF Announced
  <2>4. CASE local' = [local EXCEPT ![n] = {s}] /\ pc' = [pc EXCEPT ![n] = "remove"]
             /\ s \in suspect'
    BY <2>4 DEF TypeOK
  <2> QED
    BY <1>3, <2>1, <2>3, <2>4
<1>7. ASSUME NEW n \in Nodes, FetchServices(n) \/ ReplaceRegistry(n)
      PROVE  RemovesSuspects'
  BY <1>7 DEF TypeOK, FetchServices, ReplaceRegistry
<1>8. ASSUME NEW n \in Nodes, ReadRegistry(n) \/ SyncBalancer(n) PROVE RemovesSuspects'
  BY <1>8 DEF TypeOK, ReadRegistry, SyncBalancer
<1>9. ASSUME NEW n \in Nodes, Crash(n) PROVE RemovesSuspects'
  BY <1>9 DEF TypeOK, Crash
<1>10. ASSUME NEW n \in Nodes, Restart(n) \/ \E p \in Nodes : ProbePeer(n, p)
       PROVE  pc' = pc /\ local' = local
  BY <1>10 DEF Restart, ProbePeer
<1>11. ASSUME NEW s \in Services, Heartbeat(s) \/ BackendCrash(s) \/ BackendStart(s)
       PROVE  pc' = pc /\ local' = local
  BY <1>11 DEF Heartbeat, Register, RegisterReadRegistry, RegisterSyncBalancer,
               BackendCrash, BackendStart
<1>12. CASE UNCHANGED vars
  BY <1>12 DEF vars
<1> QED
  BY <1>3, <1>4, <1>5, <1>6, <1>7, <1>8, <1>9, <1>10, <1>11, <1>12 DEF Next, Monitor

LEMMA NextInv == IInv /\ [Next]_vars => IInv'
BY NextType, NextRole, NextAnnounced, NextSuspects DEF IInv

LEMMA Invariance == Spec => []IInv
BY InitInv, NextInv, PTL DEF Spec

----------------------------------------------------------------------------
(* The safety properties.                                                  *)

\* What a balancer holds UP announced itself, for every number of nodes, backends and
\* faults and every order of heartbeats, elections and copies.
THEOREM AnnouncedFirstHolds == Spec => []AnnouncedFirst
<1>1. IInv => AnnouncedFirst
  BY DEF IInv, MarkedAnnounced, Announced, AnnouncedFirst
<1> QED
  BY <1>1, Invariance, PTL

\* A node that leads itself drops a registration only of a backend that crashed or had a
\* probe fail: no interleaving of the probe round with heartbeats costs a healthy backend
\* its place.
THEOREM HealthyKeptHolds == Spec => HealthyKept
<1> DEFINE Step ==
      \A n \in Nodes, s \in Services :
        /\ s \in registered[n] \ registered'[n]
        /\ leader[n] = n
        /\ up'[n]
        => s \in suspect'
<1>1. IInv /\ [Next]_vars => [Step]_vars
  <2> SUFFICES ASSUME IInv, [Next]_vars, NEW n \in Nodes, NEW s \in Services,
                      s \in registered[n] \ registered'[n], leader[n] = n, up'[n]
               PROVE  s \in suspect'
    OBVIOUS
  <2>1. TypeOK /\ RoleMatchesLeader /\ RemovesSuspects /\ suspect \subseteq suspect'
    BY AnnouncedGrows DEF IInv
  <2> USE DEF registryVars
  <2>2. ASSUME NEW m \in Nodes, RemoveBackend(m) PROVE s \in suspect'
    BY <2>1, <2>2 DEF TypeOK, RemovesSuspects, RemoveBackend
  <2>3. ASSUME NEW m \in Nodes, ReplaceRegistry(m) PROVE FALSE
    BY <2>1, <2>3 DEF TypeOK, RoleMatchesLeader, ReplaceRegistry
  <2>4. ASSUME NEW b \in Services, Register(b) PROVE registered[n] \subseteq registered'[n]
    <3>1. registered \in [Nodes -> SUBSET Services]
      BY <2>1 DEF TypeOK
    <3>2. \/ registered' = registered
          \/ registered' = [registered EXCEPT ![Target(b)] =
                               registered[Target(b)] \union {b}]
      BY <2>4 DEF Register
    <3> QED
      BY <3>1, <3>2
  <2>5. ASSUME NEW m \in Nodes, Crash(m) PROVE FALSE
    BY <2>1, <2>5 DEF TypeOK, Crash
  <2>6. ASSUME NEW m \in Nodes,
               ElectLeader(m) \/ ListBackends(m) \/ FetchServices(m) \/ ReadRegistry(m)
               \/ SyncBalancer(m) \/ Restart(m)
        PROVE  registered' = registered
    BY <2>6 DEF ElectLeader, ListBackends, FetchServices, ReadRegistry, SyncBalancer,
                Restart
  <2>7. ASSUME NEW m \in Nodes,
               \/ \E p \in Nodes : ProbePeer(m, p)
               \/ \E b \in Services : CheckBackend(m, b)
        PROVE  registered' = registered
    BY <2>7 DEF ProbePeer, CheckBackend
  <2>8. ASSUME NEW b \in Services,
               \/ RegisterReadRegistry(b) \/ RegisterSyncBalancer(b)
               \/ BackendCrash(b) \/ BackendStart(b)
        PROVE  registered' = registered
    BY <2>8 DEF RegisterReadRegistry, RegisterSyncBalancer, BackendCrash, BackendStart
  <2>9. CASE UNCHANGED vars
    BY <2>9 DEF vars
  <2> QED
    BY <2>2, <2>3, <2>4, <2>5, <2>6, <2>7, <2>8, <2>9 DEF Next, Monitor, Heartbeat
<1> QED
  BY <1>1, Invariance, PTL DEF Spec, HealthyKept

\* The health map of a running node loses no key, so a balancer that has seen a backend
\* never falls back to sending requests to every target of a route.
THEOREM HealthMapNeverShrinksHolds == Spec => HealthMapNeverShrinks
<1> DEFINE Step == \A n \in Nodes : up'[n] => known[n] \subseteq known'[n]
<1>1. TypeOK /\ [Next]_vars => [Step]_vars
  <2> SUFFICES ASSUME TypeOK, [Next]_vars, NEW n \in Nodes, up'[n]
               PROVE  known[n] \subseteq known'[n]
    OBVIOUS
  <2> USE DEF balancerVars
  <2>1. CASE known' = known
    BY <2>1
  <2>2. ASSUME NEW m \in Nodes, SyncBalancer(m) PROVE known[n] \subseteq known'[n]
    BY <2>2 DEF TypeOK, SyncBalancer, MarkActive
  <2>3. ASSUME NEW s \in Services, RegisterSyncBalancer(s)
        PROVE  known[n] \subseteq known'[n]
    BY <2>3, TargetIsNode DEF TypeOK, RegisterSyncBalancer, MarkActive
  <2>4. ASSUME NEW m \in Nodes, Crash(m) PROVE known[n] \subseteq known'[n]
    BY <2>4 DEF TypeOK, Crash
  <2>5. ASSUME NEW m \in Nodes,
               \/ ElectLeader(m) \/ ListBackends(m) \/ RemoveBackend(m)
               \/ FetchServices(m) \/ ReplaceRegistry(m) \/ ReadRegistry(m) \/ Restart(m)
        PROVE  known' = known
    BY <2>5 DEF ElectLeader, ListBackends, RemoveBackend, FetchServices,
                ReplaceRegistry, ReadRegistry, Restart
  <2>6. ASSUME NEW m \in Nodes,
               \/ \E p \in Nodes : ProbePeer(m, p)
               \/ \E s \in Services : CheckBackend(m, s)
        PROVE  known' = known
    BY <2>6 DEF ProbePeer, CheckBackend
  <2>7. ASSUME NEW s \in Services,
               \/ Register(s) \/ RegisterReadRegistry(s)
               \/ BackendCrash(s) \/ BackendStart(s)
        PROVE  known' = known
    BY <2>7 DEF Register, RegisterReadRegistry, BackendCrash, BackendStart
  <2>8. CASE UNCHANGED vars
    BY <2>8 DEF vars
  <2> QED
    BY <2>1, <2>2, <2>3, <2>4, <2>5, <2>6, <2>7, <2>8 DEF Next, Monitor, Heartbeat
<1> QED
  BY <1>1, TypeCorrect, PTL DEF Spec, HealthMapNeverShrinks

=============================================================================
