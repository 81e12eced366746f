----------------------------- MODULE RoundRobin -----------------------------
(***************************************************************************)
(* The round robin balancer of one route (pkg/proxy/balancer/rr.go).  Each *)
(* request in flight runs Elect: a loop that takes the next host under the *)
(* lock of the balancer and then, under the other lock, asks the health    *)
(* map whether the host is alive.  Requests share the cursor, so between   *)
(* two turns of one of them the others move it, and the monitor and the    *)
(* register handlers rewrite the health map (syncBalancerHealth).  The     *)
(* list of hosts is that of the route when it was loaded: a reload makes a *)
(* new balancer.                                                           *)
(***************************************************************************)
EXTENDS Integers, Sequences, FiniteSets

CONSTANTS
    Requests,    \* requests in flight
    Hosts,       \* the targets of the route, in order
    Keys,        \* the URLs in the health map
    HealthKey,   \* HealthKey[t]: target t without path, query and fragment
    Local        \* targets on 127.0.0.1, localhost or ::1

ASSUME HostsAssumption == Hosts \in Seq(DOMAIN HealthKey)
ASSUME LocalAssumption == Local \subseteq DOMAIN HealthKey

VARIABLES
    current,   \* the cursor of the balancer
    known,     \* keys of ActiveNodes
    marked,    \* keys of ActiveNodes whose value is true
    pc,        \* pc[r]: where request r is
    tries,     \* tries[r]: turns of the loop taken, this one included
    slot,      \* slot[r]: index in Hosts of the host r took, from 1
    result,    \* result[r]: what Elect returned last
    lap,       \* slots taken in this lap; a lap ends when every slot was taken
    refused,   \* refused[r]: slots r found down in this election
    disturbed  \* disturbed[r]: another request moved the cursor in this election

electVars == <<current, pc, tries, slot, result>>
healthVars == <<known, marked>>
historyVars == <<lap, refused, disturbed>>
vars == <<electVars, healthVars, historyVars>>

N == Len(Hosts)
Slots == 1 .. N

TypeOK ==
    /\ current \in 0 .. N
    /\ known \in SUBSET Keys
    /\ marked \in SUBSET known
    /\ pc \in [Requests -> {"idle", "take", "check"}]
    /\ tries \in [Requests -> 0 .. N]
    /\ slot \in [Requests -> 0 .. N]
    /\ result \in [Requests -> 0 .. N]
    /\ lap \in SUBSET Slots
    /\ refused \in [Requests -> SUBSET Slots]
    /\ disturbed \in [Requests -> BOOLEAN]

----------------------------------------------------------------------------
(* isTargetAlive: a local target is alive, an empty map knows nothing and  *)
(* refuses nobody, the URL of the target is looked up before its health    *)
(* key, and a target that is not in the map is down.                       *)

Alive(t, seen, up) ==
    \/ t \in Local
    \/ seen = {}
    \/ IF t \in seen THEN t \in up ELSE HealthKey[t] \in up

Init ==
    /\ current = 0
    /\ known = {}
    /\ marked = {}
    /\ pc = [r \in Requests |-> "idle"]
    /\ tries = [r \in Requests |-> 0]
    /\ slot = [r \in Requests |-> 0]
    /\ result = [r \in Requests |-> 0]
    /\ lap = {}
    /\ refused = [r \in Requests |-> {}]
    /\ disturbed = [r \in Requests |-> FALSE]

----------------------------------------------------------------------------
(* Elect.  The result 0 stands for ErrEmptyBackendList.                    *)

Elect(r) ==
    /\ pc[r] = "idle"
    /\ pc' = [pc EXCEPT ![r] = IF N = 0 THEN "idle" ELSE "take"]
    /\ tries' = [tries EXCEPT ![r] = 0]
    /\ slot' = [slot EXCEPT ![r] = 0]
    /\ result' = [result EXCEPT ![r] = 0]
    /\ refused' = [refused EXCEPT ![r] = {}]
    /\ disturbed' = [disturbed EXCEPT ![r] = FALSE]
    /\ UNCHANGED <<current, healthVars, lap>>

\* Mutants of Cursor: the cursor may point behind the list; the first host is skipped when
\* the cursor wraps.
CursorPastEnd == IF current > N THEN 0 ELSE current
CursorSkipsFirst == IF current >= N THEN 1 % N ELSE current

\* The cursor as the critical section leaves it before it takes the host.
Cursor == IF current >= N THEN 0 ELSE current

\* Mutant of CountTurn: the loop does not count.
CountTurnNot(r) == UNCHANGED tries

CountTurn(r) == tries' = [tries EXCEPT ![r] = @ + 1]

TakeHost(r) ==
    /\ pc[r] = "take"
    /\ slot' = [slot EXCEPT ![r] = Cursor + 1]
    /\ current' = Cursor + 1
    /\ CountTurn(r)
    /\ pc' = [pc EXCEPT ![r] = "check"]
    /\ lap' = (IF lap = Slots THEN {} ELSE lap) \union {Cursor + 1}
    /\ disturbed' = [q \in Requests |-> disturbed[q] \/ (q # r /\ pc[q] # "idle")]
    /\ UNCHANGED <<healthVars, result, refused>>

\* Mutant of Again: the last host of the list is never tried.
AgainButLast(r) == tries[r] < N - 1

\* The condition of the loop.
Again(r) == tries[r] < N

CheckHost(r) ==
    /\ pc[r] = "check"
    /\ IF Alive(Hosts[slot[r]], known, marked)
       THEN /\ result' = [result EXCEPT ![r] = slot[r]]
            /\ pc' = [pc EXCEPT ![r] = "idle"]
            /\ refused' = [refused EXCEPT ![r] = {}]
       ELSE /\ refused' = [refused EXCEPT ![r] = @ \union {slot[r]}]
            /\ pc' = [pc EXCEPT ![r] = IF Again(r) THEN "take" ELSE "idle"]
            /\ UNCHANGED result
    /\ UNCHANGED <<current, healthVars, tries, slot, lap, disturbed>>

\* syncBalancerHealth of the monitor or of a register handler (module Cluster).
SyncHealth(active) ==
    /\ known' = known \union active
    /\ marked' = active
    /\ UNCHANGED <<electVars, lap, refused, disturbed>>

Next ==
    \/ \E r \in Requests : Elect(r) \/ TakeHost(r) \/ CheckHost(r)
    \/ \E active \in SUBSET Keys : SyncHealth(active)

Spec == Init /\ [][Next]_vars

\* A request in flight runs on, whatever the health map does.
Fairness == \A r \in Requests : WF_vars(TakeHost(r) \/ CheckHost(r))

FairSpec == Spec /\ Fairness

----------------------------------------------------------------------------
(* Properties.                                                             *)

Failed(r) == pc[r] = "idle" /\ tries[r] > 0 /\ result[r] = 0

\* However many requests take turns, a host is taken again only after every other host
\* has been: no request steals a turn and no host gets two in a lap.  (The critical
\* section of Elect.)
FairTurns ==
    [][\A r \in Requests :
         pc[r] = "take" /\ pc'[r] = "check" /\ slot'[r] \in lap => lap = Slots]_vars

\* An election that had the cursor for itself gives up only after it found every host of
\* the list down, wherever the cursor was when it began.
FullSweep ==
    \A r \in Requests : Failed(r) /\ ~disturbed[r] => refused[r] = Slots

\* Every election ends, also when the health map changes under it and all hosts are down.
ElectionEnds == \A r \in Requests : pc[r] # "idle" ~> pc[r] = "idle"

=============================================================================
