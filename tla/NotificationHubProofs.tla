------------------------ MODULE NotificationHubProofs ------------------------
(***************************************************************************)
(* Proofs about NotificationHub for every cluster, every set of            *)
(* notifications and clients, and every length of the histories and of     *)
(* the channels.                                                           *)
(***************************************************************************)
EXTENDS NotificationHub, TLAPS

USE HistoryAssumption, BufferAssumption, FaultsAssumption, PeersAssumption

----------------------------------------------------------------------------
(* Sequences.                                                              *)

Distinct(s) == \A j, k \in DOMAIN s : s[j] = s[k] => j = k

\* What a full history keeps of its entries, and what it forgets.
Kept(s) == IF Len(s) >= HistoryMax THEN Tail(s) ELSE s

Dropped(s) == IF Len(s) >= HistoryMax THEN {Head(s)} ELSE {}

\* A sequence of distinct elements loses exactly its head.
LEMMA TailElems ==
    ASSUME NEW S, NEW s \in Seq(S), s # <<>>, Distinct(s)
    PROVE  /\ Tail(s) \in Seq(S)
           /\ Len(Tail(s)) = Len(s) - 1
           /\ Distinct(Tail(s))
           /\ Elems(Tail(s)) = Elems(s) \ {Head(s)}
<1>1. /\ Tail(s) \in Seq(S) /\ Len(Tail(s)) = Len(s) - 1
      /\ DOMAIN s = 1 .. Len(s) /\ Len(s) \in Nat \ {0}
      /\ DOMAIN Tail(s) = 1 .. Len(s) - 1
    OBVIOUS
<1>2. \A k \in 1 .. Len(s) - 1 : Tail(s)[k] = s[k + 1] /\ k + 1 \in DOMAIN s
    BY <1>1
<1>3. Distinct(Tail(s))
    <2> SUFFICES ASSUME NEW j \in DOMAIN Tail(s), NEW k \in DOMAIN Tail(s),
                        Tail(s)[j] = Tail(s)[k]
                 PROVE  j = k
        BY DEF Distinct
    <2>1. s[j + 1] = s[k + 1] /\ j + 1 \in DOMAIN s /\ k + 1 \in DOMAIN s
        BY <1>1, <1>2
    <2>2. j + 1 = k + 1
        BY <2>1 DEF Distinct
    <2> QED
        BY <1>1, <2>2
<1>4. Head(s) = s[1] /\ 1 \in DOMAIN s
    BY <1>1
<1>5. ASSUME NEW e PROVE e \in Elems(Tail(s)) <=> e \in Elems(s) /\ e # Head(s)
    <2>1. ASSUME e \in Elems(Tail(s)) PROVE e \in Elems(s) /\ e # Head(s)
        <3>1. PICK k \in DOMAIN Tail(s) : e = Tail(s)[k]
            BY <2>1 DEF Elems
        <3>2. e = s[k + 1] /\ k + 1 \in DOMAIN s /\ k + 1 # 1
            BY <1>1, <1>2, <3>1
        <3> QED
            BY <1>4, <3>2 DEF Elems, Distinct
    <2>2. ASSUME e \in Elems(s), e # Head(s) PROVE e \in Elems(Tail(s))
        <3>1. PICK k \in DOMAIN s : e = s[k]
            BY <2>2 DEF Elems
        <3>2. k # 1
            BY <2>2, <3>1, <1>4
        <3>3. k - 1 \in 1 .. Len(s) - 1 /\ Tail(s)[k - 1] = s[k]
            BY <1>1, <1>2, <3>2
        <3> QED
            BY <1>1, <3>1, <3>3 DEF Elems
    <2> QED
        BY <2>1, <2>2
<1> QED
    BY <1>1, <1>3, <1>5

\* A new element at the end.
LEMMA AppendElems ==
    ASSUME NEW S, NEW s \in Seq(S), Distinct(s), NEW e \in S, e \notin Elems(s)
    PROVE  /\ Append(s, e) \in Seq(S)
           /\ Len(Append(s, e)) = Len(s) + 1
           /\ Distinct(Append(s, e))
           /\ Elems(Append(s, e)) = Elems(s) \union {e}
<1>1. /\ Append(s, e) \in Seq(S) /\ Len(Append(s, e)) = Len(s) + 1
      /\ DOMAIN s = 1 .. Len(s) /\ Len(s) \in Nat
      /\ DOMAIN Append(s, e) = 1 .. Len(s) + 1
    OBVIOUS
<1>2. /\ \A k \in DOMAIN s : Append(s, e)[k] = s[k] /\ k \in DOMAIN Append(s, e)
      /\ Append(s, e)[Len(s) + 1] = e
      /\ \A k \in DOMAIN Append(s, e) : k \in DOMAIN s \/ k = Len(s) + 1
    BY <1>1
<1>3. \A k \in DOMAIN s : s[k] # e
    BY DEF Elems
<1>4. Distinct(Append(s, e))
    BY <1>2, <1>3 DEF Distinct
<1>5. Elems(Append(s, e)) = Elems(s) \union {e}
    BY <1>1, <1>2 DEF Elems
<1> QED
    BY <1>1, <1>4, <1>5

LEMMA EmptyElems == Elems(<<>>) = {} /\ Distinct(<<>>)
BY DEF Elems, Distinct

\* One accepted notification: what is kept of the history, and the set that goes with it.
LEMMA KeptElems ==
    ASSUME NEW s \in Seq(Ids), Distinct(s), Len(s) <= HistoryMax,
           NEW i \in Ids, i \notin Elems(s)
    PROVE  /\ Append(Kept(s), i) \in Seq(Ids)
           /\ Len(Append(Kept(s), i)) <= HistoryMax
           /\ Distinct(Append(Kept(s), i))
           /\ Elems(Append(Kept(s), i)) = (Elems(s) \union {i}) \ Dropped(s)
<1>1. CASE Len(s) >= HistoryMax
    <2>1. s # <<>> /\ Len(s) \in Nat
        BY <1>1
    <2>2. Kept(s) = Tail(s) /\ Dropped(s) = {Head(s)}
        BY <1>1 DEF Kept, Dropped
    <2> DEFINE t == Tail(s)
    <2>3. /\ t \in Seq(Ids) /\ Len(t) = Len(s) - 1 /\ Distinct(t)
          /\ Elems(t) = Elems(s) \ {Head(s)}
        BY <2>1, TailElems
    <2>4. i \notin Elems(t)
        BY <2>3
    <2> HIDE DEF t
    <2>5. /\ Append(t, i) \in Seq(Ids)
          /\ Len(Append(t, i)) = Len(t) + 1
          /\ Distinct(Append(t, i))
          /\ Elems(Append(t, i)) = Elems(t) \union {i}
        BY <2>3, <2>4, AppendElems
    <2>6. Head(s) \in Elems(s)
        BY <2>1 DEF Elems
    <2> QED
        BY <2>1, <2>2, <2>3, <2>5, <2>6 DEF t
<1>2. CASE ~ (Len(s) >= HistoryMax)
    <2>1. Kept(s) = s /\ Dropped(s) = {} /\ Len(s) \in Nat
        BY <1>2 DEF Kept, Dropped
    <2>2. /\ Append(s, i) \in Seq(Ids)
          /\ Len(Append(s, i)) = Len(s) + 1
          /\ Distinct(Append(s, i))
          /\ Elems(Append(s, i)) = Elems(s) \union {i}
        BY AppendElems
    <2> QED
        BY <1>2, <2>1, <2>2
<1> QED
    BY <1>1, <1>2

----------------------------------------------------------------------------
(* The state.                                                              *)

\* The part of it that is typed without reference to what the history holds.
LEMMA KeptType ==
    ASSUME NEW s \in Seq(Ids), Len(s) <= HistoryMax, NEW i \in Ids
    PROVE  /\ Append(Kept(s), i) \in Seq(Ids)
           /\ Len(Append(Kept(s), i)) <= HistoryMax
           /\ Dropped(s) \subseteq Ids
<1>1. CASE Len(s) >= HistoryMax
    <2>1. s # <<>> /\ Len(s) \in Nat
        BY <1>1
    <2>2. Tail(s) \in Seq(Ids) /\ Len(Tail(s)) = Len(s) - 1 /\ Head(s) \in Ids
        BY <2>1
    <2>3. Kept(s) \in Seq(Ids) /\ Len(Kept(s)) + 1 <= HistoryMax /\ Dropped(s) \subseteq Ids
        BY <1>1, <2>1, <2>2 DEF Kept, Dropped
    <2> QED
        BY <2>3
<1>2. CASE ~ (Len(s) >= HistoryMax)
    BY <1>2 DEF Kept, Dropped
<1> QED
    BY <1>1, <1>2

LEMMA PushType ==
    ASSUME NEW q \in Seq(Ids), Len(q) <= BufferMax, NEW i \in Ids
    PROVE  Push(q, i) \in Seq(Ids) /\ Len(Push(q, i)) <= BufferMax
BY DEF Push

\* What an arriving notification does to the state of the hubs.
LEMMA AcceptType ==
    ASSUME TypeOK, NEW n \in Nodes, NEW i \in Ids, Accept(n, i)
    PROVE  /\ history' \in [Nodes -> Seq(Ids)] /\ seen' \in [Nodes -> SUBSET Ids]
           /\ evicted' \in [Nodes -> SUBSET Ids] /\ got' \in SUBSET (Ids \X Nodes)
           /\ buffer' \in [Clients -> Seq(Ids)]
           /\ \A m \in Nodes : Len(history'[m]) <= HistoryMax
           /\ \A c \in Clients : Len(buffer'[c]) <= BufferMax
<1>1. CASE Known(n, i)
    BY <1>1 DEF Accept, TypeOK, hubVars
<1>2. CASE ~Known(n, i)
    <2>1. /\ history' = [history EXCEPT ![n] = Append(Kept(history[n]), i)]
          /\ seen' = [seen EXCEPT ![n] = (@ \union {i}) \ Dropped(history[n])]
          /\ evicted' = [evicted EXCEPT ![n] = @ \union Dropped(history[n])]
          /\ got' = got \union {<<i, n>>}
          /\ buffer' = [c \in Clients |-> IF c \in registered[n] /\ Matches(c, i)
                                          THEN Push(buffer[c], i) ELSE buffer[c]]
        BY <1>2 DEF Accept, Record, Remember, Fan, Kept, Dropped, TypeOK
    <2>2. history[n] \in Seq(Ids) /\ Len(history[n]) <= HistoryMax
        BY DEF TypeOK
    <2>3. /\ Append(Kept(history[n]), i) \in Seq(Ids)
          /\ Len(Append(Kept(history[n]), i)) <= HistoryMax
          /\ Dropped(history[n]) \subseteq Ids
        BY <2>2, KeptType
    <2>4. \A c \in Clients : Push(buffer[c], i) \in Seq(Ids) /\ Len(Push(buffer[c], i)) <= BufferMax
        BY PushType DEF TypeOK
    <2>5. history' \in [Nodes -> Seq(Ids)] /\ \A m \in Nodes : Len(history'[m]) <= HistoryMax
        BY <2>1, <2>3 DEF TypeOK
    <2>6. buffer' \in [Clients -> Seq(Ids)] /\ \A c \in Clients : Len(buffer'[c]) <= BufferMax
        BY <2>1, <2>4 DEF TypeOK
    <2>7. seen' \in [Nodes -> SUBSET Ids] /\ evicted' \in [Nodes -> SUBSET Ids]
        BY <2>1, <2>3 DEF TypeOK
    <2>8. got' \in SUBSET (Ids \X Nodes)
        BY <2>1 DEF TypeOK
    <2> QED
        BY <2>5, <2>6, <2>7, <2>8
<1> QED
    BY <1>1, <1>2

LEMMA InitType == Init => TypeOK
<1> SUFFICES ASSUME Init PROVE TypeOK
    OBVIOUS
<1>1. <<>> \in Seq(Ids) /\ Len(<<>>) = 0 /\ 0 <= HistoryMax /\ 0 <= BufferMax /\ 0 \in 0 .. MaxFaults
    OBVIOUS
<1> QED
    BY <1>1 DEF Init, TypeOK

LEMMA NextType == TypeOK /\ [Next]_vars => TypeOK'
<1> SUFFICES ASSUME TypeOK, [Next]_vars PROVE TypeOK'
    OBVIOUS
<1> USE DEF faultVars, hubVars, replicationVars, streamVars
<1>1. ASSUME NEW n \in Nodes, Crash(n) PROVE TypeOK'
    <2>1. <<>> \in Seq(Ids) /\ Len(<<>>) = 0 /\ 0 <= HistoryMax /\ 0 <= BufferMax
        OBVIOUS
    <2>2. /\ history' = [history EXCEPT ![n] = <<>>] /\ seen' = [seen EXCEPT ![n] = {}]
          /\ evicted' = [evicted EXCEPT ![n] = {}]
          /\ registered' = [registered EXCEPT ![n] = {}] /\ open' = open \ registered[n]
          /\ net' \subseteq net /\ faults < MaxFaults /\ faults' = faults + 1
          /\ UNCHANGED <<origin, got>>
        BY <1>1 DEF Crash
    <2>3. /\ toSend' = [i \in Ids |-> IF i \in {k \in Ids : origin[k] = {n}} THEN {} ELSE toSend[i]]
          /\ buffer' = [c \in Clients |-> IF c \in registered[n] THEN <<>> ELSE buffer[c]]
          /\ received' = [c \in Clients |-> IF c \in registered[n] THEN <<>> ELSE received[c]]
          /\ wanted' = [c \in Clients |-> IF c \in registered[n] THEN {} ELSE wanted[c]]
        BY <1>1 DEF Crash
    <2>4. lost' \in SUBSET (Ids \X Nodes)
        BY <1>1 DEF Crash, TypeOK
    <2>5. /\ history' \in [Nodes -> Seq(Ids)] /\ seen' \in [Nodes -> SUBSET Ids]
          /\ evicted' \in [Nodes -> SUBSET Ids] /\ registered' \in [Nodes -> SUBSET Clients]
          /\ open' \in SUBSET Clients /\ net' \in SUBSET (Ids \X Nodes)
          /\ faults' \in 0 .. MaxFaults
          /\ \A m \in Nodes : Len(history'[m]) <= HistoryMax
        BY <2>1, <2>2 DEF TypeOK
    <2>6. toSend' \in [Ids -> SUBSET Nodes] /\ wanted' \in [Clients -> Interests \union {{}}]
        BY <2>3 DEF TypeOK
    <2>7. /\ buffer' \in [Clients -> Seq(Ids)] /\ received' \in [Clients -> Seq(Ids)]
          /\ \A c \in Clients : Len(buffer'[c]) <= BufferMax
        BY <2>1, <2>3 DEF TypeOK
    <2> QED
        BY <2>2, <2>4, <2>5, <2>6, <2>7 DEF TypeOK
<1>2. ASSUME NEW n \in Nodes, NEW i \in Ids, Publish(n, i) PROVE TypeOK'
    <2>1. Accept(n, i) /\ origin' = [origin EXCEPT ![i] = {n}]
          /\ toSend' = [toSend EXCEPT ![i] = Peers[n]]
          /\ UNCHANGED <<net, registered, open, wanted, received, lost, faults>>
        BY <1>2 DEF Publish, Recipients
    <2>2. origin' \in [Ids -> SUBSET Nodes] /\ toSend' \in [Ids -> SUBSET Nodes]
        BY <2>1 DEF TypeOK
    <2> QED
        BY <2>1, <2>2, AcceptType DEF TypeOK
<1>3. ASSUME NEW i \in Ids, NEW p \in Nodes, Post(i, p) PROVE TypeOK'
    BY <1>3 DEF Post, TypeOK
<1>4. ASSUME NEW i \in Ids, NEW p \in Nodes, Replicate(i, p) PROVE TypeOK'
    <2>1. Accept(p, i) /\ net' = net \ {<<i, p>>}
          /\ UNCHANGED <<origin, toSend, registered, open, wanted, received, lost, faults>>
        BY <1>4 DEF Replicate
    <2> QED
        BY <2>1, AcceptType DEF TypeOK
<1>5. ASSUME NEW c \in Clients, NEW n \in Nodes, NEW topics \in Interests, Subscribe(c, n, topics)
      PROVE  TypeOK'
    BY <1>5 DEF Subscribe, TypeOK
<1>6. ASSUME NEW c \in Clients, Stream(c) PROVE TypeOK'
    <2>1. buffer[c] \in Seq(Ids) /\ buffer[c] # <<>> /\ Len(buffer[c]) <= BufferMax
        BY <1>6 DEF Stream, TypeOK
    <2>2. /\ Tail(buffer[c]) \in Seq(Ids) /\ Len(Tail(buffer[c])) <= BufferMax
          /\ Head(buffer[c]) \in Ids
        BY <2>1
    <2>3. Append(received[c], Head(buffer[c])) \in Seq(Ids)
        BY <2>2 DEF TypeOK
    <2>4. /\ received' = [received EXCEPT ![c] = Append(received[c], Head(buffer[c]))]
          /\ buffer' = [buffer EXCEPT ![c] = Tail(buffer[c])]
        BY <1>6 DEF Stream, TypeOK
    <2>5. received' \in [Clients -> Seq(Ids)] /\ buffer' \in [Clients -> Seq(Ids)]
        BY <2>2, <2>3, <2>4 DEF TypeOK
    <2>6. \A d \in Clients : Len(buffer'[d]) <= BufferMax
        BY <2>2, <2>4 DEF TypeOK
    <2> QED
        BY <1>6, <2>5, <2>6 DEF Stream, TypeOK
<1>7. ASSUME NEW c \in Clients, Unsubscribe(c) PROVE TypeOK'
    BY <1>7 DEF Unsubscribe, Unregister, TypeOK
<1>8. CASE UNCHANGED vars
    BY <1>8 DEF vars, TypeOK
<1> QED
    BY <1>1, <1>2, <1>3, <1>4, <1>5, <1>6, <1>7, <1>8 DEF Next

\* The state of the hubs has its type: histories and channels keep within their
\* capacities.
THEOREM TypeCorrect == Spec => []TypeOK
BY InitType, NextType, PTL DEF Spec

----------------------------------------------------------------------------
(* The histories and the sets that go with them.                           *)

\* A notification is taken: the oldest of a full history leaves both.
Take(n, i) ==
    /\ i \notin seen[n]
    /\ history' = [history EXCEPT ![n] = Append(Kept(history[n]), i)]
    /\ seen' = [seen EXCEPT ![n] = (@ \union {i}) \ Dropped(history[n])]

\* A process begins again with an empty hub.
Restart(n) ==
    /\ history' = [history EXCEPT ![n] = <<>>]
    /\ seen' = [seen EXCEPT ![n] = {}]

\* A step of the system takes a notification into one hub, restarts one, or leaves all of
\* them alone.
LEMMA HubStep ==
    ASSUME TypeOK, [Next]_vars
    PROVE  \/ UNCHANGED <<history, seen>>
           \/ \E n \in Nodes : Restart(n) \/ \E i \in Ids : Take(n, i)
<1>1. ASSUME NEW n \in Nodes, NEW i \in Ids, Accept(n, i)
      PROVE  UNCHANGED <<history, seen>> \/ Take(n, i)
    BY <1>1 DEF Accept, Known, Record, Remember, Kept, Dropped, Take, hubVars, TypeOK
<1>2. ASSUME NEW n \in Nodes, Crash(n) PROVE Restart(n)
    BY <1>2 DEF Crash, Restart
<1>3. ASSUME NEW n \in Nodes, NEW i \in Ids, Publish(n, i) PROVE Accept(n, i)
    BY <1>3 DEF Publish
<1>4. ASSUME NEW n \in Nodes, NEW i \in Ids, Replicate(i, n) PROVE Accept(n, i)
    BY <1>4 DEF Replicate
<1>5. ASSUME NEW i \in Ids, NEW p \in Nodes, Post(i, p) PROVE UNCHANGED <<history, seen>>
    BY <1>5 DEF Post, hubVars
<1>6. ASSUME NEW c \in Clients, \/ \E n \in Nodes, topics \in Interests : Subscribe(c, n, topics)
                                \/ Stream(c)
                                \/ Unsubscribe(c)
      PROVE  UNCHANGED <<history, seen>>
    BY <1>6 DEF Subscribe, Stream, Unsubscribe, hubVars
<1>7. CASE UNCHANGED vars
    BY <1>7 DEF vars, hubVars
<1> QED
    BY <1>1, <1>2, <1>3, <1>4, <1>5, <1>6, <1>7 DEF Next

LEMMA SeenDef ==
    SeenIsHistory <=> \A n \in Nodes : seen[n] = Elems(history[n]) /\ Distinct(history[n])
BY DEF SeenIsHistory, Distinct

LEMMA InitSeen == Init => SeenIsHistory
BY SeenDef, EmptyElems DEF Init

LEMMA NextSeen == TypeOK /\ SeenIsHistory /\ [Next]_vars => SeenIsHistory'
<1> SUFFICES ASSUME TypeOK, SeenIsHistory, [Next]_vars, NEW m \in Nodes
             PROVE  seen'[m] = Elems(history'[m]) /\ Distinct(history'[m])
    BY DEF SeenIsHistory, Distinct
<1>1. /\ seen[m] = Elems(history[m]) /\ Distinct(history[m])
      /\ history[m] \in Seq(Ids) /\ Len(history[m]) <= HistoryMax
    BY SeenDef DEF TypeOK
<1>2. CASE UNCHANGED <<history, seen>>
    BY <1>1, <1>2
<1>3. ASSUME NEW n \in Nodes, Restart(n)
      PROVE  seen'[m] = Elems(history'[m]) /\ Distinct(history'[m])
    <2>1. CASE m = n
        <3>1. seen'[m] = {} /\ history'[m] = <<>>
            BY <1>3, <2>1 DEF Restart, TypeOK
        <3> QED
            BY <3>1, EmptyElems
    <2>2. CASE m # n
        <3>1. seen'[m] = seen[m] /\ history'[m] = history[m]
            BY <1>3, <2>2 DEF Restart, TypeOK
        <3> QED
            BY <1>1, <3>1
    <2> QED
        BY <2>1, <2>2
<1>4. ASSUME NEW n \in Nodes, NEW i \in Ids, Take(n, i)
      PROVE  seen'[m] = Elems(history'[m]) /\ Distinct(history'[m])
    <2>1. CASE m = n
        <3>1. /\ seen'[m] = (seen[m] \union {i}) \ Dropped(history[m])
              /\ history'[m] = Append(Kept(history[m]), i)
              /\ i \notin seen[m]
            BY <1>4, <2>1 DEF Take, TypeOK
        <3>2. /\ Distinct(Append(Kept(history[m]), i))
              /\ Elems(Append(Kept(history[m]), i))
                   = (Elems(history[m]) \union {i}) \ Dropped(history[m])
            BY <1>1, <3>1, KeptElems
        <3> QED
            BY <1>1, <3>1, <3>2
    <2>2. CASE m # n
        <3>1. seen'[m] = seen[m] /\ history'[m] = history[m]
            BY <1>4, <2>2 DEF Take, TypeOK
        <3> QED
            BY <1>1, <3>1
    <2> QED
        BY <2>1, <2>2
<1> QED
    BY <1>2, <1>3, <1>4, HubStep

\* The set of remembered ids agrees with the history of its node, for ever: nothing leaks
\* from it and no notification of the history is taken a second time.
THEOREM SeenIsHistoryHolds == Spec => []SeenIsHistory
BY InitType, NextType, InitSeen, NextSeen, PTL DEF Spec

----------------------------------------------------------------------------
(* The subscribers.                                                        *)

\* A client is subscribed to one hub: only then a process that dies closes exactly the
\* channels that are registered with it.
OneHub ==
    \A n, m \in Nodes : n # m => registered[n] \cap registered[m] = {}

LEMMA InitStreams == Init => SendsOnOpen /\ OneHub
BY DEF Init, SendsOnOpen, OneHub

LEMMA NextStreams ==
    TypeOK /\ SendsOnOpen /\ OneHub /\ [Next]_vars => SendsOnOpen' /\ OneHub'
<1> SUFFICES ASSUME TypeOK, SendsOnOpen, OneHub, [Next]_vars
             PROVE  SendsOnOpen' /\ OneHub'
    OBVIOUS
<1>1. ASSUME NEW n \in Nodes, Crash(n) PROVE SendsOnOpen' /\ OneHub'
    <2>1. registered' = [registered EXCEPT ![n] = {}] /\ open' = open \ registered[n]
        BY <1>1 DEF Crash
    <2> QED
        BY <2>1 DEF TypeOK, SendsOnOpen, OneHub
<1>2. CASE UNCHANGED <<registered, open>>
    BY <1>2 DEF SendsOnOpen, OneHub
<1>3. ASSUME NEW c \in Clients, NEW n \in Nodes, NEW topics \in Interests, Subscribe(c, n, topics)
      PROVE  SendsOnOpen' /\ OneHub'
    <2>1. /\ registered' = [registered EXCEPT ![n] = @ \union {c}]
          /\ open' = open \union {c} /\ c \notin open
        BY <1>3 DEF Subscribe
    <2>2. \A m \in Nodes : c \notin registered[m]
        BY <2>1 DEF SendsOnOpen
    <2> QED
        BY <2>1, <2>2 DEF TypeOK, SendsOnOpen, OneHub
<1>4. ASSUME NEW c \in Clients, Unsubscribe(c) PROVE SendsOnOpen' /\ OneHub'
    BY <1>4 DEF Unsubscribe, Unregister, TypeOK, SendsOnOpen, OneHub
<1>5. ASSUME \/ \E n \in Nodes, i \in Ids : Publish(n, i) \/ Replicate(i, n) \/ Post(i, n)
             \/ \E c \in Clients : Stream(c)
             \/ UNCHANGED vars
      PROVE  UNCHANGED <<registered, open>>
    BY <1>5 DEF Publish, Replicate, Post, Stream, vars, streamVars
<1> QED
    BY <1>1, <1>2, <1>3, <1>4, <1>5 DEF Next

\* The hub never sends on the channel of a subscriber that is gone.
THEOREM SendsOnOpenHolds == Spec => []SendsOnOpen
BY InitType, NextType, InitStreams, NextStreams, PTL DEF Spec

----------------------------------------------------------------------------
(* The streams: what a subscriber was handed, against the history.         *)

\* What a stream was handed is still in the history, or it was evicted from it.
Handed(s, h, gone) == Elems(s) \subseteq Elems(h) \union gone

\* Those that were not evicted were handed in the order of the history.
InOrder(s, h, gone) ==
    \A j, k \in DOMAIN s, x, y \in DOMAIN h :
        /\ s[j] = h[x] /\ s[j] \notin gone
        /\ s[k] = h[y] /\ s[k] \notin gone
        /\ j < k
        => x < y

Follows(s, h, gone) == Handed(s, h, gone) /\ InOrder(s, h, gone)

StreamsFollow == \A n \in Nodes : \A c \in registered[n] : Follows(Sent(c), history[n], evicted[n])

\* An entry that a history keeps stood in it before, at a place further back by the same
\* distance for all of them.
LEMMA KeptPlaces ==
    ASSUME NEW h \in Seq(Ids)
    PROVE  /\ Kept(h) \in Seq(Ids)
           /\ \E d \in Nat : \A x \in DOMAIN Kept(h) : x + d \in DOMAIN h /\ Kept(h)[x] = h[x + d]
           /\ Elems(h) = Elems(Kept(h)) \union Dropped(h)
<1>1. CASE Len(h) >= HistoryMax
    <2>1. h # <<>> /\ Kept(h) = Tail(h) /\ Dropped(h) = {Head(h)}
        BY <1>1 DEF Kept, Dropped
    <2>2. /\ Tail(h) \in Seq(Ids) /\ DOMAIN Tail(h) = 1 .. Len(h) - 1
          /\ DOMAIN h = 1 .. Len(h) /\ Len(h) \in Nat \ {0} /\ Head(h) = h[1]
        BY <2>1
    <2>3. \A x \in 1 .. Len(h) - 1 : x + 1 \in DOMAIN h /\ Tail(h)[x] = h[x + 1]
        BY <2>1, <2>2
    <2>4. \A k \in DOMAIN h : k # 1 => k - 1 \in 1 .. Len(h) - 1 /\ Tail(h)[k - 1] = h[k]
        BY <2>1, <2>2
    <2>5. Elems(h) \subseteq Elems(Tail(h)) \union {Head(h)}
        BY <2>2, <2>4 DEF Elems
    <2>6. Elems(Tail(h)) \union {Head(h)} \subseteq Elems(h)
        BY <2>2, <2>3 DEF Elems
    <2>7. \E d \in Nat : \A x \in DOMAIN Kept(h) : x + d \in DOMAIN h /\ Kept(h)[x] = h[x + d]
        <3>1. \A x \in DOMAIN Kept(h) : x + 1 \in DOMAIN h /\ Kept(h)[x] = h[x + 1]
            BY <2>1, <2>2, <2>3
        <3> QED
            BY <3>1
    <2>8. Elems(h) = Elems(Kept(h)) \union Dropped(h)
        BY <2>1, <2>5, <2>6
    <2> QED
        BY <2>1, <2>2, <2>7, <2>8
<1>2. CASE ~ (Len(h) >= HistoryMax)
    <2>1. Kept(h) = h /\ Dropped(h) = {}
        BY <1>2 DEF Kept, Dropped
    <2>2. \A x \in DOMAIN h : x + 0 = x
        OBVIOUS
    <2> QED
        BY <2>1, <2>2
<1> QED
    BY <1>1, <1>2

\* A new notification goes to the end of the history and to the end of a stream, or past
\* the stream when its channel is full or it did not ask for the topic.
LEMMA FollowsNew ==
    ASSUME NEW h \in Seq(Ids), Distinct(h), Len(h) <= HistoryMax,
           NEW i \in Ids, i \notin Elems(h),
           NEW s \in Seq(Ids), NEW gone, Follows(s, h, gone),
           NEW t \in {s, Append(s, i)}
    PROVE  Follows(t, Append(Kept(h), i), gone \union Dropped(h))
<1> DEFINE r == Kept(h)
           after == Append(r, i)
           out == gone \union Dropped(h)
<1>1. PICK d \in Nat : \A x \in DOMAIN r : x + d \in DOMAIN h /\ r[x] = h[x + d]
    BY KeptPlaces
<1>2. r \in Seq(Ids) /\ Elems(h) = Elems(r) \union Dropped(h)
    BY KeptPlaces
<1>3. i \notin Elems(r)
    BY <1>2
<1> HIDE DEF r
<1>4. /\ DOMAIN after = 1 .. Len(r) + 1 /\ DOMAIN r = 1 .. Len(r) /\ Len(r) \in Nat
      /\ after[Len(r) + 1] = i
      /\ \A x \in DOMAIN r : after[x] = r[x]
    BY <1>2
<1>5. Elems(after) = Elems(r) \union {i}
    <2>1. \A x \in DOMAIN after : x \in DOMAIN r \/ x = Len(r) + 1
        BY <1>4
    <2>2. DOMAIN r \subseteq DOMAIN after /\ Len(r) + 1 \in DOMAIN after
        BY <1>4
    <2> HIDE DEF after
    <2> QED
        BY <1>4, <2>1, <2>2 DEF Elems
<1>6. /\ \A j \in DOMAIN t : \/ j \in DOMAIN s /\ t[j] = s[j]
                             \/ j = Len(s) + 1 /\ t[j] = i
      /\ \A j \in DOMAIN s : j < Len(s) + 1
      /\ DOMAIN t \subseteq Nat /\ Len(s) \in Nat
    <2>1. CASE t = s
        BY <2>1
    <2>2. CASE t = Append(s, i)
        BY <2>2
    <2> QED
        BY <2>1, <2>2
<1> HIDE DEF after, out
\* An older entry of the stream that is still in the history was there before.
<1>7. ASSUME NEW j \in DOMAIN s, NEW x \in DOMAIN after, s[j] = after[x], s[j] \notin out
      PROVE  x \in DOMAIN r /\ s[j] = h[x + d] /\ s[j] \notin gone
    <2>1. s[j] \notin gone /\ s[j] \in Elems(h)
        BY <1>7 DEF out, Follows, Handed, Elems
    <2>2. s[j] # i
        BY <2>1
    <2>3. x # Len(r) + 1
        BY <1>4, <1>7, <2>2
    <2> QED
        BY <1>1, <1>4, <1>7, <2>1, <2>3
<1>8. Handed(t, after, out)
    <2> SUFFICES ASSUME NEW j \in DOMAIN t PROVE t[j] \in Elems(after) \union out
        BY DEF Handed, Elems
    <2>1. CASE j \in DOMAIN s /\ t[j] = s[j]
        <3>1. s[j] \in Elems(h) \union gone
            BY <2>1 DEF Follows, Handed, Elems
        <3> QED
            BY <1>2, <1>5, <2>1, <3>1 DEF out
    <2> QED
        BY <1>5, <1>6, <2>1
<1>9. InOrder(t, after, out)
    <2> SUFFICES ASSUME NEW j \in DOMAIN t, NEW k \in DOMAIN t,
                        NEW x \in DOMAIN after, NEW y \in DOMAIN after,
                        t[j] = after[x], t[j] \notin out,
                        t[k] = after[y], t[k] \notin out, j < k
                 PROVE  x < y
        BY DEF InOrder
    <2>1. CASE k \in DOMAIN s /\ t[k] = s[k]
        <3>1. j \in DOMAIN s /\ t[j] = s[j]
            BY <1>6, <2>1
        <3>2. /\ x \in DOMAIN r /\ s[j] = h[x + d] /\ s[j] \notin gone
              /\ y \in DOMAIN r /\ s[k] = h[y + d] /\ s[k] \notin gone
            BY <1>7, <2>1, <3>1
        <3>3. x + d < y + d
            BY <1>1, <2>1, <3>1, <3>2 DEF Follows, InOrder
        <3> QED
            BY <1>4, <3>2, <3>3
    <2>2. CASE k = Len(s) + 1 /\ t[k] = i
        <3>1. j \in DOMAIN s /\ t[j] = s[j]
            BY <1>6, <2>2
        <3>2. x \in DOMAIN r
            BY <1>7, <3>1
        <3>3. y \notin DOMAIN r
            BY <1>3, <1>4, <2>2 DEF Elems
        <3> QED
            BY <1>4, <3>2, <3>3
    <2> QED
        BY <1>6, <2>1, <2>2
<1> QED
    BY <1>8, <1>9 DEF Follows, r, after, out

LEMMA FollowsEmpty ==
    ASSUME NEW h, NEW gone PROVE Follows(<<>>, h, gone)
BY DEF Follows, Handed, InOrder, Elems

\* The hub hands a notification to a stream, and the stream takes one from its channel.
LEMMA PushSent ==
    ASSUME NEW r \in Seq(Ids), NEW q \in Seq(Ids), NEW i \in Ids
    PROVE  r \o Push(q, i) \in {r \o q, Append(r \o q, i)}
BY r \o Append(q, i) = Append(r \o q, i) DEF Push

LEMMA StreamSent ==
    ASSUME NEW r \in Seq(Ids), NEW q \in Seq(Ids), q # <<>>
    PROVE  Append(r, Head(q)) \o Tail(q) = r \o q
OBVIOUS

\* What a step means for a stream that is registered after it: it is new, its node and it
\* keep what they had, or the node took a new notification.
LEMMA StreamStep ==
    ASSUME TypeOK, SendsOnOpen, OneHub, [Next]_vars,
           NEW n \in Nodes, NEW c \in registered'[n]
    PROVE  \/ Sent(c)' = <<>>
           \/ /\ c \in registered[n] /\ Sent(c)' = Sent(c)
              /\ history'[n] = history[n] /\ evicted'[n] = evicted[n]
           \/ /\ c \in registered[n]
              /\ \E i \in Ids :
                   /\ i \notin seen[n]
                   /\ history'[n] = Append(Kept(history[n]), i)
                   /\ evicted'[n] = evicted[n] \union Dropped(history[n])
                   /\ Sent(c)' \in {Sent(c), Append(Sent(c), i)}
<1> DEFINE New == Sent(c)' = <<>>
           Same == /\ c \in registered[n] /\ Sent(c)' = Sent(c)
                   /\ history'[n] = history[n] /\ evicted'[n] = evicted[n]
           More == /\ c \in registered[n]
                   /\ \E i \in Ids :
                        /\ i \notin seen[n]
                        /\ history'[n] = Append(Kept(history[n]), i)
                        /\ evicted'[n] = evicted[n] \union Dropped(history[n])
                        /\ Sent(c)' \in {Sent(c), Append(Sent(c), i)}
<1>1. c \in Clients /\ received[c] \in Seq(Ids) /\ buffer[c] \in Seq(Ids)
    BY NextType DEF TypeOK
<1>2. ASSUME NEW m \in Nodes, NEW i \in Ids, Accept(m, i),
             UNCHANGED <<registered, received>>
      PROVE  Same \/ More
    <2>1. c \in registered[n] /\ received'[c] = received[c]
        BY <1>2
    <2>2. CASE Known(m, i)
        BY <1>2, <2>1, <2>2 DEF Accept, hubVars, Sent
    <2>3. CASE ~Known(m, i)
        <3>1. /\ i \notin seen[m]
              /\ history' = [history EXCEPT ![m] = Append(Kept(history[m]), i)]
              /\ evicted' = [evicted EXCEPT ![m] = @ \union Dropped(history[m])]
              /\ buffer' = [d \in Clients |-> IF d \in registered[m] /\ Matches(d, i)
                                              THEN Push(buffer[d], i) ELSE buffer[d]]
            BY <1>2, <2>3 DEF Accept, Known, Record, Fan, Kept, Dropped, TypeOK
        <3>2. CASE m = n
            <4>1. Sent(c)' \in {Sent(c), Append(Sent(c), i)}
                <5>1. buffer'[c] \in {buffer[c], Push(buffer[c], i)}
                    BY <1>1, <3>1
                <5>2. received[c] \o Push(buffer[c], i) \in {Sent(c), Append(Sent(c), i)}
                    BY <1>1, PushSent DEF Sent
                <5> QED
                    BY <2>1, <5>1, <5>2 DEF Sent
            <4>2. /\ history'[n] = Append(Kept(history[n]), i)
                  /\ evicted'[n] = evicted[n] \union Dropped(history[n])
                BY <3>1, <3>2 DEF TypeOK
            <4> QED
                BY <2>1, <3>1, <3>2, <4>1, <4>2
        <3>3. CASE m # n
            <4>1. c \notin registered[m]
                BY <2>1, <3>3 DEF OneHub
            <4>2. Sent(c)' = Sent(c)
                BY <1>1, <2>1, <3>1, <4>1 DEF Sent
            <4>3. history'[n] = history[n] /\ evicted'[n] = evicted[n]
                BY <3>1, <3>3 DEF TypeOK
            <4> QED
                BY <2>1, <4>2, <4>3
        <3> QED
            BY <3>2, <3>3
    <2> QED
        BY <2>2, <2>3
<1>3. ASSUME NEW m \in Nodes, Crash(m) PROVE Same
    <2>1. /\ history' = [history EXCEPT ![m] = <<>>]
          /\ evicted' = [evicted EXCEPT ![m] = {}]
          /\ registered' = [registered EXCEPT ![m] = {}]
          /\ buffer' = [d \in Clients |-> IF d \in registered[m] THEN <<>> ELSE buffer[d]]
          /\ received' = [d \in Clients |-> IF d \in registered[m] THEN <<>> ELSE received[d]]
        BY <1>3 DEF Crash
    <2>2. m # n /\ c \in registered[n]
        BY <2>1 DEF TypeOK
    <2>3. c \notin registered[m]
        BY <2>2 DEF OneHub
    <2>4. Sent(c)' = Sent(c)
        BY <1>1, <2>1, <2>3 DEF Sent
    <2> QED
        BY <2>1, <2>2, <2>4 DEF TypeOK
<1>4. ASSUME NEW m \in Nodes, NEW i \in Ids, Publish(m, i) PROVE Same \/ More
    BY <1>2, <1>4 DEF Publish
<1>5. ASSUME NEW i \in Ids, NEW p \in Nodes, Replicate(i, p) PROVE Same \/ More
    BY <1>2, <1>5 DEF Replicate
<1>6. ASSUME NEW d \in Clients, NEW m \in Nodes, NEW topics \in Interests, Subscribe(d, m, topics)
      PROVE  New \/ Same
    <2>1. /\ registered' = [registered EXCEPT ![m] = @ \union {d}]
          /\ buffer' = [buffer EXCEPT ![d] = <<>>]
          /\ received' = [received EXCEPT ![d] = <<>>]
          /\ UNCHANGED <<history, evicted>>
        BY <1>6 DEF Subscribe, hubVars
    <2>2. CASE d = c
        <3>1. buffer'[c] = <<>> /\ received'[c] = <<>>
            BY <1>1, <2>1, <2>2 DEF TypeOK
        <3> QED
            BY <3>1 DEF Sent
    <2>3. CASE d # c
        <3>1. c \in registered[n]
            BY <2>1, <2>3 DEF TypeOK
        <3>2. buffer'[c] = buffer[c] /\ received'[c] = received[c]
            BY <1>1, <2>1, <2>3 DEF TypeOK
        <3> QED
            BY <2>1, <3>1, <3>2 DEF Sent
    <2> QED
        BY <2>2, <2>3
<1>7. ASSUME NEW d \in Clients, Stream(d) PROVE Same
    <2>1. /\ received' = [received EXCEPT ![d] = Append(@, Head(buffer[d]))]
          /\ buffer' = [buffer EXCEPT ![d] = Tail(@)]
          /\ buffer[d] # <<>>
          /\ UNCHANGED <<history, evicted, registered>>
        BY <1>7 DEF Stream, hubVars
    <2>2. CASE d = c
        <3>1. /\ received'[c] = Append(received[c], Head(buffer[c]))
              /\ buffer'[c] = Tail(buffer[c])
            BY <1>1, <2>1, <2>2 DEF TypeOK
        <3>2. Append(received[c], Head(buffer[c])) \o Tail(buffer[c]) = received[c] \o buffer[c]
            BY <1>1, <2>1, <2>2, StreamSent
        <3> QED
            BY <2>1, <3>1, <3>2 DEF Sent
    <2>3. CASE d # c
        BY <1>1, <2>1, <2>3 DEF TypeOK, Sent
    <2> QED
        BY <2>2, <2>3
<1>8. ASSUME NEW d \in Clients, Unsubscribe(d) PROVE Same
    <2>1. /\ registered' = [m \in Nodes |-> registered[m] \ {d}]
          /\ buffer' = [buffer EXCEPT ![d] = <<>>]
          /\ received' = [received EXCEPT ![d] = <<>>]
          /\ UNCHANGED <<history, evicted>>
        BY <1>8 DEF Unsubscribe, Unregister, hubVars
    <2>2. c # d /\ c \in registered[n]
        BY <2>1
    <2> QED
        BY <1>1, <2>1, <2>2 DEF TypeOK, Sent
<1>9. ASSUME \/ \E i \in Ids, p \in Nodes : Post(i, p)
             \/ UNCHANGED vars
      PROVE  Same
    BY <1>9 DEF Post, vars, hubVars, streamVars, Sent
<1> HIDE DEF New, Same, More
<1>10. New \/ Same \/ More
    BY <1>3, <1>4, <1>5, <1>6, <1>7, <1>8, <1>9 DEF Next
<1> QED
    BY <1>10 DEF New, Same, More

LEMMA InitFollow == Init => StreamsFollow
BY DEF Init, StreamsFollow

LEMMA NextFollow ==
    TypeOK /\ SeenIsHistory /\ SendsOnOpen /\ OneHub /\ StreamsFollow /\ [Next]_vars
        => StreamsFollow'
<1> SUFFICES ASSUME TypeOK, SeenIsHistory, SendsOnOpen, OneHub, StreamsFollow, [Next]_vars,
                    NEW n \in Nodes, NEW c \in registered'[n]
             PROVE  Follows(Sent(c)', history'[n], evicted'[n])
    BY DEF StreamsFollow, Follows, Handed, InOrder, Sent
<1>1. CASE Sent(c)' = <<>>
    BY <1>1, FollowsEmpty
<1>2. CASE /\ c \in registered[n] /\ Sent(c)' = Sent(c)
           /\ history'[n] = history[n] /\ evicted'[n] = evicted[n]
    BY <1>2 DEF StreamsFollow
<1>3. ASSUME c \in registered[n],
             NEW i \in Ids, i \notin seen[n],
             history'[n] = Append(Kept(history[n]), i),
             evicted'[n] = evicted[n] \union Dropped(history[n]),
             Sent(c)' \in {Sent(c), Append(Sent(c), i)}
      PROVE  Follows(Sent(c)', history'[n], evicted'[n])
    <2>1. /\ history[n] \in Seq(Ids) /\ Len(history[n]) <= HistoryMax
          /\ Distinct(history[n]) /\ i \notin Elems(history[n])
        BY <1>3, SeenDef DEF TypeOK
    <2>2. Sent(c) \in Seq(Ids)
        BY <1>3 DEF TypeOK, Sent
    <2>3. Follows(Sent(c), history[n], evicted[n])
        BY <1>3 DEF StreamsFollow
    <2>4. \A t \in {Sent(c), Append(Sent(c), i)} :
            Follows(t, Append(Kept(history[n]), i), evicted[n] \union Dropped(history[n]))
        BY <2>1, <2>2, <2>3, FollowsNew
    <2> QED
        BY <1>3, <2>4
<1> QED
    BY <1>1, <1>2, <1>3, StreamStep

LEMMA FollowIsOrder == StreamsFollow => StreamsInOrder
BY DEF StreamsFollow, Follows, InOrder, StreamsInOrder

\* What comes twice was evicted in between: a notification of the history would have to
\* stand before itself.
LEMMA FollowIsOnce == TypeOK /\ StreamsFollow => OncePerStream
<1> SUFFICES ASSUME TypeOK, StreamsFollow, NEW n \in Nodes, NEW c \in registered[n]
             PROVE  \A j, k \in DOMAIN Sent(c) :
                      j # k /\ Sent(c)[j] = Sent(c)[k] => Sent(c)[j] \in evicted[n]
    BY DEF OncePerStream
<1>0. ASSUME NEW j \in DOMAIN Sent(c), NEW k \in DOMAIN Sent(c),
             j < k, Sent(c)[j] = Sent(c)[k], Sent(c)[j] \notin evicted[n]
      PROVE  FALSE
    <2>1. Follows(Sent(c), history[n], evicted[n])
        BY DEF StreamsFollow
    <2>2. Sent(c)[j] \in Elems(history[n])
        BY <1>0, <2>1 DEF Follows, Handed, Elems
    <2>3. PICK x \in DOMAIN history[n] : Sent(c)[j] = history[n][x]
        BY <2>2 DEF Elems
    <2>4. x < x
        BY <1>0, <2>1, <2>3 DEF Follows, InOrder
    <2>5. x \in Nat
        BY <2>3 DEF TypeOK
    <2> QED
        BY <2>4, <2>5
<1>1. c \in Clients /\ received[c] \in Seq(Ids) /\ buffer[c] \in Seq(Ids)
    BY DEF TypeOK
<1>2. Sent(c) \in Seq(Ids)
    BY <1>1 DEF Sent
<1>3. \A j, k \in DOMAIN Sent(c) : j = k \/ j < k \/ k < j
    BY <1>2
<1>4. ASSUME NEW j \in DOMAIN Sent(c), NEW k \in DOMAIN Sent(c),
             j # k, Sent(c)[j] = Sent(c)[k], Sent(c)[j] \notin evicted[n]
      PROVE  FALSE
    <2>1. CASE j < k
        BY <1>0, <1>4, <2>1
    <2>2. CASE k < j
        BY <1>0, <1>4, <2>2
    <2> QED
        BY <1>3, <1>4, <2>1, <2>2
<1> QED
    BY <1>4

\* All the streams of a node carry its notifications in the order of its history.
THEOREM StreamsInOrderHolds == Spec => []StreamsInOrder
BY InitType, NextType, InitSeen, NextSeen, InitStreams, NextStreams, InitFollow, NextFollow,
   FollowIsOrder, PTL DEF Spec

\* A stream carries a notification once, whatever requests repeat it, unless it left the
\* history in between.
THEOREM OncePerStreamHolds == Spec => []OncePerStream
BY InitType, NextType, InitSeen, NextSeen, InitStreams, NextStreams, InitFollow, NextFollow,
   FollowIsOnce, PTL DEF Spec

----------------------------------------------------------------------------
(* The refinement of the abstract log.                                     *)

LEMMA InitLog == Init => Log!Init
BY DEF Init, Log!Init

LEMMA NextLog ==
    TypeOK /\ SeenIsHistory /\ [Next]_vars => [Log!Next]_history
<1> SUFFICES ASSUME TypeOK, SeenIsHistory, [Next]_vars PROVE [Log!Next]_history
    OBVIOUS
<1>1. ASSUME NEW n \in Nodes, Restart(n) PROVE Log!Next
    BY <1>1 DEF Restart, Log!Forget, Log!Next
<1>2. ASSUME NEW n \in Nodes, NEW i \in Ids, Take(n, i) PROVE Log!Next
    <2>1. history[n] \in Seq(Ids) /\ Len(history[n]) <= HistoryMax /\ Len(history[n]) \in Nat
        BY DEF TypeOK
    <2>2. ~Log!Holds(n, i)
        BY <1>2 DEF Take, SeenIsHistory, Elems, Log!Holds
    <2>3. Kept(history[n]) = IF Len(history[n]) = HistoryMax THEN Tail(history[n]) ELSE history[n]
        BY <2>1 DEF Kept
    <2>4. history' = [history EXCEPT ![n] =
                        Append(IF Len(@) = HistoryMax THEN Tail(@) ELSE @, i)]
        BY <1>2, <2>3 DEF Take, TypeOK
    <2> QED
        BY <2>2, <2>4 DEF Log!Add, Log!Next
<1> QED
    BY <1>1, <1>2, HubStep

\* The hubs implement bounded logs: every step of theirs adds one notification that the
\* history does not hold, dropping the oldest of a full one, forgets a history whose
\* process dies, or leaves the histories alone.
THEOREM ImplementsBoundedLog == Spec => HistoryIsBoundedLog
<1>1. Spec => [](TypeOK /\ SeenIsHistory)
    BY InitType, NextType, InitSeen, NextSeen, PTL DEF Spec
<1>2. Init => Log!Init
    BY InitLog
<1> QED
    BY <1>1, <1>2, NextLog, PTL DEF Spec, HistoryIsBoundedLog, Log!Spec

=============================================================================
