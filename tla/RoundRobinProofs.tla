-------------------------- MODULE RoundRobinProofs --------------------------
(***************************************************************************)
(* Proofs about RoundRobin for every list of hosts, every number of        *)
(* requests in flight and every health map.                                *)
(***************************************************************************)
EXTENDS RoundRobin, TLAPS

\* The loop of Elect: a request that may take a turn has turns left, and a request that
\* checks a host holds a slot of the list.
LoopInv ==
    \A r \in Requests :
        /\ pc[r] = "take" => tries[r] < N
        /\ pc[r] = "check" => slot[r] \in Slots /\ tries[r] \in Slots

TypeInv == TypeOK /\ LoopInv

LEMMA LengthIsNat == N \in Nat
BY HostsAssumption DEF N

\* The cursor of a list that is not empty points into the list.
LEMMA CursorInList ==
  ASSUME current \in 0 .. N, N > 0
  PROVE  Cursor + 1 \in Slots
BY LengthIsNat DEF Cursor, Slots

LEMMA InitTypeInv == Init => TypeInv
BY LengthIsNat DEF Init, TypeInv, TypeOK, LoopInv

LEMMA NextTypeInv == TypeInv /\ [Next]_vars => TypeInv'
<1> SUFFICES ASSUME TypeInv, [Next]_vars PROVE TypeInv'
  OBVIOUS
<1> USE LengthIsNat DEF TypeInv, electVars, healthVars, historyVars
<1>1. ASSUME NEW r \in Requests, Elect(r) PROVE TypeInv'
  BY <1>1 DEF TypeOK, LoopInv, Elect, Slots
<1>2. ASSUME NEW r \in Requests, TakeHost(r) PROVE TypeInv'
  <2>1. Cursor + 1 \in Slots /\ Cursor + 1 \in 0 .. N
    BY <1>2, CursorInList DEF TypeOK, LoopInv, TakeHost, Slots
  <2>2. tries[r] + 1 \in Slots /\ tries[r] + 1 \in 0 .. N
    BY <1>2 DEF TypeOK, LoopInv, TakeHost, Slots
  <2>3. lap' \in SUBSET Slots
    BY <1>2, <2>1 DEF TypeOK, TakeHost
  <2>4. disturbed' \in [Requests -> BOOLEAN]
    BY <1>2 DEF TypeOK, TakeHost
  <2> QED
    BY <1>2, <2>1, <2>2, <2>3, <2>4 DEF TypeOK, LoopInv, TakeHost, CountTurn
<1>3. ASSUME NEW r \in Requests, CheckHost(r) PROVE TypeInv'
  <2>1. slot[r] \in Slots /\ slot[r] \in 0 .. N
    BY <1>3 DEF LoopInv, CheckHost, Slots
  <2>2. \/ /\ result' = [result EXCEPT ![r] = slot[r]]
           /\ pc' = [pc EXCEPT ![r] = "idle"]
           /\ refused' = [refused EXCEPT ![r] = {}]
        \/ /\ result' = result
           /\ \/ pc' = [pc EXCEPT ![r] = "take"] /\ tries[r] < N
              \/ pc' = [pc EXCEPT ![r] = "idle"]
           /\ refused' = [refused EXCEPT ![r] = refused[r] \union {slot[r]}]
    BY <1>3 DEF CheckHost, Again
  <2>3. /\ result' \in [Requests -> 0 .. N]
        /\ pc' \in [Requests -> {"idle", "take", "check"}]
        /\ refused' \in [Requests -> SUBSET Slots]
    BY <2>1, <2>2 DEF TypeOK
  <2> QED
    BY <1>3, <2>2, <2>3 DEF TypeOK, LoopInv, CheckHost
<1>4. ASSUME NEW active \in SUBSET Keys, SyncHealth(active) PROVE TypeInv'
  BY <1>4 DEF TypeOK, LoopInv, SyncHealth
<1>5. CASE UNCHANGED vars
  BY <1>5 DEF vars, TypeOK, LoopInv
<1> QED
  BY <1>1, <1>2, <1>3, <1>4, <1>5 DEF Next

\* Every variable keeps its type: no interleaving of requests moves the cursor or a slot
\* out of the list of hosts.
THEOREM TypeCorrect == Spec => []TypeOK
<1>1. Spec => []TypeInv
  BY InitTypeInv, NextTypeInv, PTL DEF Spec
<1> QED
  BY <1>1, PTL DEF TypeInv

----------------------------------------------------------------------------
(* Fair turns: the lap is what lies before the cursor.                     *)

LapInv == lap = 1 .. current

LEMMA NextLapInv == TypeInv /\ LapInv /\ [Next]_vars => LapInv'
<1> SUFFICES ASSUME TypeInv, LapInv, [Next]_vars PROVE LapInv'
  OBVIOUS
<1> USE LengthIsNat DEF LapInv
<1>1. ASSUME NEW r \in Requests, TakeHost(r) PROVE LapInv'
  <2>1. current \in 0 .. N /\ N > 0
    BY <1>1 DEF TypeInv, TypeOK, LoopInv, TakeHost
  <2>2. /\ current' = Cursor + 1
        /\ lap' = (IF lap = Slots THEN {} ELSE lap) \union {Cursor + 1}
    BY <1>1 DEF TakeHost
  <2>3. CASE current = N
    BY <2>1, <2>2, <2>3 DEF Cursor, Slots
  <2>4. CASE current # N
    <3>1. lap # Slots
      BY <2>1, <2>4 DEF Slots
    <3> QED
      BY <2>1, <2>2, <2>4, <3>1 DEF Cursor
  <2> QED
    BY <2>3, <2>4
<1>2. ASSUME NEW r \in Requests, Elect(r) \/ CheckHost(r) PROVE LapInv'
  BY <1>2 DEF Elect, CheckHost
<1>3. ASSUME NEW active \in SUBSET Keys, SyncHealth(active) PROVE LapInv'
  BY <1>3 DEF SyncHealth, electVars
<1>4. CASE UNCHANGED vars
  BY <1>4 DEF vars, electVars, historyVars
<1> QED
  BY <1>1, <1>2, <1>3, <1>4 DEF Next

\* For every list of hosts and every number of concurrent requests, no host gets a second
\* turn before every other host had one.
THEOREM FairTurnsHolds == Spec => FairTurns
<1> DEFINE Step ==
      \A r \in Requests :
        pc[r] = "take" /\ pc'[r] = "check" /\ slot'[r] \in lap => lap = Slots
<1>1. Init => TypeInv /\ LapInv
  BY InitTypeInv DEF Init, LapInv
<1>2. TypeInv /\ LapInv /\ [Next]_vars => [Step]_vars
  <2> SUFFICES ASSUME TypeInv, LapInv, [Next]_vars, NEW r \in Requests,
                      pc[r] = "take", pc'[r] = "check", slot'[r] \in lap
               PROVE  lap = Slots
    OBVIOUS
  <2> USE LengthIsNat DEF TypeInv
  <2>1. TakeHost(r)
    <3>1. ASSUME NEW q \in Requests, Elect(q) PROVE FALSE
      BY <3>1 DEF TypeOK, Elect
    <3>2. ASSUME NEW q \in Requests, CheckHost(q) PROVE FALSE
      BY <3>2 DEF TypeOK, CheckHost
    <3>3. ASSUME NEW q \in Requests, TakeHost(q), q # r PROVE FALSE
      BY <3>3 DEF TypeOK, TakeHost
    <3>4. ASSUME NEW active \in SUBSET Keys, SyncHealth(active) PROVE FALSE
      BY <3>4 DEF SyncHealth, electVars
    <3>5. CASE UNCHANGED vars
      BY <3>5 DEF vars, electVars
    <3> QED
      BY <3>1, <3>2, <3>3, <3>4, <3>5 DEF Next
  <2>2. slot'[r] = Cursor + 1 /\ current \in 0 .. N
    BY <2>1 DEF TypeOK, TakeHost
  <2> QED
    BY <2>2 DEF LapInv, Cursor, Slots
<1> QED
  BY <1>1, <1>2, NextTypeInv, NextLapInv, PTL DEF Spec, FairTurns

----------------------------------------------------------------------------
(* Full sweep: the slots an undisturbed election has taken are the last    *)
(* ones before the cursor, round the end of the list.                      *)

\* The k slots that end at slot c.
Window(c, k) == {i \in Slots : (c - k < i /\ i <= c) \/ i > c + N - k}

Taken(r) == refused[r] \union (IF pc[r] = "check" THEN {slot[r]} ELSE {})

SweepInv ==
    \A r \in Requests :
        /\ pc[r] # "idle" /\ ~disturbed[r] => Taken(r) = Window(current, tries[r])
        /\ Failed(r) /\ ~disturbed[r] => refused[r] = Slots

\* A window of all turns is the whole list.
LEMMA FullWindow ==
  ASSUME NEW c \in 0 .. N
  PROVE  Window(c, N) = Slots
BY LengthIsNat DEF Window, Slots

\* A turn extends the window by the slot behind the cursor.
LEMMA WindowGrows ==
  ASSUME current \in 0 .. N, NEW k \in 0 .. N, k < N
  PROVE  Window(Cursor + 1, k + 1) = Window(current, k) \union {Cursor + 1}
BY LengthIsNat DEF Window, Cursor, Slots

LEMMA NextSweepInv == TypeInv /\ SweepInv /\ [Next]_vars => SweepInv'
<1> SUFFICES ASSUME TypeInv, SweepInv, [Next]_vars, NEW q \in Requests
             PROVE  /\ pc'[q] # "idle" /\ ~disturbed'[q]
                         => Taken(q)' = Window(current', tries'[q])
                    /\ Failed(q)' /\ ~disturbed'[q] => refused'[q] = Slots
  BY DEF SweepInv, Window, Slots
<1> DEFINE Goal ==
      /\ pc'[q] # "idle" /\ ~disturbed'[q] => Taken(q)' = Window(current', tries'[q])
      /\ Failed(q)' /\ ~disturbed'[q] => refused'[q] = Slots
<1> USE LengthIsNat DEF TypeInv
<1>1. /\ pc[q] # "idle" /\ ~disturbed[q] => Taken(q) = Window(current, tries[q])
      /\ Failed(q) /\ ~disturbed[q] => refused[q] = Slots
  BY DEF SweepInv
<1>2. CASE /\ pc'[q] = pc[q] /\ tries'[q] = tries[q] /\ slot'[q] = slot[q]
           /\ refused'[q] = refused[q] /\ result'[q] = result[q]
           /\ disturbed'[q] = disturbed[q] /\ (current' = current \/ pc[q] = "idle")
  BY <1>1, <1>2 DEF Taken, Failed
<1>3. ASSUME NEW r \in Requests, Elect(r) PROVE Goal
  <2>1. CASE r = q
    <3>1. Window(current, 0) = {}
      BY DEF TypeOK, Window, Slots
    <3>2. /\ tries'[q] = 0 /\ current' = current /\ refused'[q] = {}
          /\ pc'[q] \in {"idle", "take"}
      BY <1>3, <2>1 DEF TypeOK, Elect
    <3> QED
      BY <3>1, <3>2 DEF Taken, Failed
  <2>2. CASE r # q
    BY <1>2, <1>3, <2>2 DEF TypeOK, Elect
  <2> QED
    BY <2>1, <2>2
<1>4. ASSUME NEW r \in Requests, TakeHost(r) PROVE Goal
  <2>1. CASE r = q
    <3>1. /\ pc'[q] = "check" /\ slot'[q] = Cursor + 1 /\ current' = Cursor + 1
          /\ tries'[q] = tries[q] + 1 /\ refused'[q] = refused[q]
          /\ disturbed'[q] = disturbed[q] /\ pc[q] = "take"
      BY <1>4, <2>1 DEF TypeOK, TakeHost, CountTurn
    <3>2. tries[q] \in 0 .. N /\ tries[q] < N /\ current \in 0 .. N
      BY <3>1 DEF TypeOK, LoopInv
    <3>3. Window(current', tries'[q]) = Window(current, tries[q]) \union {slot'[q]}
      BY <3>1, <3>2, WindowGrows
    <3> QED
      BY <1>1, <3>1, <3>3 DEF Taken, Failed
  <2>2. CASE r # q /\ pc[q] # "idle"
    BY <1>4, <2>2 DEF TypeOK, TakeHost, Failed
  <2>3. CASE r # q /\ pc[q] = "idle"
    BY <1>2, <1>4, <2>3 DEF TypeOK, TakeHost, CountTurn
  <2> QED
    BY <2>1, <2>2, <2>3
<1>5. ASSUME NEW r \in Requests, CheckHost(r) PROVE Goal
  <2>1. CASE r = q
    <3>1. /\ current' = current /\ tries'[q] = tries[q] /\ disturbed'[q] = disturbed[q]
          /\ pc[q] = "check" /\ slot[q] \in Slots /\ tries[q] \in Slots
      BY <1>5, <2>1 DEF TypeOK, LoopInv, CheckHost
    <3>2. \/ pc'[q] = "idle" /\ result'[q] = slot[q]
          \/ /\ refused'[q] = refused[q] \union {slot[q]}
             /\ pc'[q] = "take" \/ (pc'[q] = "idle" /\ ~(tries[q] < N))
      BY <1>5, <2>1 DEF TypeOK, CheckHost, Again
    <3>3. CASE pc'[q] = "idle" /\ result'[q] = slot[q]
      BY <3>1, <3>3 DEF Failed, Slots
    <3>4. CASE /\ refused'[q] = refused[q] \union {slot[q]}
               /\ pc'[q] = "take" \/ (pc'[q] = "idle" /\ ~(tries[q] < N))
      <4>1. ~disturbed'[q] => refused'[q] = Window(current', tries'[q])
        BY <1>1, <3>1, <3>4 DEF Taken
      <4>2. pc'[q] = "idle" => tries'[q] = N
        BY <3>1, <3>4 DEF Slots
      <4>3. Window(current', N) = Slots
        BY <3>1, FullWindow DEF TypeOK
      <4> QED
        BY <3>4, <4>1, <4>2, <4>3 DEF Taken, Failed
    <3> QED
      BY <3>2, <3>3, <3>4
  <2>2. CASE r # q
    BY <1>2, <1>5, <2>2 DEF TypeOK, CheckHost
  <2> QED
    BY <2>1, <2>2
<1>6. ASSUME NEW active \in SUBSET Keys, SyncHealth(active) PROVE Goal
  BY <1>2, <1>6 DEF SyncHealth, electVars
<1>7. CASE UNCHANGED vars
  BY <1>2, <1>7 DEF vars, electVars, historyVars
<1> QED
  BY <1>3, <1>4, <1>5, <1>6, <1>7 DEF Next

\* Wherever the cursor is when it begins, an election that no other request disturbs
\* fails only after it asked for every host of the list.
THEOREM FullSweepHolds == Spec => []FullSweep
<1>1. Init => TypeInv /\ SweepInv
  BY InitTypeInv DEF Init, SweepInv, Failed
<1>2. SweepInv => FullSweep
  BY DEF SweepInv, FullSweep
<1> QED
  BY <1>1, <1>2, NextTypeInv, NextSweepInv, PTL DEF Spec

=============================================================================
