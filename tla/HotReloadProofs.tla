--------------------------- MODULE HotReloadProofs ---------------------------
(***************************************************************************)
(* Proofs about HotReload for every number of definitions, requests,       *)
(* faults and places in configurationChan.                                 *)
(***************************************************************************)
EXTENDS HotReload, FiniteSetTheorems, SequenceTheorems, WellFoundedInduction, TLAPS

----------------------------------------------------------------------------
(* Induction over the places of a list.                                    *)

\* The library has induction over the naturals in the form of the well-foundedness of <.
LEMMA LeastNatural ==
  ASSUME NEW T, T \subseteq Nat, T # {}
  PROVE  \E n \in T : \A m \in T : n <= m
<1> DEFINE R == OpToRel(<, Nat)
<1>1. IsWellFoundedOn(R, Nat)
  BY NatLessThanWellFounded
<1>2. \A m, n \in T : <<m, n>> \in R <=> m < n
  BY DEF OpToRel
<1> HIDE DEF R
<1>3. PICK n \in T : \A m \in T : ~(<<m, n>> \in R)
  BY <1>1, WFMin
<1>4. n \in Nat /\ \A m \in T : ~(m < n) /\ m \in Nat
  BY <1>2, <1>3
<1> QED
  BY <1>4

\* A set of positions that has the first and with each one the next has them all.
LEMMA Induction ==
  ASSUME NEW n \in Nat, NEW S, 0 \in S, \A i \in 0 .. n - 1 : i \in S => i + 1 \in S
  PROVE  0 .. n \subseteq S
<1> SUFFICES ASSUME (0 .. n) \ S # {} PROVE FALSE
  OBVIOUS
<1>1. PICK k \in (0 .. n) \ S : \A m \in (0 .. n) \ S : k <= m
  <2> DEFINE T == (0 .. n) \ S
  <2>1. T \subseteq Nat /\ T # {}
    OBVIOUS
  <2> HIDE DEF T
  <2>2. \E k \in T : \A m \in T : k <= m
    BY <2>1, LeastNatural
  <2> QED
    BY <2>2 DEF T
<1>2. k # 0 /\ k - 1 \in 0 .. n - 1
  BY <1>1
<1>3. k - 1 \in S
  BY <1>1, <1>2
<1> QED
  BY <1>1, <1>2, <1>3

\* A finite set of naturals has a bound: one of its first k elements, for each k in turn.
LEMMA Bounded ==
  ASSUME NEW S, S \subseteq Nat, IsFiniteSet(S)
  PROVE  \E b \in Nat : \A x \in S : x <= b
<1> DEFINE c == Cardinality(S)
<1>1. c \in Nat /\ ExistsBijection(1 .. c, S)
  BY FS_CardinalityType
<1>2. PICK g \in [1 .. c -> S] : \A x \in S : \E i \in 1 .. c : g[i] = x
  BY <1>1 DEF ExistsBijection, Bijection, Surjection
<1> DEFINE D == {i \in 0 .. c : \E b \in Nat : \A k \in 1 .. i : g[k] <= b}
<1> HIDE DEF c
<1>g. \A k \in 1 .. c : g[k] \in Nat
  <2> TAKE k \in 1 .. c
  <2>1. g[k] \in S
    BY <1>2
  <2> QED
    BY <2>1
<1>3. 0 \in D
  BY <1>1
<1>4. ASSUME NEW i \in 0 .. c - 1, i \in D PROVE i + 1 \in D
  <2>1. PICK b \in Nat : \A k \in 1 .. i : g[k] <= b
    BY <1>4
  <2>2. i + 1 \in 1 .. c /\ g[i + 1] \in Nat
    BY <1>1, <1>g
  <2>3. PICK d \in Nat : b <= d /\ g[i + 1] <= d
    <3>1. CASE b <= g[i + 1]
      BY <2>2, <3>1
    <3>2. CASE g[i + 1] <= b
      BY <3>2
    <3> QED
      BY <2>2, <3>1, <3>2
  <2>4. \A k \in 1 .. i + 1 : g[k] <= d
    <3> TAKE k \in 1 .. i + 1
    <3>1. g[k] \in Nat
      BY <1>1, <1>g
    <3>2. CASE k = i + 1
      BY <2>3, <3>2
    <3>3. CASE k \in 1 .. i
      BY <2>1, <2>3, <3>1, <3>3
    <3> QED
      BY <3>2, <3>3
  <2> QED
    BY <2>2, <2>4, <1>1
<1>5. c \in D
  <2> HIDE DEF D
  <2>1. \A i \in 0 .. c - 1 : i \in D => i + 1 \in D
    BY <1>4
  <2>2. 0 .. c \subseteq D
    BY <1>1, <1>3, <2>1, Induction
  <2> QED
    BY <1>1, <2>2
<1>6. PICK b \in Nat : \A k \in 1 .. c : g[k] <= b
  BY <1>5
<1> QED
  BY <1>2, <1>6

\* Every place of a finite set of positive naturals is taken by one of its elements.
LEMMA Places ==
  ASSUME NEW S, S \subseteq Nat \ {0}, IsFiniteSet(S), NEW k \in 1 .. Cardinality(S)
  PROVE  Nth(S, k) \in S /\ Place(S, Nth(S, k)) = k
<1> DEFINE below(j) == {y \in S : y <= j}
           T == {j \in Nat : k <= Cardinality(below(j))}
<1>1. \A j \in Nat : below(j) \subseteq S /\ IsFiniteSet(below(j)) /\ Cardinality(below(j)) \in Nat
  <2> TAKE j \in Nat
  <2>1. below(j) \in SUBSET S
    OBVIOUS
  <2> HIDE DEF below
  <2> QED
    BY <2>1, FS_Subset, FS_CardinalityType
<1>2. PICK b \in Nat : \A x \in S : x <= b
  BY Bounded
<1>3. below(b) = S
  BY <1>2
<1>4. b \in T
  BY <1>3
<1>5. PICK m \in T : \A j \in T : m <= j
  <2>1. T \subseteq Nat /\ T # {}
    BY <1>4
  <2> HIDE DEF T
  <2> QED
    BY <2>1, LeastNatural
<1>6. m # 0
  <2>1. \A x \in S : ~(x <= 0)
    OBVIOUS
  <2>2. below(0) = {}
    BY <2>1
  <2> QED
    BY <1>5, <2>2, FS_EmptySet
<1>7. m \in Nat /\ m - 1 \in Nat /\ ~(m <= m - 1)
  BY <1>5, <1>6
<1>8. k \in Nat /\ k <= Cardinality(below(m)) /\ ~(k <= Cardinality(below(m - 1)))
  <2>1. k \in Nat /\ \A j \in Nat : j \in T <=> k <= Cardinality(below(j))
    BY FS_CardinalityType
  <2> HIDE DEF T, below
  <2>2. m \in T /\ m - 1 \notin T
    BY <1>5, <1>7
  <2> QED
    BY <1>7, <2>1, <2>2
<1>9. \A y \in S : y <= m <=> y <= m - 1 \/ y = m
  <2> TAKE y \in S
  <2>1. y \in Nat
    OBVIOUS
  <2> QED
    BY <1>7, <2>1
<1>10. CASE m \notin S
  <2>1. below(m) = below(m - 1)
    BY <1>9, <1>10
  <2> QED
    BY <1>8, <2>1
<1>11. CASE m \in S
  <2>1. below(m) = below(m - 1) \union {m}
    BY <1>7, <1>9, <1>11
  <2>2. m \notin below(m - 1)
    BY <1>7
  <2> DEFINE x == Cardinality(below(m))
             y == Cardinality(below(m - 1))
  <2>3. x = y + 1
    <3> HIDE DEF below
    <3> QED
      BY <1>1, <1>7, <2>1, <2>2, FS_AddElement
  <2>4. x \in Nat /\ y \in Nat
    BY <1>1, <1>7
  <2>5. k <= x /\ ~(k <= y) /\ k \in Nat
    BY <1>8
  <2>6. x = k
    <3> HIDE DEF x, y
    <3> QED
      BY <2>3, <2>4, <2>5
  <2>7. Place(S, m) = k
    BY <2>6 DEF Place
  <2> QED
    BY <1>11, <2>7 DEF Nth
<1> QED
  BY <1>10, <1>11

----------------------------------------------------------------------------
(* What the helpers return.                                                *)

Held(store) == {n \in Names : store[n] # NoPath}

LEMMA HeldNames ==
  ASSUME NEW store
  PROVE  /\ Held(store) \subseteq Nat \ {0} /\ IsFiniteSet(Held(store))
         /\ Cardinality(Held(store)) \in Nat
         /\ Cardinality(Held(store)) <= Cardinality(Names)
<1>1. Held(store) \in SUBSET Names
  BY DEF Held
<1> QED
  BY <1>1, NamesAssumption, FS_Subset, FS_CardinalityType DEF NoName

\* What the datastore returns is a list of definitions, one for each name.
LEMMA SortedType ==
  ASSUME NEW store, \A n \in Names : store[n] \in AllPaths \union {NoPath}
  PROVE  /\ Sorted(store) \in Seq(Contents)
         /\ DOMAIN Sorted(store) = 1 .. Cardinality(Held(store))
<1> DEFINE c == Cardinality(Held(store))
           s == Sorted(store)
<1>1. s = [k \in 1 .. c |-> [name |-> Nth(Held(store), k), path |-> store[Nth(Held(store), k)]]]
  BY DEF Sorted, Held
<1>2. c \in Nat
  BY HeldNames
<1>3. \A k \in 1 .. c : s[k] \in Contents
  <2> TAKE k \in 1 .. c
  <2>1. Nth(Held(store), k) \in Held(store)
    BY HeldNames, Places
  <2>2. Nth(Held(store), k) \in Names /\ store[Nth(Held(store), k)] \in AllPaths
    BY <2>1 DEF Held
  <2>3. s[k] = [name |-> Nth(Held(store), k), path |-> store[Nth(Held(store), k)]]
    BY <1>1
  <2> QED
    BY <2>2, <2>3 DEF Contents
<1>4. s = [k \in 1 .. c |-> s[k]] /\ DOMAIN s = 1 .. c
  BY <1>1
<1> HIDE DEF s, c
<1> QED
  BY <1>2, <1>3, <1>4 DEF s, c

LEMMA LeastExists ==
  ASSUME NEW S, S \subseteq Nat, S # {}
  PROVE  Least(S) \in S /\ \A x \in S : Least(S) <= x
BY LeastNatural DEF Least

LEMMA GreatestExists ==
  ASSUME NEW n \in Nat, NEW S, S \subseteq 1 .. n, S # {}
  PROVE  Greatest(S) \in S /\ \A x \in S : x <= Greatest(S)
<1> DEFINE T == {n - x : x \in S}
<1>1. T \subseteq Nat /\ T # {}
  OBVIOUS
<1>2. PICK y \in T : \A z \in T : y <= z
  <2> HIDE DEF T
  <2> QED
    BY <1>1, LeastNatural
<1>3. PICK x \in S : y = n - x
  BY <1>2
<1>4. \A z \in S : z <= x
  <2> TAKE z \in S
  <2>1. n - x <= n - z
    BY <1>2, <1>3
  <2>2. x \in 1 .. n /\ z \in 1 .. n
    OBVIOUS
  <2> QED
    BY <2>1, <2>2
<1> QED
  BY <1>4 DEF Greatest

LEMMA RouterType ==
  ASSUME NEW s \in Seq(Contents)
  PROVE  RouterOf(s) \in [Paths -> Names \union {NoName}]
<1> DEFINE at(p) == {k \in DOMAIN s : s[k].path = p}
<1>1. ASSUME NEW p \in Paths, at(p) # {} PROVE s[Greatest(at(p))].name \in Names
  <2>1. Len(s) \in Nat /\ at(p) \subseteq 1 .. Len(s)
    OBVIOUS
  <2> HIDE DEF at
  <2>2. Greatest(at(p)) \in 1 .. Len(s)
    BY <1>1, <2>1, GreatestExists
  <2>3. s[Greatest(at(p))] \in Contents
    BY <2>2
  <2> QED
    BY <2>3 DEF Contents
<1>2. RouterOf(s) = [p \in Paths |-> IF at(p) = {} THEN NoName ELSE s[Greatest(at(p))].name]
  BY DEF RouterOf
<1> HIDE DEF at
<1> QED
  BY <1>1, <1>2

\* A subset of the positive naturals below five that leaves one out: a router that is free.
LEMMA RouterFree ==
  ASSUME NEW a \in Routers, NEW b \in Routers, NEW c \in Routers, NEW S,
         S \subseteq {a, b, c}
  PROVE  Least(Routers \ S) \in Routers \ S
<1>1. Routers \ S \subseteq Nat
  BY DEF Routers
<1>2. Routers \ S # {}
  BY DEF Routers
<1> QED
  BY <1>1, <1>2, LeastExists

----------------------------------------------------------------------------
(* The loop of RemovedOperation.                                           *)

Whole(s) == [array |-> s, len |-> Len(s), ok |-> TRUE]

\* What Turns is about.
TurnsTo(s, n, r) ==
    r = [i \in 0 .. Len(s) |-> IF i = 0 THEN Whole(s) ELSE Turn(r[i - 1], i, n)]

\* The recursive definition of Turns has a value for every list.
LEMMA TurnsExist ==
  ASSUME NEW s, Len(s) \in Nat, NEW n
  PROVE  TurnsTo(s, n, Turns(s, n))
<1> DEFINE m == Len(s)
           Until(r, i) ==
             r = [j \in 0 .. i |-> IF j = 0 THEN Whole(s) ELSE Turn(r[j - 1], j, n)]
           S == {i \in 0 .. m : \E r : Until(r, i)}
<1>1. m \in Nat
  OBVIOUS
<1>2. 0 \in S
  <2>1. Until([j \in 0 .. 0 |-> Whole(s)], 0)
    OBVIOUS
  <2> HIDE DEF Until
  <2> QED
    BY <1>1, <2>1
<1>3. ASSUME NEW i \in 0 .. m - 1, i \in S
      PROVE  i + 1 \in S
  <2>1. PICK r : Until(r, i)
    BY <1>3
  <2> DEFINE q == [j \in 0 .. i + 1 |-> IF j <= i THEN r[j] ELSE Turn(r[i], i + 1, n)]
  <2>2. i \in Nat /\ i + 1 \in 0 .. m
    BY <1>1
  <2>3. \A j \in 0 .. i : r[j] = IF j = 0 THEN Whole(s) ELSE Turn(r[j - 1], j, n)
    BY <2>1
  <2>4. \A j \in 0 .. i + 1 : q[j] = IF j = 0 THEN Whole(s) ELSE Turn(q[j - 1], j, n)
    <3> TAKE j \in 0 .. i + 1
    <3>1. CASE j = 0
      BY <2>2, <2>3, <3>1
    <3>2. CASE j \in 1 .. i
      BY <2>2, <2>3, <3>2
    <3>3. CASE j = i + 1
      BY <2>2, <3>3
    <3> QED
      BY <2>2, <3>1, <3>2, <3>3
  <2>5. Until(q, i + 1)
    BY <2>4
  <2> QED
    BY <2>2, <2>5
<1>4. m \in S
  <2> HIDE DEF S
  <2>1. \A i \in 0 .. m - 1 : i \in S => i + 1 \in S
    BY <1>3
  <2>2. 0 .. m \subseteq S
    BY <1>1, <1>2, <2>1, Induction
  <2> QED
    BY <1>1, <2>2
<1>5. \E r : TurnsTo(s, n, r)
  BY <1>4 DEF TurnsTo
<1> QED
  BY <1>5 DEF Turns, TurnsTo, Whole

LEMMA TurnSteps ==
  ASSUME NEW s, Len(s) \in Nat, NEW n
  PROVE  /\ Turns(s, n)[0] = Whole(s)
         /\ \A i \in 1 .. Len(s) : Turns(s, n)[i] = Turn(Turns(s, n)[i - 1], i, n)
<1>1. TurnsTo(s, n, Turns(s, n))
  BY TurnsExist
<1>2. \A i \in 0 .. Len(s) :
        Turns(s, n)[i] = IF i = 0 THEN Whole(s) ELSE Turn(Turns(s, n)[i - 1], i, n)
  <2> DEFINE r == Turns(s, n)
  <2>1. r = [i \in 0 .. Len(s) |-> IF i = 0 THEN Whole(s) ELSE Turn(r[i - 1], i, n)]
    BY <1>1 DEF TurnsTo
  <2> HIDE DEF r
  <2>2. \A i \in 0 .. Len(s) : r[i] = IF i = 0 THEN Whole(s) ELSE Turn(r[i - 1], i, n)
    BY <2>1
  <2> QED
    BY <2>2 DEF r
<1> QED
  BY <1>2

\* The elements of the array are those of the list, and the slice never gets longer.
Slices(s, i) ==
    [array : [1 .. Len(s) -> Elems(s)], len : Len(s) - i .. Len(s), ok : BOOLEAN]

LEMMA TurnType ==
  ASSUME NEW s, NEW T, s \in Seq(T), NEW n, NEW i \in 1 .. Len(s), NEW st \in Slices(s, i - 1)
  PROVE  Turn(st, i, n) \in Slices(s, i)
<1>1. Len(s) \in Nat /\ i \in Nat
  OBVIOUS
<1>2. /\ st.array \in [1 .. Len(s) -> Elems(s)] /\ DOMAIN st.array = 1 .. Len(s)
      /\ st.len \in Len(s) - (i - 1) .. Len(s) /\ st.ok \in BOOLEAN
  BY DEF Slices
<1>3. Len(s) - (i - 1) .. Len(s) \subseteq Len(s) - i .. Len(s)
  BY <1>1
<1>4. st.len - 1 \in Len(s) - i .. Len(s) /\ st.len \in Int /\ st.len <= Len(s)
  BY <1>1, <1>2
<1>5. Shifted(st, i) \in [1 .. Len(s) -> Elems(s)]
  <2>1. \A k \in 1 .. Len(s) : (IF k >= i /\ k < st.len THEN k + 1 ELSE k) \in 1 .. Len(s)
    BY <1>1, <1>4
  <2> QED
    BY <1>2, <2>1 DEF Shifted
<1>6. [array |-> Shifted(st, i), len |-> st.len - 1, ok |-> i <= st.len] \in Slices(s, i)
  BY <1>4, <1>5 DEF Slices
<1>7. st \in Slices(s, i)
  BY <1>2, <1>3 DEF Slices
<1> QED
  BY <1>6, <1>7 DEF Turn

LEMMA RemovalType ==
  ASSUME NEW s, NEW T, s \in Seq(T), NEW n
  PROVE  Removal(s, n) \in Slices(s, Len(s))
<1> DEFINE S == {i \in 0 .. Len(s) : Turns(s, n)[i] \in Slices(s, i)}
<1>1. Len(s) \in Nat
  OBVIOUS
<1>2. 0 \in S
  <2>1. Whole(s) \in Slices(s, 0)
    BY <1>1 DEF Whole, Slices, Elems
  <2> QED
    BY <1>1, <2>1, TurnSteps
<1>3. ASSUME NEW i \in 0 .. Len(s) - 1, i \in S PROVE i + 1 \in S
  <2>1. i + 1 \in 1 .. Len(s) /\ (i + 1) - 1 = i
    BY <1>1
  <2>2. Turns(s, n)[i + 1] = Turn(Turns(s, n)[i], i + 1, n)
    BY <1>1, <2>1, TurnSteps
  <2>3. PICK st \in Slices(s, i) : st = Turns(s, n)[i]
    BY <1>3
  <2>4. Turn(st, i + 1, n) \in Slices(s, i + 1)
    BY <2>1, TurnType
  <2> QED
    BY <2>1, <2>2, <2>3, <2>4
<1> HIDE DEF S
<1>4. \A i \in 0 .. Len(s) - 1 : i \in S => i + 1 \in S
  BY <1>3
<1>5. 0 .. Len(s) \subseteq S
  BY <1>1, <1>2, <1>4, Induction
<1> QED
  BY <1>1, <1>5 DEF S, Removal

\* A list without the name is left as it is.
LEMMA RemovalOfNone ==
  ASSUME NEW s, NEW T, s \in Seq(T), NEW n,
         \A k \in DOMAIN s : heap[s[k]].name # n
  PROVE  Removal(s, n) = Whole(s)
<1> DEFINE S == {i \in 0 .. Len(s) : Turns(s, n)[i] = Whole(s)}
<1>1. Len(s) \in Nat /\ DOMAIN s = 1 .. Len(s)
  OBVIOUS
<1>2. 0 \in S
  BY <1>1, TurnSteps
<1>3. ASSUME NEW i \in 0 .. Len(s) - 1, i \in S PROVE i + 1 \in S
  <2>1. i + 1 \in 1 .. Len(s) /\ (i + 1) - 1 = i
    BY <1>1
  <2>2. Turns(s, n)[i + 1] = Turn(Whole(s), i + 1, n)
    BY <1>1, <1>3, <2>1, TurnSteps
  <2>3. heap[s[i + 1]].name # n
    BY <1>1, <2>1
  <2>4. Turn(Whole(s), i + 1, n) = Whole(s)
    BY <2>3 DEF Turn, Whole
  <2> QED
    BY <2>1, <2>2, <2>4
<1> HIDE DEF S
<1>4. \A i \in 0 .. Len(s) - 1 : i \in S => i + 1 \in S
  BY <1>3
<1>5. 0 .. Len(s) \subseteq S
  BY <1>1, <1>2, <1>4, Induction
<1> QED
  BY <1>1, <1>5 DEF S, Removal

\* The slice once element j was taken out of it.
Cut(s, j) == [array |-> Shifted(Whole(s), j), len |-> Len(s) - 1, ok |-> TRUE]

\* What the loop meets in the array above j is never the element at j again.
LEMMA RemovalOfOne ==
  ASSUME NEW s, NEW T, s \in Seq(T), NEW n, NEW j \in DOMAIN s,
         \A k \in DOMAIN s : heap[s[k]].name = n <=> k = j
  PROVE  Removal(s, n) = Cut(s, j)
<1> DEFINE S == {i \in 0 .. Len(s) : Turns(s, n)[i] = IF i < j THEN Whole(s) ELSE Cut(s, j)}
<1>1. Len(s) \in Nat /\ DOMAIN s = 1 .. Len(s) /\ j \in Nat /\ 0 < j /\ j <= Len(s)
  OBVIOUS
<1>2. 0 \in S
  BY <1>1, TurnSteps
<1>3. ASSUME NEW i \in 0 .. Len(s) - 1, i \in S PROVE i + 1 \in S
  <2>1. i + 1 \in 1 .. Len(s) /\ (i + 1) - 1 = i /\ i \in Nat
    BY <1>1
  <2>2. Turns(s, n)[i + 1] = Turn(IF i < j THEN Whole(s) ELSE Cut(s, j), i + 1, n)
    BY <1>1, <1>3, <2>1, TurnSteps
  <2>3. CASE i + 1 < j
    <3>1. i < j /\ heap[s[i + 1]].name # n
      BY <1>1, <2>1, <2>3
    <3>2. Turn(Whole(s), i + 1, n) = Whole(s)
      BY <3>1 DEF Turn, Whole
    <3> QED
      BY <2>1, <2>2, <2>3, <3>1, <3>2
  <2>4. CASE i + 1 = j
    <3>1. i < j /\ ~(i + 1 < j) /\ heap[s[i + 1]].name = n /\ i + 1 <= Len(s)
      BY <1>1, <2>1, <2>4
    <3>2. Turn(Whole(s), i + 1, n) = Cut(s, j)
      BY <2>4, <3>1 DEF Turn, Whole, Cut
    <3> QED
      BY <2>1, <2>2, <3>1, <3>2
  <2>5. CASE j < i + 1
    <3>1. ~(i < j) /\ ~(i + 1 < j)
      BY <1>1, <2>1, <2>5
    <3> DEFINE l == IF i + 1 < Len(s) THEN i + 2 ELSE i + 1
    <3>2. l \in DOMAIN s /\ l # j
      BY <1>1, <2>1, <2>5
    <3>3. Cut(s, j).array[i + 1] = s[l] /\ Cut(s, j).ok = TRUE
      BY <1>1, <2>1, <2>5 DEF Cut, Shifted, Whole
    <3> HIDE DEF l
    <3>4. heap[Cut(s, j).array[i + 1]].name # n
      BY <3>2, <3>3
    <3>5. Turn(Cut(s, j), i + 1, n) = Cut(s, j)
      BY <3>4 DEF Turn
    <3> QED
      BY <2>1, <2>2, <3>1, <3>5
  <2> QED
    BY <1>1, <2>1, <2>3, <2>4, <2>5
<1> HIDE DEF S
<1>4. \A i \in 0 .. Len(s) - 1 : i \in S => i + 1 \in S
  BY <1>3
<1>5. 0 .. Len(s) \subseteq S
  BY <1>1, <1>2, <1>4, Induction
<1> QED
  BY <1>1, <1>5 DEF S, Removal

LEMMA CutRemoves ==
  ASSUME NEW s, NEW T, s \in Seq(T), NEW j \in DOMAIN s
  PROVE  SubSeq(Cut(s, j).array, 1, Cut(s, j).len) = RemoveAt(s, j)
<1> DEFINE m == Len(s)
           c == [k \in 1 .. m - 1 |-> IF k < j THEN s[k] ELSE s[k + 1]]
<1>1. m \in Nat /\ DOMAIN s = 1 .. m /\ j \in 1 .. m
  OBVIOUS
<1>2. SubSeq(Cut(s, j).array, 1, Cut(s, j).len) = c
  <2>1. Cut(s, j).array = [k \in 1 .. m |-> s[IF k >= j /\ k < m THEN k + 1 ELSE k]]
        /\ Cut(s, j).len = m - 1
    BY <1>1 DEF Cut, Shifted, Whole
  <2> DEFINE a == Cut(s, j).array
  <2>2. a \in Seq(T) /\ Len(a) = m /\ \A k \in 1 .. m - 1 : a[k] = c[k]
    BY <1>1, <2>1
  <2> HIDE DEF a
  <2>3. SubSeq(a, 1, m - 1) = [k \in 1 .. m - 1 |-> a[k]]
    BY <1>1, <2>2
  <2> QED
    BY <1>1, <2>1, <2>2, <2>3 DEF a
<1>3. RemoveAt(s, j) = c
  <2> DEFINE b == SubSeq(s, 1, j - 1)
             d == SubSeq(s, j + 1, m)
  <2>1. b \in Seq(T) /\ Len(b) = j - 1 /\ \A k \in 1 .. j - 1 : b[k] = s[k]
    BY <1>1
  <2>2. d \in Seq(T) /\ Len(d) = m - j /\ \A k \in 1 .. m - j : d[k] = s[j + k]
    BY <1>1
  <2> HIDE DEF b, d
  <2>3. /\ b \o d \in Seq(T) /\ Len(b \o d) = m - 1
        /\ \A k \in 1 .. m - 1 : (b \o d)[k] = IF k <= j - 1 THEN b[k] ELSE d[k - (j - 1)]
    <3>1. /\ b \o d \in Seq(T) /\ Len(b \o d) = Len(b) + Len(d)
          /\ \A k \in 1 .. Len(b) + Len(d) :
               (b \o d)[k] = IF k <= Len(b) THEN b[k] ELSE d[k - Len(b)]
      BY <2>1, <2>2, ConcatProperties
    <3>2. Len(b) + Len(d) = m - 1
      BY <1>1, <2>1, <2>2
    <3> QED
      BY <2>1, <3>1, <3>2
  <2>4. ASSUME NEW k \in 1 .. m - 1 PROVE (b \o d)[k] = c[k]
    <3>1. CASE k < j
      BY <1>1, <2>1, <2>3, <3>1
    <3>2. CASE ~(k < j)
      <4>1. k - (j - 1) \in 1 .. m - j /\ j + (k - (j - 1)) = k + 1 /\ ~(k <= j - 1)
        BY <1>1, <3>2
      <4> QED
        BY <2>2, <2>3, <3>2, <4>1
    <3> QED
      BY <3>1, <3>2
  <2>5. b \o d = c
    <3> DEFINE e == b \o d
    <3>1. e \in Seq(T) /\ Len(e) = m - 1 /\ \A k \in 1 .. m - 1 : e[k] = c[k]
      BY <2>3, <2>4
    <3> HIDE DEF e
    <3>2. e = [k \in 1 .. m - 1 |-> e[k]]
      BY <1>1, <3>1
    <3> QED
      BY <3>1, <3>2 DEF e
  <2> QED
    BY <2>5 DEF RemoveAt, b, d
<1> QED
  BY <1>2, <1>3

----------------------------------------------------------------------------
(* Which objects are live.                                                 *)

LEMMA ElemsFacts ==
  ASSUME NEW T, NEW s \in Seq(T)
  PROVE  /\ Elems(s) \subseteq T /\ \A k \in DOMAIN s : s[k] \in Elems(s)
         /\ s # <<>> => /\ Head(s) \in Elems(s) /\ Tail(s) \in Seq(T)
                        /\ Elems(Tail(s)) \subseteq Elems(s)
<1>1. Elems(s) \subseteq T /\ \A k \in DOMAIN s : s[k] \in Elems(s)
  BY DEF Elems
<1>2. ASSUME s # <<>>
      PROVE  Head(s) \in Elems(s) /\ Tail(s) \in Seq(T) /\ Elems(Tail(s)) \subseteq Elems(s)
  <2>1. /\ Len(s) \in Nat /\ Len(s) > 0 /\ DOMAIN s = 1 .. Len(s)
        /\ Tail(s) \in Seq(T) /\ Len(Tail(s)) = Len(s) - 1
        /\ \A k \in 1 .. Len(s) - 1 : Tail(s)[k] = s[k + 1]
    BY <1>2, EmptySeq, HeadTailProperties
  <2>2. Head(s) = s[1]
    OBVIOUS
  <2>3. DOMAIN Tail(s) = 1 .. Len(s) - 1
    BY <2>1
  <2> QED
    BY <2>1, <2>2, <2>3 DEF Elems
<1> QED
  BY <1>1, <1>2

LEMMA ElemsEmpty == Elems(<<>>) = {}
BY DEF Elems

LEMMA ElemsAppend ==
  ASSUME NEW T, NEW s \in Seq(T), NEW x \in T
  PROVE  Append(s, x) \in Seq(T) /\ Elems(Append(s, x)) \subseteq Elems(s) \union {x}
<1>1. /\ Append(s, x) \in Seq(T) /\ Len(s) \in Nat /\ DOMAIN s = 1 .. Len(s)
      /\ Len(Append(s, x)) = Len(s) + 1
      /\ \A k \in 1 .. Len(s) : Append(s, x)[k] = s[k]
      /\ Append(s, x)[Len(s) + 1] = x
  BY AppendProperties
<1>2. DOMAIN Append(s, x) = 1 .. Len(s) + 1
  BY <1>1
<1>3. ASSUME NEW k \in 1 .. Len(s) + 1 PROVE Append(s, x)[k] \in Elems(s) \union {x}
  <2>1. CASE k \in 1 .. Len(s)
    BY <1>1, <2>1 DEF Elems
  <2>2. CASE k = Len(s) + 1
    BY <1>1, <2>2
  <2> QED
    BY <1>1, <2>1, <2>2
<1>4. Elems(Append(s, x)) = {Append(s, x)[k] : k \in 1 .. Len(s) + 1}
  BY <1>2 DEF Elems
<1> QED
  BY <1>1, <1>3, <1>4

\* The objects that something can reach, and the one that there is not.
Known == Live \union {NoObj}

LEMMA LiveKnown ==
  /\ Elems(defs) \subseteq Known /\ Elems(base) \subseteq Known
  /\ msg.obj \in Known /\ stored.obj \in Known
  /\ \A h \in Handlers : req[h].obj \in Known
  /\ \A l \in Loops : Elems(todo[l]) \subseteq Known
BY DEF Known, Live

LEMMA LiveWithin ==
  ASSUME NEW X,
         Elems(defs') \subseteq X, Elems(base') \subseteq X, msg'.obj \in X, stored'.obj \in X,
         \A h \in Handlers : req'[h].obj \in X,
         \A l \in Loops : Elems(todo'[l]) \subseteq X
  PROVE  Live' \subseteq X \ {NoObj}
BY DEF Live

HeapOK == DOMAIN heap = Live /\ \A o \in Live : heap[o] \in Contents

\* What the garbage collector leaves.
LEMMA Collected ==
  ASSUME HeapOK, NEW h, Collect(h), NEW X, Live' \subseteq X, \A o \in X : h[o] \in Contents
  PROVE  HeapOK'
BY DEF HeapOK, Collect

----------------------------------------------------------------------------
(* Type correctness.                                                       *)

Waiting == {"added", "updated", "removed"}

MemoryOK ==
    /\ defs \in Seq(Objs) /\ base \in Seq(Objs)
    /\ req \in [Handlers -> Requests] /\ msg \in Requests /\ stored \in Requests
    /\ pc \in [Loops -> {"idle", "write", "begin", "register", "store"}]
    /\ todo \in [Loops -> Seq(Objs)]

RoutersOK ==
    /\ mine \in [Loops -> Routers \union {NoRouter}]
    /\ target \in Routers /\ served \in Routers
    /\ DOMAIN routes = InUse
    /\ \A r \in InUse : routes[r] \in [Paths -> Names \union {NoName}]

StoreOK ==
    /\ db \in [Names -> AllPaths \union {NoPath}]
    /\ changes \in Seq(Seq(Contents)) /\ Len(changes) <= ChanMax
    /\ expected \in [Names -> AllPaths \union {NoPath, "unknown"}]
    /\ crashed \in BOOLEAN
    /\ ops \in 0 .. MaxOps /\ elsewhere \in 0 .. MaxElsewhere /\ faults \in 0 .. MaxFaults

\* What each phase of a handler, a loop and the listener has in hand.
PhasesOK ==
    /\ \A h \in Handlers :
         /\ req[h].op \in Waiting \union {"none", "put"}
         /\ req[h].op # "none" => req[h].obj \in Objs
    /\ IF pc["admin"] = "idle" THEN msg = Idle ELSE msg.op \in Waiting /\ msg.obj \in Objs
    /\ stored.op # "none" => stored.obj \in Objs
    /\ pc["admin"] # "write" => base = <<>>
    /\ pc["admin"] # "register" => todo["admin"] = <<>>
    /\ pc["provider"] \in {"idle", "begin", "register"}
    /\ \A l \in Loops : mine[l] # NoRouter <=> pc[l] = "register"

TypeInv == MemoryOK /\ RoutersOK /\ StoreOK /\ HeapOK /\ PhasesOK

LEMMA TypeParts == TypeOK <=> MemoryOK /\ RoutersOK /\ StoreOK /\ HeapOK
BY DEF TypeOK, MemoryOK, RoutersOK, StoreOK, HeapOK

LEMMA ObjsArePositive == NoObj \notin Objs
BY ObjsAssumption

LEMMA OnlyMemoryLive ==
  ASSUME NEW A, Elems(defs) = A, NoObj \notin A, Elems(base) = {}, msg.obj = NoObj,
         stored.obj = NoObj, \A h \in Handlers : req[h].obj = NoObj,
         \A l \in Loops : Elems(todo[l]) = {}
  PROVE  Live = A
<1>1. {req[h].obj : h \in Handlers} \subseteq {NoObj}
  OBVIOUS
<1>2. UNION {Elems(todo[l]) : l \in Loops} = {}
  OBVIOUS
<1> QED
  BY <1>1, <1>2 DEF Live

LEMMA InitType == Init => TypeInv
<1> SUFFICES ASSUME Init PROVE TypeInv
  OBVIOUS
<1> USE DEF Init
<1>1. /\ Sorted(db) \in Seq(Contents)
      /\ DOMAIN Sorted(db) = 1 .. Cardinality(Held(db))
  BY InitialsAssumption, SortedType DEF AllPaths
<1>2. 1 .. Cardinality(Held(db)) \subseteq Objs /\ Cardinality(Held(db)) \in Nat
  BY ObjsAssumption, NamesAssumption, HeldNames, FS_CardinalityType
<1>3. defs \in Seq(Objs) /\ Elems(defs) = 1 .. Cardinality(Held(db))
  BY <1>1, <1>2 DEF Elems
<1>4. MemoryOK
  BY <1>3, EmptySeq DEF MemoryOK, Requests, Idle, Loops
<1>5. InUse = {1}
  BY DEF InUse, Routers, NoRouter
<1>6. RoutersOK
  BY <1>1, <1>5, RouterType DEF RoutersOK, Routers
<1>7. StoreOK
  <2>1. changes \in Seq(Seq(Contents)) /\ Len(changes) <= ChanMax
    BY BoundsAssumption, EmptySeq
  <2>2. db \in [Names -> AllPaths \union {NoPath}]
        /\ db \in [Names -> AllPaths \union {NoPath, "unknown"}]
    BY InitialsAssumption DEF AllPaths
  <2>3. 0 \in 0 .. MaxOps /\ 0 \in 0 .. MaxElsewhere /\ 0 \in 0 .. MaxFaults
    BY BoundsAssumption
  <2> QED
    BY <2>1, <2>2, <2>3 DEF StoreOK
<1>8. HeapOK
  <2>1. Live = 1 .. Cardinality(Held(db))
    <3>1. NoObj \notin 1 .. Cardinality(Held(db))
      BY <1>2, ObjsArePositive
    <3>2. /\ Elems(base) = {} /\ msg.obj = NoObj /\ stored.obj = NoObj
          /\ \A h \in Handlers : req[h].obj = NoObj
          /\ \A l \in Loops : Elems(todo[l]) = {}
      BY ElemsEmpty DEF Idle
    <3> QED
      BY <1>3, <3>1, <3>2, OnlyMemoryLive
  <2>2. \A k \in DOMAIN Sorted(db) : Sorted(db)[k] \in Contents
    <3>1. Elems(Sorted(db)) \subseteq Contents
      BY <1>1, ElemsFacts
    <3> QED
      BY <3>1 DEF Elems
  <2> QED
    BY <1>1, <2>1, <2>2 DEF HeapOK
<1>9. PhasesOK
  BY DEF PhasesOK, Idle, Loops
<1> QED
  BY <1>4, <1>6, <1>7, <1>8, <1>9 DEF TypeInv

LEMMA FreshObject ==
  ASSUME Objs \ Live # {}
  PROVE  Fresh \in Objs /\ Fresh \notin Live /\ Fresh # NoObj
<1>1. Objs \ Live \subseteq Nat
  BY ObjsAssumption
<1> QED
  BY <1>1, LeastExists, ObjsArePositive DEF Fresh

LEMMA RequestContents ==
  ASSUME NEW c \in Bodies \union Updates, Valid(c) \/ c \in Updates
  PROVE  c \in Contents
BY RequestsAssumption DEF Contents, AllPaths, Valid

Expectations == [Names -> AllPaths \union {NoPath, "unknown"}]

\* A step that leaves the routers and the datastore alone.
LEMMA RequestMoves ==
  ASSUME TypeInv, UNCHANGED <<defs, msg, base, routerVars, db, elsewhere, faults, pc,
                              stored, changes, crashed>>,
         expected' \in Expectations, ops' \in 0 .. MaxOps,
         NEW h \in Handlers, NEW r \in Requests, req' = [req EXCEPT ![h] = r],
         r.op \in Waiting \union {"none", "put"}, r.op # "none" => r.obj \in Objs
  PROVE  MemoryOK' /\ RoutersOK' /\ StoreOK' /\ PhasesOK'
<1> USE DEF TypeInv, routerVars
<1>1. MemoryOK'
  BY DEF MemoryOK
<1>2. RoutersOK'
  BY DEF RoutersOK, InUse
<1>3. StoreOK'
  BY DEF StoreOK, Expectations
<1>4. PhasesOK'
  <2>1. \A g \in Handlers : req'[g] = IF g = h THEN r ELSE req[g]
    BY DEF MemoryOK
  <2> QED
    BY <2>1 DEF PhasesOK
<1> QED
  BY <1>1, <1>2, <1>3, <1>4

LEMMA RequestStep ==
  ASSUME TypeInv, UNCHANGED <<defs, msg, base, routerVars, storeVars, elsewhere, faults, pc,
                              stored, changes, crashed>>,
         ops' \in 0 .. MaxOps,
         NEW h \in Handlers, NEW r \in Requests, req' = [req EXCEPT ![h] = r],
         r.op \in Waiting \union {"none", "put"}, r.op # "none" => r.obj \in Objs
  PROVE  MemoryOK' /\ RoutersOK' /\ StoreOK' /\ PhasesOK'
<1>1. expected' \in Expectations
  BY DEF TypeInv, StoreOK, storeVars, Expectations
<1>2. UNCHANGED <<defs, msg, base, routerVars, db, elsewhere, faults, pc, stored, changes,
                  crashed>>
  BY DEF storeVars
<1> QED
  BY <1>1, <1>2, RequestMoves

LEMMA NamedFirst ==
  ASSUME TypeInv, NEW n, Named(n) # {}
  PROVE  /\ defs[Least(Named(n))] \in Objs /\ defs[Least(Named(n))] \in Elems(defs)
         /\ defs[Least(Named(n))] \in Live
<1>1. defs \in Seq(Objs)
  BY DEF TypeInv, MemoryOK
<1>2. Named(n) \subseteq Nat /\ Named(n) \subseteq DOMAIN defs
  BY <1>1 DEF Named
<1>3. Least(Named(n)) \in DOMAIN defs
  BY <1>2, LeastExists
<1>4. defs[Least(Named(n))] \in Elems(defs) /\ Elems(defs) \subseteq Objs
  BY <1>1, <1>3, ElemsFacts
<1> QED
  BY <1>4, ObjsArePositive DEF Live

LEMMA PostType == ASSUME TypeInv, NEW h \in Handlers, NEW c \in Bodies, Post(h, c) PROVE TypeInv'
<1>1. Fresh \in Objs /\ Fresh \notin Live /\ Fresh # NoObj
  BY FreshObject DEF Post
<1> DEFINE r == [op |-> "added", obj |-> Fresh]
           new == [o \in Live \union {Fresh} |-> IF o = Fresh THEN c ELSE heap[o]]
<1>2. r \in Requests /\ r.op = "added" /\ r.obj = Fresh
  BY <1>1 DEF Requests
<1>3. /\ UNCHANGED <<defs, msg, base, routerVars, storeVars, elsewhere, faults, pc, stored,
                     changes, crashed>>
      /\ ops' \in 0 .. MaxOps /\ req' = [req EXCEPT ![h] = r] /\ Collect(new)
  BY BoundsAssumption DEF Post, TypeInv, StoreOK
<1> HIDE DEF r
<1>4. MemoryOK' /\ RoutersOK' /\ StoreOK' /\ PhasesOK'
  BY <1>1, <1>2, <1>3, RequestStep DEF Waiting
<1>5. HeapOK'
  <2>1. \A g \in Handlers : req'[g].obj \in Known \union {Fresh}
    BY <1>2, <1>3, LiveKnown DEF TypeInv, MemoryOK
  <2>2. Live' \subseteq (Known \union {Fresh}) \ {NoObj}
    <3>1. /\ Elems(defs') = Elems(defs) /\ Elems(base') = Elems(base)
          /\ \A l \in Loops : Elems(todo'[l]) = Elems(todo[l])
      BY <1>3 DEF routerVars
    <3> QED
      BY <1>3, <2>1, <3>1, LiveKnown, LiveWithin
  <2>3. Live' \subseteq Live \union {Fresh}
    BY <2>2 DEF Known
  <2>4. \A o \in Live \union {Fresh} : new[o] \in Contents
    <3>1. c \in Contents
      BY RequestContents DEF Post
    <3> QED
      BY <3>1 DEF TypeInv, HeapOK
  <2> HIDE DEF new
  <2> QED
    BY <1>3, <2>3, <2>4, Collected DEF TypeInv
<1> QED
  BY <1>4, <1>5 DEF TypeInv

\* A step that loses no object and gets none.
LEMMA SameLive ==
  ASSUME HeapOK, UNCHANGED heap, Live' \subseteq Live, Live \subseteq Live'
  PROVE  HeapOK'
BY DEF HeapOK

\* A step of the datastore or of the watcher.
LEMMA NothingMoves ==
  ASSUME HeapOK, UNCHANGED <<heap, defs, base, msg, stored, req, todo>>
  PROVE  HeapOK'
<1>1. Live' = Live
  BY DEF Live
<1> QED
  BY <1>1 DEF HeapOK

LEMMA FindType ==
  ASSUME TypeInv, NEW h \in Handlers, NEW n \in Names, Delete(h, n) \/ Put(h, n)
  PROVE  TypeInv'
<1>1. PICK r \in Requests :
        /\ r.op \in {"removed", "put"} /\ r.obj \in Objs /\ r.obj \in Live
        /\ req' = [req EXCEPT ![h] = r]
  <2>1. Named(n) # {}
    BY DEF Delete, Put
  <2> DEFINE o == defs[Least(Named(n))]
  <2>2. o \in Objs /\ o \in Live
    BY <2>1, NamedFirst
  <2>3. \/ req' = [req EXCEPT ![h] = [op |-> "removed", obj |-> o]]
        \/ req' = [req EXCEPT ![h] = [op |-> "put", obj |-> o]]
    BY DEF Delete, Put
  <2> HIDE DEF o
  <2> QED
    BY <2>2, <2>3 DEF Requests
<1>2. /\ UNCHANGED <<defs, msg, base, routerVars, storeVars, elsewhere, faults, pc, stored,
                     changes, crashed, heap>>
      /\ ops' \in 0 .. MaxOps
  BY BoundsAssumption DEF Delete, Put, TypeInv, StoreOK
<1>3. MemoryOK' /\ RoutersOK' /\ StoreOK' /\ PhasesOK'
  BY <1>1, <1>2, RequestStep DEF Waiting
<1>4. HeapOK'
  <2>1. req[h].obj = NoObj
    BY DEF Delete, Put, Idle
  <2>2. \A g \in Handlers : req'[g].obj = IF g = h THEN r.obj ELSE req[g].obj
    BY <1>1 DEF TypeInv, MemoryOK
  <2>3. UNCHANGED <<defs, base, msg, stored, todo>>
    BY <1>2 DEF routerVars
  <2>4. Live' \subseteq Live
    BY <1>1, <2>2, <2>3 DEF Live
  <2>5. Live \subseteq Live'
    <3>1. r.obj \in Elems(defs)
      <4>1. Named(n) # {}
        BY DEF Delete, Put
      <4>2. req'[h].obj = defs[Least(Named(n))]
        BY DEF Delete, Put, TypeInv, MemoryOK
      <4> QED
        BY <2>2, <4>1, <4>2, NamedFirst
    <3> QED
      BY <2>1, <2>2, <2>3, <3>1 DEF Live
  <2> QED
    BY <1>2, <2>4, <2>5, SameLive DEF TypeInv
<1> QED
  BY <1>3, <1>4 DEF TypeInv

LEMMA PutBodyType ==
  ASSUME TypeInv, NEW h \in Handlers, NEW c \in Updates, PutBody(h, c)
  PROVE  TypeInv'
<1> DEFINE o == req[h].obj
           written == [heap EXCEPT ![o] = c]
<1>1. /\ UNCHANGED <<defs, msg, base, routerVars, db, countVars, pc, stored, changes, crashed>>
      /\ Collect(written)
      /\ req[h].op = "put"
  BY DEF PutBody
<1>2. PICK r \in Requests :
        /\ r.op \in {"updated", "none"} /\ r.obj \in {o, NoObj}
        /\ r.op # "none" => r.obj \in Objs
        /\ req' = [req EXCEPT ![h] = r]
  <2>1. o \in Objs
    BY <1>1 DEF TypeInv, PhasesOK
  <2>2. req' = [req EXCEPT ![h] = Idle] \/ req' = [req EXCEPT ![h] = [op |-> "updated", obj |-> o]]
    BY DEF PutBody
  <2> HIDE DEF o
  <2> QED
    BY <2>1, <2>2 DEF Requests, Idle
<1>3. /\ ops' \in 0 .. MaxOps
      /\ UNCHANGED <<defs, msg, base, routerVars, db, elsewhere, faults, pc, stored, changes,
                     crashed>>
  BY <1>1 DEF countVars, TypeInv, StoreOK
<1>4. MemoryOK' /\ RoutersOK' /\ StoreOK' /\ PhasesOK'
  <2>1. /\ expected' = [n \in Names |-> expected'[n]]
        /\ \A n \in Names : expected'[n] \in {"unknown", expected[n]}
    BY DEF PutBody
  <2>2. expected' \in Expectations
    BY <2>1 DEF Expectations, TypeInv, StoreOK
  <2> HIDE DEF o
  <2> QED
    BY <1>2, <1>3, <2>2, RequestMoves DEF Waiting
<1>5. HeapOK'
  <2>1. \A g \in Handlers : req'[g].obj \in Known
    <3>1. r.obj \in Known
      BY <1>2, LiveKnown DEF Known
    <3> QED
      BY <1>2, <3>1, LiveKnown DEF TypeInv, MemoryOK
  <2>2. Live' \subseteq Live
    <3>1. UNCHANGED <<defs, base, msg, stored, todo>>
      BY <1>1 DEF routerVars
    <3>2. Live' \subseteq Known \ {NoObj}
      BY <2>1, <3>1, LiveKnown, LiveWithin
    <3> QED
      BY <3>2 DEF Known
  <2>3. \A x \in Live : written[x] \in Contents
    <3>1. c \in Contents
      BY RequestContents
    <3> QED
      BY <3>1 DEF TypeInv, HeapOK
  <2> HIDE DEF written
  <2> QED
    BY <1>1, <2>2, <2>3, Collected DEF TypeInv
<1> QED
  BY <1>4, <1>5 DEF TypeInv

LEMMA ReceiveType == ASSUME TypeInv, NEW h \in Handlers, Receive(h) PROVE TypeInv'
<1>1. /\ pc["admin"] = "idle" /\ req[h].op \in Waiting
      /\ msg' = req[h] /\ req' = [req EXCEPT ![h] = Idle]
      /\ base' = defs /\ pc' = [pc EXCEPT !["admin"] = "write"]
      /\ UNCHANGED <<defs, routerVars, db, countVars, heap, stored, changes, crashed>>
  BY DEF Receive, Waiting
<1>2. req[h].obj \in Objs /\ msg = Idle /\ base = <<>> /\ req[h] \in Requests
  BY <1>1 DEF TypeInv, PhasesOK, MemoryOK, Waiting
<1>3. /\ \A g \in Handlers : req'[g] = IF g = h THEN Idle ELSE req[g]
      /\ pc'["admin"] = "write" /\ pc'["provider"] = pc["provider"]
  BY <1>1 DEF TypeInv, MemoryOK, Loops
<1>4. UNCHANGED <<todo, mine, target, served, routes>>
  BY <1>1 DEF routerVars
<1>5. MemoryOK'
  BY <1>1, <1>2, <1>4 DEF TypeInv, MemoryOK, Requests, Idle
<1>6. RoutersOK'
  BY <1>4 DEF TypeInv, RoutersOK, InUse
<1>7. HeapOK'
  <2>1. Live' = Live
    BY <1>1, <1>2, <1>3, <1>4, ElemsEmpty DEF Live, Idle
  <2> QED
    BY <1>1, <2>1 DEF TypeInv, HeapOK
<1>8. StoreOK'
  <2>1. expected' \in [Names -> AllPaths \union {NoPath, "unknown"}]
    <3> DEFINE c == heap[req[h].obj]
    <3>1. c \in Contents
      <4>1. req[h].obj \in Live
        BY <1>2, ObjsArePositive DEF Live
      <4> QED
        BY <4>1 DEF TypeInv, HeapOK
    <3>2. PICK p \in AllPaths \union {NoPath, "unknown"} :
            expected' = [expected EXCEPT ![c.name] = p]
      BY <3>1 DEF Receive, Contents
    <3> QED
      BY <3>2 DEF TypeInv, StoreOK
  <2> QED
    BY <1>1, <2>1 DEF TypeInv, StoreOK, countVars
<1>9. PhasesOK'
  BY <1>1, <1>2, <1>3, <1>4 DEF TypeInv, PhasesOK, Idle, Loops
<1> QED
  BY <1>5, <1>6, <1>7, <1>8, <1>9 DEF TypeInv

\* What updateConfigurations makes of the list it has read.
LEMMA WrittenType ==
  ASSUME TypeInv, Write
  PROVE  defs' \in Seq(Objs) /\ Elems(defs') \subseteq Elems(base) \union {msg.obj}
<1>1. base \in Seq(Objs) /\ Elems(base) \subseteq Objs /\ msg.obj \in Objs /\ msg.op \in Waiting
  BY ElemsFacts DEF TypeInv, MemoryOK, PhasesOK, Write
<1>2. CASE msg.op = "added"
  <2>1. defs' = Append(base, msg.obj)
    BY <1>2 DEF Write
  <2> QED
    BY <1>1, <2>1, ElemsAppend
<1>3. CASE msg.op = "updated"
  <2>1. defs' = Replaced(base, msg.obj)
    BY <1>3 DEF Write
  <2>2. DOMAIN defs' = DOMAIN base /\ \A k \in DOMAIN base : defs'[k] \in {msg.obj, base[k]}
    BY <2>1 DEF Replaced
  <2>3. \A k \in DOMAIN base : defs'[k] \in Objs
    BY <1>1, <2>2
  <2>4. defs' = [k \in 1 .. Len(base) |-> defs'[k]] /\ DOMAIN base = 1 .. Len(base)
    BY <1>1, <2>1 DEF Replaced
  <2>5. defs' \in Seq(Objs)
    BY <1>1, <2>3, <2>4
  <2> QED
    BY <2>2, <2>5 DEF Elems
<1>4. CASE msg.op = "removed"
  <2> DEFINE gone == Removal(base, heap[msg.obj].name)
  <2>1. gone \in Slices(base, Len(base))
    BY <1>1, RemovalType
  <2>2. defs' = IF gone.ok THEN SubSeq(gone.array, 1, gone.len) ELSE base
    BY <1>4 DEF Write
  <2> HIDE DEF gone
  <2>3. /\ Len(base) \in Nat /\ gone.array \in [1 .. Len(base) -> Elems(base)]
        /\ gone.len \in 0 .. Len(base)
    BY <1>1, <2>1 DEF Slices
  <2> DEFINE part == SubSeq(gone.array, 1, gone.len)
  <2>4. gone.array \in Seq(Elems(base)) /\ Len(gone.array) = Len(base)
    BY <2>3
  <2>5. part \in Seq(Elems(base))
    BY <2>3, <2>4
  <2> HIDE DEF part
  <2>6. part \in Seq(Objs) /\ Elems(part) \subseteq Elems(base)
    BY <1>1, <2>5, ElemsFacts
  <2> QED
    BY <1>1, <2>2, <2>6 DEF part
<1> QED
  BY <1>1, <1>2, <1>3, <1>4 DEF Waiting

LEMMA WriteType == ASSUME TypeInv, Write PROVE TypeInv'
<1>1. /\ pc["admin"] = "write" /\ base' = <<>> /\ pc' = [pc EXCEPT !["admin"] = "begin"]
      /\ UNCHANGED <<req, msg, routerVars, storeVars, countVars, stored, changes>>
      /\ Collect(heap) /\ crashed' \in BOOLEAN
  <2>1. crashed' \in BOOLEAN
    <3>1. Removal(base, heap[msg.obj].name) \in Slices(base, Len(base))
      BY RemovalType DEF TypeInv, MemoryOK
    <3>2. Removal(base, heap[msg.obj].name).ok \in BOOLEAN
      BY <3>1 DEF Slices
    <3>3. msg.op \in Waiting /\ crashed \in BOOLEAN
      BY DEF TypeInv, PhasesOK, StoreOK, Write
    <3> QED
      BY <3>2, <3>3 DEF Write, Waiting
  <2> QED
    BY <2>1 DEF Write
<1>2. defs' \in Seq(Objs) /\ Elems(defs') \subseteq Known
  <2>1. Elems(base) \subseteq Known /\ msg.obj \in Known
    BY LiveKnown
  <2> QED
    BY <2>1, WrittenType
<1>3. pc'["admin"] = "begin" /\ pc'["provider"] = pc["provider"]
  BY <1>1 DEF TypeInv, MemoryOK, Loops
<1>4. UNCHANGED <<todo, mine, target, served, routes, db, expected, ops, elsewhere, faults>>
  BY <1>1 DEF routerVars, storeVars, countVars
<1>5. MemoryOK'
  BY <1>1, <1>2, <1>4, EmptySeq DEF TypeInv, MemoryOK
<1>6. RoutersOK'
  BY <1>4 DEF TypeInv, RoutersOK, InUse
<1>7. StoreOK'
  BY <1>1, <1>4 DEF TypeInv, StoreOK
<1>8. HeapOK'
  <2>1. Live' \subseteq Known \ {NoObj}
    BY <1>1, <1>2, <1>4, LiveKnown, LiveWithin, ElemsEmpty
  <2>2. Live' \subseteq Live /\ \A o \in Live : heap[o] \in Contents
    BY <2>1 DEF Known, TypeInv, HeapOK
  <2> QED
    BY <1>1, <2>2, Collected DEF TypeInv
<1>9. PhasesOK'
  BY <1>1, <1>3, <1>4 DEF TypeInv, PhasesOK, Loops
<1> QED
  BY <1>5, <1>6, <1>7, <1>8, <1>9 DEF TypeInv

LEMMA BeginType == ASSUME TypeInv, NEW l \in Loops, Begin(l) PROVE TypeInv'
<1> DEFINE r == Least(Routers \ InUse)
<1>1. /\ pc[l] = "begin" /\ mine' = [mine EXCEPT ![l] = r] /\ target' = r
      /\ todo' = [todo EXCEPT ![l] = IF l = "admin" THEN defs ELSE todo[l]]
      /\ pc' = [pc EXCEPT ![l] = "register"]
      /\ UNCHANGED <<memoryVars, served, storeVars, countVars, stored, changes, crashed, heap>>
      /\ routes' = [q \in InUse' |-> IF q = r THEN EmptyRouter ELSE routes[q]]
  BY DEF Begin
<1>2. PICK k \in Loops : Loops = {k, l} /\ k # l
  BY DEF Loops
<1>3. mine[l] = NoRouter
  BY <1>1 DEF TypeInv, PhasesOK
<1>4. r \in Routers \ InUse
  <2>1. InUse \subseteq {served, target, mine[k]} \ {NoRouter}
    BY <1>2, <1>3 DEF InUse
  <2>2. CASE mine[k] \in Routers
    BY <2>1, <2>2, RouterFree DEF TypeInv, RoutersOK
  <2>3. CASE mine[k] = NoRouter
    <3>1. InUse \subseteq {served, target, served}
      BY <2>1, <2>3
    <3> QED
      BY <3>1, RouterFree DEF TypeInv, RoutersOK
  <2> QED
    BY <2>2, <2>3 DEF TypeInv, RoutersOK
<1> HIDE DEF r
<1>5. /\ \A j \in Loops : mine'[j] = IF j = l THEN r ELSE mine[j]
      /\ \A j \in Loops : pc'[j] = IF j = l THEN "register" ELSE pc[j]
      /\ \A j \in Loops : todo'[j] = IF j = l /\ l = "admin" THEN defs ELSE todo[j]
  BY <1>1 DEF TypeInv, MemoryOK, RoutersOK
<1>6. UNCHANGED <<defs, req, msg, base, db, expected, ops, elsewhere, faults>>
  BY <1>1 DEF memoryVars, storeVars, countVars
<1>7. MemoryOK'
  BY <1>1, <1>6 DEF TypeInv, MemoryOK
<1>8. RoutersOK'
  <2>1. InUse' \subseteq InUse \union {r}
    BY <1>1, <1>5 DEF InUse
  <2>2. EmptyRouter \in [Paths -> Names \union {NoName}]
    BY DEF EmptyRouter
  <2>3. \A q \in InUse' : routes'[q] \in [Paths -> Names \union {NoName}]
    BY <1>1, <2>1, <2>2 DEF TypeInv, RoutersOK
  <2>4. DOMAIN routes' = InUse'
    BY <1>1
  <2>5. mine' \in [Loops -> Routers \union {NoRouter}]
    BY <1>1, <1>4 DEF TypeInv, RoutersOK
  <2> QED
    BY <1>1, <1>4, <2>3, <2>4, <2>5 DEF TypeInv, RoutersOK
<1>9. StoreOK'
  BY <1>1, <1>6 DEF TypeInv, StoreOK
<1>10. HeapOK'
  <2>1. l = "admin" => todo[l] = <<>>
    BY <1>1 DEF TypeInv, PhasesOK
  <2>2. Live' = Live
    <3>1. CASE l = "admin"
      BY <1>1, <1>5, <1>6, <2>1, <3>1, ElemsEmpty DEF Live
    <3>2. CASE l # "admin"
      BY <1>1, <1>5, <1>6, <3>2 DEF Live
    <3> QED
      BY <3>1, <3>2
  <2> QED
    BY <1>1, <2>2 DEF TypeInv, HeapOK
<1>11. PhasesOK'
  <2>1. r # NoRouter
    BY <1>4 DEF Routers, NoRouter
  <2> QED
    BY <1>1, <1>5, <1>6, <2>1 DEF TypeInv, PhasesOK, Loops
<1> QED
  BY <1>7, <1>8, <1>9, <1>10, <1>11 DEF TypeInv

LEMMA RegisterAPIType == ASSUME TypeInv, NEW l \in Loops, RegisterAPI(l) PROVE TypeInv'
<1> DEFINE c == heap[Head(todo[l])]
<1>1. /\ pc[l] = "register" /\ todo[l] # <<>> /\ todo' = [todo EXCEPT ![l] = Tail(todo[l])]
      /\ routes' = IF Valid(c) THEN [routes EXCEPT ![target][c.path] = c.name] ELSE routes
      /\ UNCHANGED <<memoryVars, mine, target, served, storeVars, countVars, pc, stored, changes,
                     crashed>>
      /\ Collect(heap)
  BY DEF RegisterAPI
<1>2. /\ todo[l] \in Seq(Objs) /\ Tail(todo[l]) \in Seq(Objs)
      /\ Head(todo[l]) \in Elems(todo[l]) /\ Elems(todo[l]) \subseteq Objs
      /\ Elems(Tail(todo[l])) \subseteq Elems(todo[l])
  BY <1>1, ElemsFacts DEF TypeInv, MemoryOK
<1>3. c \in Contents
  <2>1. Head(todo[l]) \in Live
    BY <1>2, ObjsArePositive DEF Live
  <2> QED
    BY <2>1 DEF TypeInv, HeapOK
<1> HIDE DEF c
<1>4. \A j \in Loops : todo'[j] = IF j = l THEN Tail(todo[l]) ELSE todo[j]
  BY <1>1 DEF TypeInv, MemoryOK
<1>5. UNCHANGED <<defs, req, msg, base, db, expected, ops, elsewhere, faults>>
  BY <1>1 DEF memoryVars, storeVars, countVars
<1>6. MemoryOK'
  BY <1>1, <1>2, <1>5 DEF TypeInv, MemoryOK
<1>7. RoutersOK'
  <2>1. InUse' = InUse /\ target \in InUse
    <3>1. target # NoRouter
      BY DEF TypeInv, RoutersOK, Routers, NoRouter
    <3> QED
      BY <1>1, <3>1 DEF InUse
  <2>2. CASE ~Valid(c)
    BY <1>1, <2>1, <2>2 DEF TypeInv, RoutersOK
  <2>3. CASE Valid(c)
    <3> DEFINE new == [routes[target] EXCEPT ![c.path] = c.name]
    <3>1. routes' = [routes EXCEPT ![target] = new]
      BY <1>1, <2>3
    <3>2. new \in [Paths -> Names \union {NoName}]
      <4>1. c.name \in Names
        BY <1>3 DEF Contents
      <4> QED
        BY <2>1, <4>1 DEF TypeInv, RoutersOK
    <3> HIDE DEF new
    <3> QED
      BY <1>1, <2>1, <3>1, <3>2 DEF TypeInv, RoutersOK
  <2> QED
    BY <2>2, <2>3
<1>8. StoreOK'
  BY <1>1, <1>5 DEF TypeInv, StoreOK
<1>9. HeapOK'
  <2>1. \A j \in Loops : Elems(todo'[j]) \subseteq Known
    BY <1>2, <1>4, LiveKnown
  <2>2. Live' \subseteq Known \ {NoObj}
    BY <1>1, <1>5, <2>1, LiveKnown, LiveWithin
  <2>3. Live' \subseteq Live /\ \A o \in Live : heap[o] \in Contents
    BY <2>2 DEF Known, TypeInv, HeapOK
  <2> QED
    BY <1>1, <2>3, Collected DEF TypeInv
<1>10. PhasesOK'
  BY <1>1, <1>4, <1>5 DEF TypeInv, PhasesOK, Loops
<1> QED
  BY <1>6, <1>7, <1>8, <1>9, <1>10 DEF TypeInv

LEMMA PublishType == ASSUME TypeInv, NEW l \in Loops, Publish(l) PROVE TypeInv'
<1>1. /\ pc[l] = "register" /\ todo[l] = <<>>
      /\ served' = mine[l] /\ mine' = [mine EXCEPT ![l] = NoRouter]
      /\ pc' = [pc EXCEPT ![l] = IF l = "admin" /\ Persistent THEN "store" ELSE "idle"]
      /\ msg' = IF l = "admin" /\ ~Persistent THEN Idle ELSE msg
      /\ UNCHANGED <<defs, req, base, todo, target, storeVars, countVars, stored, changes, crashed>>
      /\ routes' = [q \in InUse' |-> routes[q]]
      /\ Collect(heap)
  BY DEF Publish
<1>2. mine[l] \in Routers /\ mine[l] \in InUse
  BY <1>1 DEF TypeInv, PhasesOK, RoutersOK, InUse
<1>3. /\ \A j \in Loops : mine'[j] = IF j = l THEN NoRouter ELSE mine[j]
      /\ \A j \in Loops : pc'[j] = IF j # l THEN pc[j]
                                   ELSE IF l = "admin" /\ Persistent THEN "store" ELSE "idle"
  BY <1>1 DEF TypeInv, MemoryOK, RoutersOK
<1>4. UNCHANGED <<db, expected, ops, elsewhere, faults>>
  BY <1>1 DEF storeVars, countVars
<1>5. MemoryOK'
  <2>1. msg' \in Requests
    BY <1>1 DEF TypeInv, MemoryOK, Requests, Idle
  <2>2. pc' \in [Loops -> {"idle", "write", "begin", "register", "store"}]
    BY <1>1 DEF TypeInv, MemoryOK
  <2> QED
    BY <1>1, <2>1, <2>2 DEF TypeInv, MemoryOK
<1>6. RoutersOK'
  <2>1. InUse' \subseteq InUse
    BY <1>1, <1>2, <1>3 DEF InUse
  <2>2. mine' \in [Loops -> Routers \union {NoRouter}]
    BY <1>1 DEF TypeInv, RoutersOK
  <2>3. DOMAIN routes' = InUse' /\ \A q \in InUse' : routes'[q] = routes[q]
    BY <1>1
  <2>4. \A q \in InUse' : routes'[q] \in [Paths -> Names \union {NoName}]
    BY <2>1, <2>3 DEF TypeInv, RoutersOK
  <2> QED
    BY <1>1, <1>2, <2>2, <2>3, <2>4 DEF TypeInv, RoutersOK
<1>7. StoreOK'
  BY <1>1, <1>4 DEF TypeInv, StoreOK
<1>8. HeapOK'
  <2>1. msg'.obj \in Known
    BY <1>1, LiveKnown DEF Idle, Known
  <2>2. Live' \subseteq Known \ {NoObj}
    BY <1>1, <2>1, LiveKnown, LiveWithin
  <2>3. Live' \subseteq Live /\ \A o \in Live : heap[o] \in Contents
    BY <2>2 DEF Known, TypeInv, HeapOK
  <2> QED
    BY <1>1, <2>3, Collected DEF TypeInv
<1>9. PhasesOK'
  <2>1. base' = base /\ todo' = todo /\ stored' = stored /\ req' = req
    BY <1>1
  <2>2. IF pc'["admin"] = "idle" THEN msg' = Idle ELSE msg'.op \in Waiting /\ msg'.obj \in Objs
    <3>1. CASE l = "admin"
      BY <1>1, <1>3, <3>1 DEF TypeInv, PhasesOK, Loops
    <3>2. CASE l # "admin"
      BY <1>1, <1>3, <3>2 DEF TypeInv, PhasesOK, Loops
    <3> QED
      BY <3>1, <3>2
  <2>3. /\ pc'["admin"] # "write" => base' = <<>>
        /\ pc'["admin"] # "register" => todo'["admin"] = <<>>
        /\ pc'["provider"] \in {"idle", "begin", "register"}
    BY <1>1, <1>3, <2>1 DEF TypeInv, PhasesOK, Loops
  <2>4. \A j \in Loops : mine'[j] # NoRouter <=> pc'[j] = "register"
    BY <1>3 DEF TypeInv, PhasesOK
  <2> QED
    BY <2>1, <2>2, <2>3, <2>4 DEF TypeInv, PhasesOK
<1> QED
  BY <1>5, <1>6, <1>7, <1>8, <1>9 DEF TypeInv

LEMMA HandOverType == ASSUME TypeInv, HandOver PROVE TypeInv'
<1>1. /\ pc["admin"] = "store" /\ stored = Idle /\ stored' = msg /\ msg' = Idle
      /\ pc' = [pc EXCEPT !["admin"] = "idle"]
      /\ UNCHANGED <<defs, req, base, routerVars, storeVars, countVars, changes, crashed, heap>>
  BY DEF HandOver
<1>2. pc'["admin"] = "idle" /\ pc'["provider"] = pc["provider"]
  BY <1>1 DEF TypeInv, MemoryOK, Loops
<1>3. UNCHANGED <<todo, mine, target, served, routes, db, expected, ops, elsewhere, faults>>
  BY <1>1 DEF routerVars, storeVars, countVars
<1>4. MemoryOK'
  BY <1>1, <1>3 DEF TypeInv, MemoryOK, Requests, Idle
<1>5. RoutersOK'
  BY <1>3 DEF TypeInv, RoutersOK, InUse
<1>6. StoreOK'
  BY <1>1, <1>3 DEF TypeInv, StoreOK
<1>7. HeapOK'
  <2>1. Live' = Live
    BY <1>1, <1>3 DEF Live, Idle
  <2> QED
    BY <1>1, <2>1 DEF TypeInv, HeapOK
<1>8. PhasesOK'
  BY <1>1, <1>2, <1>3 DEF TypeInv, PhasesOK, Loops
<1> QED
  BY <1>4, <1>5, <1>6, <1>7, <1>8 DEF TypeInv

LEMMA ListenerType == ASSUME TypeInv, Validate \/ Store PROVE TypeInv'
<1>1. /\ UNCHANGED <<memoryVars, routerVars, ops, elsewhere, pc, changes, crashed>>
      /\ Collect(heap)
  BY DEF Validate, Store, countVars
<1>2. UNCHANGED <<defs, req, msg, base, todo, mine, target, served, routes>>
  BY <1>1 DEF memoryVars, routerVars
<1>3. stored.op # "none" /\ stored.obj \in Objs
  BY DEF Validate, Store, TypeInv, PhasesOK
<1>4. stored' = Idle \/ stored' = [stored EXCEPT !.op = "valid"]
  BY DEF Validate, Store
<1>5. /\ stored' \in Requests /\ stored'.obj \in {stored.obj, NoObj}
      /\ stored'.op # "none" => stored'.obj \in Objs
  BY <1>3, <1>4 DEF TypeInv, MemoryOK, Requests, Idle
<1>6. MemoryOK'
  BY <1>1, <1>2, <1>5 DEF TypeInv, MemoryOK
<1>7. RoutersOK'
  BY <1>2 DEF TypeInv, RoutersOK, InUse
<1>8. StoreOK'
  <2>1. CASE Validate
    BY <1>1, <2>1 DEF Validate, storeVars, countVars, TypeInv, StoreOK
  <2>2. CASE Store
    <3> DEFINE c == heap[stored.obj]
    <3>1. c \in Contents
      <4>1. stored.obj \in Live
        BY <1>3, ObjsArePositive DEF Live
      <4> QED
        BY <4>1 DEF TypeInv, HeapOK
    <3>2. c.name \in Names /\ c.path \in AllPaths
      BY <3>1 DEF Contents
    <3>3. db' \in [Names -> AllPaths \union {NoPath}]
      <4>1. db' = db \/ \E p \in {NoPath, c.path} : db' = [db EXCEPT ![c.name] = p]
        BY <2>2 DEF Store
      <4> HIDE DEF c
      <4> QED
        BY <3>2, <4>1 DEF TypeInv, StoreOK
    <3>4. expected' \in [Names -> AllPaths \union {NoPath, "unknown"}]
      <4>1. expected' = expected \/ expected' = [expected EXCEPT ![c.name] = "unknown"]
        BY <2>2 DEF Store
      <4> HIDE DEF c
      <4> QED
        BY <3>2, <4>1 DEF TypeInv, StoreOK
    <3>5. faults' \in 0 .. MaxFaults
      BY <2>2, BoundsAssumption DEF Store, TypeInv, StoreOK
    <3> QED
      BY <1>1, <3>3, <3>4, <3>5 DEF TypeInv, StoreOK
  <2> QED
    BY <2>1, <2>2
<1>9. HeapOK'
  <2>1. stored'.obj \in Known
    BY <1>5, LiveKnown DEF Known
  <2>2. Live' \subseteq Known \ {NoObj}
    BY <1>2, <2>1, LiveKnown, LiveWithin
  <2>3. Live' \subseteq Live /\ \A o \in Live : heap[o] \in Contents
    BY <2>2 DEF Known, TypeInv, HeapOK
  <2> QED
    BY <1>1, <2>3, Collected DEF TypeInv
<1>10. PhasesOK'
  BY <1>1, <1>2, <1>5 DEF TypeInv, PhasesOK
<1> QED
  BY <1>6, <1>7, <1>8, <1>9, <1>10 DEF TypeInv

LEMMA DatastoreType ==
  ASSUME TypeInv, Tick \/ \E n \in Names, p \in Paths \union {NoPath} : Elsewhere(n, p)
  PROVE  TypeInv'
<1>1. UNCHANGED <<memoryVars, routerVars, ops, faults, heap, pc, stored, crashed>>
  BY DEF Tick, Elsewhere, countVars
<1>2. UNCHANGED <<defs, req, msg, base, todo, mine, target, served, routes>>
  BY <1>1 DEF memoryVars, routerVars
<1>3. MemoryOK'
  BY <1>1, <1>2 DEF TypeInv, MemoryOK
<1>4. RoutersOK'
  BY <1>2 DEF TypeInv, RoutersOK, InUse
<1>5. StoreOK'
  <2>1. CASE Tick
    <3>1. Sorted(db) \in Seq(Contents)
      BY SortedType DEF TypeInv, StoreOK
    <3>2. /\ Append(changes, Sorted(db)) \in Seq(Seq(Contents))
          /\ Len(Append(changes, Sorted(db))) = Len(changes) + 1
      BY <3>1, AppendProperties DEF TypeInv, StoreOK
    <3>3. changes' \in Seq(Seq(Contents)) /\ Len(changes') <= ChanMax
      <4>1. Len(changes) \in Nat /\ Len(changes) < ChanMax /\ changes' = Append(changes, Sorted(db))
        BY <2>1 DEF Tick, Snapshot, TypeInv, StoreOK
      <4> QED
        BY <3>2, <4>1, BoundsAssumption
    <3> QED
      BY <1>1, <2>1, <3>3 DEF Tick, storeVars, countVars, TypeInv, StoreOK
  <2>2. ASSUME NEW n \in Names, NEW p \in Paths \union {NoPath}, Elsewhere(n, p)
        PROVE  StoreOK'
    <3>1. p \in AllPaths \union {NoPath}
      BY DEF AllPaths
    <3>2. elsewhere' \in 0 .. MaxElsewhere
      BY <2>2, BoundsAssumption DEF Elsewhere, TypeInv, StoreOK
    <3> QED
      BY <1>1, <2>2, <3>1, <3>2 DEF Elsewhere, TypeInv, StoreOK
  <2> QED
    BY <2>1, <2>2
<1>6. HeapOK'
  BY <1>1, <1>2, NothingMoves DEF TypeInv
<1>7. PhasesOK'
  BY <1>1, <1>2 DEF TypeInv, PhasesOK
<1> QED
  BY <1>3, <1>4, <1>5, <1>6, <1>7 DEF TypeInv

\* The objects that Watch takes for the definitions of a snapshot.
LEMMA NewObjects ==
  ASSUME TypeInv, NEW new \in Seq(Contents), Len(new) <= Cardinality(Objs \ Live), NEW objs,
         objs = [k \in DOMAIN new |-> Nth(Objs \ Live, k)]
  PROVE  /\ objs \in Seq(Objs)
         /\ \A o \in Elems(objs) : o \notin Live /\ new[Place(Objs \ Live, o)] \in Contents
<1> DEFINE free == Objs \ Live
           m == Len(new)
<1>1. IsFiniteSet(free) /\ free \subseteq Nat \ {0}
  <2>1. free \in SUBSET Objs
    OBVIOUS
  <2> QED
    BY <2>1, ObjsAssumption, FS_Subset DEF NoObj
<1>2. m \in Nat /\ DOMAIN new = 1 .. m /\ Cardinality(free) \in Nat /\ m <= Cardinality(free)
  BY <1>1, FS_CardinalityType
<1> HIDE DEF free, m
<1>3. \A k \in 1 .. m : Nth(free, k) \in free /\ Place(free, Nth(free, k)) = k
  <2> TAKE k \in 1 .. m
  <2>1. k \in 1 .. Cardinality(free)
    BY <1>2
  <2> QED
    BY <1>1, <2>1, Places
<1>4. objs = [k \in 1 .. m |-> Nth(free, k)]
  BY <1>2 DEF free
<1>5. \A k \in 1 .. m : objs[k] \in Objs
  BY <1>3, <1>4 DEF free
<1>6. objs \in Seq(Objs)
  <2>1. objs \in [1 .. m -> Objs]
    BY <1>4, <1>5
  <2>2. [1 .. m -> Objs] \subseteq Seq(Objs)
    BY <1>2, SeqDef
  <2> QED
    BY <2>1, <2>2
<1>7. ASSUME NEW o \in Elems(objs) PROVE o \notin Live /\ new[Place(free, o)] \in Contents
  <2>1. PICK k \in 1 .. m : o = Nth(free, k)
    BY <1>4 DEF Elems
  <2>2. o \in free /\ Place(free, o) = k
    BY <1>3, <2>1
  <2>3. new[k] \in Contents
    BY <1>2
  <2> QED
    BY <2>2, <2>3 DEF free
<1> QED
  BY <1>6, <1>7 DEF free

LEMMA WatchType == ASSUME TypeInv, Watch PROVE TypeInv'
<1> DEFINE new == Head(changes)
           objs == [k \in DOMAIN new |-> Nth(Objs \ Live, k)]
<1>1. /\ pc["provider"] = "idle" /\ changes # <<>> /\ changes' = Tail(changes)
      /\ Len(new) <= Cardinality(Objs \ Live)
      /\ UNCHANGED <<req, msg, base, mine, target, served, routes, storeVars, countVars, stored,
                     crashed>>
      /\ \/ UNCHANGED <<defs, todo, pc, heap>>
         \/ /\ defs' = objs
            /\ todo' = [todo EXCEPT !["provider"] = objs]
            /\ pc' = [pc EXCEPT !["provider"] = "begin"]
            /\ heap' = [o \in Live' |-> IF o \in Elems(objs) THEN new[Place(Objs \ Live, o)]
                                                             ELSE heap[o]]
  BY DEF Watch
<1>2. UNCHANGED <<db, expected, ops, elsewhere, faults>>
  BY <1>1 DEF storeVars, countVars
<1>3. new \in Seq(Contents) /\ Tail(changes) \in Seq(Seq(Contents))
      /\ Len(Tail(changes)) <= ChanMax
  <2>1. /\ changes \in Seq(Seq(Contents)) /\ Len(changes) <= ChanMax
        /\ Len(changes) \in Nat /\ ChanMax \in Nat
    BY BoundsAssumption DEF TypeInv, StoreOK
  <2>2. /\ Head(changes) \in Seq(Contents) /\ Tail(changes) \in Seq(Seq(Contents))
        /\ Len(Tail(changes)) = Len(changes) - 1
    BY <1>1, <2>1, HeadTailProperties
  <2> QED
    BY <2>1, <2>2
<1>4. StoreOK'
  BY <1>1, <1>2, <1>3 DEF TypeInv, StoreOK
<1>5. RoutersOK'
  BY <1>1 DEF TypeInv, RoutersOK, InUse
<1>6. CASE UNCHANGED <<defs, todo, pc, heap>>
  <2>1. MemoryOK' /\ PhasesOK'
    BY <1>1, <1>6 DEF TypeInv, MemoryOK, PhasesOK
  <2>2. HeapOK'
    BY <1>1, <1>6, NothingMoves DEF TypeInv
  <2> QED
    BY <1>4, <1>5, <2>1, <2>2 DEF TypeInv
<1>7. CASE /\ defs' = objs
           /\ todo' = [todo EXCEPT !["provider"] = objs]
           /\ pc' = [pc EXCEPT !["provider"] = "begin"]
           /\ heap' = [o \in Live' |-> IF o \in Elems(objs) THEN new[Place(Objs \ Live, o)]
                                                            ELSE heap[o]]
  <2>1. /\ objs \in Seq(Objs)
        /\ \A o \in Elems(objs) : o \notin Live /\ new[Place(Objs \ Live, o)] \in Contents
    BY <1>1, <1>3, NewObjects
  <2> HIDE DEF objs, new
  <2>2. /\ todo'["provider"] = objs /\ todo'["admin"] = todo["admin"]
        /\ pc'["provider"] = "begin" /\ pc'["admin"] = pc["admin"]
    BY <1>7 DEF TypeInv, MemoryOK, Loops
  <2>3. MemoryOK'
    BY <1>1, <1>7, <2>1 DEF TypeInv, MemoryOK
  <2>4. HeapOK'
    <3>1. Live' \subseteq (Known \union Elems(objs)) \ {NoObj}
      <4>1. \A l \in Loops : Elems(todo'[l]) \subseteq Known \union Elems(objs)
        BY <2>2, LiveKnown DEF Loops
      <4> QED
        BY <1>1, <1>7, <4>1, LiveKnown, LiveWithin
    <3>2. \A o \in Live' : o \in Elems(objs) \/ o \in Live
      BY <3>1 DEF Known
    <3> QED
      BY <1>7, <2>1, <3>2 DEF TypeInv, HeapOK
  <2>5. PhasesOK'
    BY <1>1, <2>2 DEF TypeInv, PhasesOK, Loops
  <2> QED
    BY <1>4, <1>5, <2>3, <2>4, <2>5 DEF TypeInv
<1> QED
  BY <1>1, <1>6, <1>7

LEMMA NextType == TypeInv /\ [Next]_vars => TypeInv'
<1> SUFFICES ASSUME TypeInv, [Next]_vars PROVE TypeInv'
  OBVIOUS
<1>1. ASSUME NEW h \in Handlers, Admin(h) PROVE TypeInv'
  BY <1>1, PostType, FindType, PutBodyType, ReceiveType DEF Admin
<1>2. ASSUME NEW l \in Loops, Reload(l) PROVE TypeInv'
  BY <1>2, BeginType, RegisterAPIType, PublishType DEF Reload
<1>3. CASE UNCHANGED vars
  <2>1. UNCHANGED <<db, defs, heap, req, msg, base, pc, todo, mine, target, served, routes,
                    stored, changes, expected, crashed, ops, elsewhere, faults>>
    BY <1>3 DEF vars, memoryVars, routerVars, storeVars, countVars
  <2>2. MemoryOK' /\ StoreOK'
    BY <2>1 DEF TypeInv, MemoryOK, StoreOK
  <2>3. RoutersOK'
    BY <2>1 DEF TypeInv, RoutersOK, InUse
  <2>4. PhasesOK'
    BY <2>1 DEF TypeInv, PhasesOK
  <2> QED
    BY <2>1, <2>2, <2>3, <2>4, NothingMoves DEF TypeInv
<1> QED
  BY <1>1, <1>2, <1>3, WriteType, HandOverType, ListenerType, DatastoreType, WatchType DEF Next

\* Whatever the handlers, the two loops, the listener and the watcher do to each other, the
\* memory points to definitions that exist, the queue of snapshots keeps its length, and
\* the routers in use are those that something holds.  (startProvider, listenProviders.)
THEOREM TypeCorrect == Spec => []TypeOK
<1>1. TypeInv => TypeOK
  BY TypeParts DEF TypeInv
<1> QED
  BY <1>1, InitType, NextType, PTL DEF Spec

----------------------------------------------------------------------------
(* What a DELETE does to the memory.                                       *)

LEMMA WriteRemoves == ASSUME TypeInv, Write PROVE Removes
<1> DEFINE n == heap[msg.obj].name
           at == {k \in DOMAIN base : heap[base[k]].name = n}
<1> SUFFICES ASSUME msg.op = "removed", ~Repeats(base)
             PROVE  ~crashed' /\ defs' = IF at = {} THEN base ELSE RemoveAt(base, Least(at))
  BY DEF Removes
<1>1. base \in Seq(Objs)
  BY DEF TypeInv, MemoryOK
<1>2. defs' = (IF Removal(base, n).ok THEN SubSeq(Removal(base, n).array, 1, Removal(base, n).len)
                                      ELSE base)
      /\ crashed' = ~Removal(base, n).ok
  BY DEF Write
<1>3. CASE at = {}
  <2>1. \A k \in DOMAIN base : heap[base[k]].name # n
    BY <1>3
  <2> HIDE DEF n
  <2>2. Removal(base, n) = Whole(base)
    BY <1>1, <2>1, RemovalOfNone
  <2>3. SubSeq(base, 1, Len(base)) = base
    BY <1>1
  <2>4. Removal(base, n).array = base /\ Removal(base, n).len = Len(base)
        /\ Removal(base, n).ok = TRUE
    BY <2>2 DEF Whole
  <2>5. defs' = base /\ ~crashed'
    BY <1>2, <2>3, <2>4
  <2> HIDE DEF at
  <2> QED
    BY <1>3, <2>5
<1>4. CASE at # {}
  <2>1. at \subseteq DOMAIN base /\ at \subseteq Nat
    BY <1>1
  <2>2. Least(at) \in at
    BY <1>4, <2>1, LeastExists
  <2>3. PICK j \in DOMAIN base : j = Least(at) /\ heap[base[j]].name = n
    BY <2>2
  <2>4. \A k \in DOMAIN base : heap[base[k]].name = n <=> k = j
    BY <2>3 DEF Repeats
  <2> HIDE DEF n
  <2>5. Removal(base, n) = Cut(base, j)
    BY <1>1, <2>4, RemovalOfOne
  <2>6. SubSeq(Cut(base, j).array, 1, Cut(base, j).len) = RemoveAt(base, j) /\ Cut(base, j).ok
    BY <1>1, CutRemoves DEF Cut
  <2>7. defs' = RemoveAt(base, j) /\ ~crashed'
    BY <1>2, <2>5, <2>6
  <2> HIDE DEF at
  <2> QED
    BY <1>4, <2>3, <2>7
<1> QED
  BY <1>3, <1>4

LEMMA OthersRemoveNothing ==
  ASSUME TypeInv, [Next]_vars, ~Write
  PROVE  ~(pc["admin"] = "write" /\ pc'["admin"] = "begin")
<1> SUFFICES ASSUME pc["admin"] = "write" PROVE pc'["admin"] # "begin"
  OBVIOUS
<1> USE DEF Loops
<1>1. pc \in [Loops -> {"idle", "write", "begin", "register", "store"}]
  BY DEF TypeInv, MemoryOK
<1>2. ASSUME NEW h \in Handlers, Admin(h) PROVE pc'["admin"] # "begin"
  BY <1>2 DEF Admin, Post, Delete, Put, PutBody, Receive
<1>3. ASSUME NEW l \in Loops, Reload(l) PROVE pc'["admin"] # "begin"
  BY <1>1, <1>3 DEF Reload, Begin, RegisterAPI, Publish
<1>4. CASE HandOver
  BY <1>4 DEF HandOver
<1>5. CASE Validate \/ Store
  BY <1>5 DEF Validate, Store
<1>6. CASE Tick \/ \E n \in Names, p \in Paths \union {NoPath} : Elsewhere(n, p)
  BY <1>6 DEF Tick, Elsewhere
<1>7. CASE Watch
  BY <1>1, <1>7 DEF Watch
<1>8. CASE UNCHANGED vars
  BY <1>8 DEF vars
<1> QED
  BY <1>2, <1>3, <1>4, <1>5, <1>6, <1>7, <1>8 DEF Next

\* A DELETE takes out one definition and keeps the others, for a memory of any length; that
\* the loop of RemovedOperation changes what it ranges over does no harm while the names do
\* not repeat.
THEOREM DeleteRemovesHolds == Spec => DeleteRemoves
<1>1. TypeInv /\ [Next]_vars => Removes
  <2> SUFFICES ASSUME TypeInv, [Next]_vars PROVE Removes
    OBVIOUS
  <2>1. CASE Write
    BY <2>1, WriteRemoves
  <2>2. CASE ~Write
    BY <2>2, OthersRemoveNothing DEF Removes
  <2> QED
    BY <2>1, <2>2
<1> QED
  BY <1>1, InitType, NextType, PTL DEF Spec, DeleteRemoves

=============================================================================
