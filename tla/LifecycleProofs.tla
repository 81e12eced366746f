---------------------------- MODULE LifecycleProofs ----------------------------
(***************************************************************************)
(* Proofs about Schema and Lifecycle for every datastore, every number of  *)
(* admin requests, failures and signals, and every schema file.            *)
(***************************************************************************)
EXTENDS Lifecycle, SequenceTheorems, WellFoundedInduction, TLAPS

----------------------------------------------------------------------------
(* Induction over the positions of a file.                                 *)

\* The library has induction over the naturals in the form of the well-foundedness of <.
LEMMA LeastNatural ==
  ASSUME NEW T, T \subseteq Nat, T # {}
  PROVE  \E n \in T : \A m \in T : n <= m
<1> DEFINE R == OpToRel(<, Nat)
<1>1. IsWellFoundedOn(R, Nat)
  BY NatLessThanWellFounded
<1>2. \A m, n \in T : <<m, n>> \in R <=> m < n
  BY DEF OpToRel
<1> HIDE DEF R
<1>3. PICK n \in T : \A m \in T : ~(<<m, n>> \in R)
  BY <1>1, WFMin
<1>4. n \in Nat /\ \A m \in T : ~(m < n) /\ m \in Nat
  BY <1>2, <1>3
<1> QED
  BY <1>4

\* A set of positions that has the first and with each one the next has them all.
LEMMA Induction ==
  ASSUME NEW n \in Nat, NEW S, 0 \in S, \A i \in 0 .. n - 1 : i \in S => i + 1 \in S
  PROVE  0 .. n \subseteq S
<1> SUFFICES ASSUME (0 .. n) \ S # {} PROVE FALSE
  OBVIOUS
<1>1. PICK k \in (0 .. n) \ S : \A m \in (0 .. n) \ S : k <= m
  <2> DEFINE T == (0 .. n) \ S
  <2>1. T \subseteq Nat /\ T # {}
    OBVIOUS
  <2> HIDE DEF T
  <2>2. \E k \in T : \A m \in T : k <= m
    BY <2>1, LeastNatural
  <2> QED
    BY <2>2 DEF T
<1>2. k # 0 /\ k - 1 \in 0 .. n - 1
  BY <1>1
<1>3. k - 1 \in S
  BY <1>1, <1>2
<1> QED
  BY <1>1, <1>2, <1>3

----------------------------------------------------------------------------
(* How a schema file is read, and what it asks for.                        *)

NothingRead == [list |-> <<>>, stmt |-> <<>>]

Tokens(f) == {f[i] : i \in DOMAIN f}

States(f) == [list : Seq(Seq(Tokens(f))), stmt : Seq(Tokens(f))]

\* What Reading is about: the loop of getStmtsFromFile.
Reads(f, r) == r = [i \in 0 .. Len(f) |-> IF i = 0 THEN NothingRead ELSE Read(r[i - 1], f[i])]

\* The recursive definition of Reading has a value for every file.
LEMMA ReadingExists ==
  ASSUME NEW f, IsFile(f)
  PROVE  Reads(f, Reading(f))
<1> DEFINE n == Len(f)
           Until(r, i) == r = [j \in 0 .. i |-> IF j = 0 THEN NothingRead ELSE Read(r[j - 1], f[j])]
           S == {i \in 0 .. n : \E r : Until(r, i)}
<1>1. n \in Nat
  BY DEF IsFile
<1>2. 0 \in S
  <2>1. Until([j \in 0 .. 0 |-> NothingRead], 0)
    OBVIOUS
  <2> HIDE DEF Until
  <2> QED
    BY <1>1, <2>1
<1>3. ASSUME NEW i \in 0 .. n - 1, i \in S
      PROVE  i + 1 \in S
  <2>1. PICK r : Until(r, i)
    BY <1>3
  <2> DEFINE q == [j \in 0 .. i + 1 |-> IF j <= i THEN r[j] ELSE Read(r[i], f[i + 1])]
  <2>2. i \in Nat /\ i + 1 \in 0 .. n
    BY <1>1
  <2>3. \A j \in 0 .. i : r[j] = IF j = 0 THEN NothingRead ELSE Read(r[j - 1], f[j])
    BY <2>1
  <2>4. \A j \in 0 .. i + 1 : q[j] = IF j = 0 THEN NothingRead ELSE Read(q[j - 1], f[j])
    <3> TAKE j \in 0 .. i + 1
    <3>1. CASE j = 0
      BY <2>2, <2>3, <3>1
    <3>2. CASE j \in 1 .. i
      BY <2>2, <2>3, <3>2
    <3>3. CASE j = i + 1
      BY <2>2, <3>3
    <3> QED
      BY <2>2, <3>1, <3>2, <3>3
  <2>5. Until(q, i + 1)
    BY <2>4
  <2> QED
    BY <2>2, <2>5
<1>4. n \in S
  <2> HIDE DEF S
  <2>1. \A i \in 0 .. n - 1 : i \in S => i + 1 \in S
    BY <1>3
  <2>2. 0 .. n \subseteq S
    BY <1>1, <1>2, <2>1, Induction
  <2> QED
    BY <1>1, <2>2
<1>5. \E r : Reads(f, r)
  BY <1>4 DEF Reads
<1> QED
  BY <1>5 DEF Reading, Reads, NothingRead

LEMMA ReadingSteps ==
  ASSUME NEW f, IsFile(f)
  PROVE  /\ Len(f) \in Nat /\ DOMAIN f = 1 .. Len(f)
         /\ Reading(f)[0] = NothingRead
         /\ \A i \in 1 .. Len(f) : Reading(f)[i] = Read(Reading(f)[i - 1], f[i])
<1>1. Len(f) \in Nat /\ DOMAIN f = 1 .. Len(f)
  BY DEF IsFile
<1>2. Reads(f, Reading(f))
  BY ReadingExists
<1>3. \A i \in 0 .. Len(f) :
        Reading(f)[i] = IF i = 0 THEN NothingRead ELSE Read(Reading(f)[i - 1], f[i])
  BY <1>2 DEF Reads
<1> QED
  BY <1>1, <1>3

\* One token more: a comment, the end of a statement, or a part of one.
LEMMA ReadToken ==
  ASSUME NEW f, IsFile(f), NEW token \in Tokens(f),
         NEW st \in States(f)
  PROVE  /\ Read(st, token) \in States(f)
         /\ token = End => Read(st, token).list = Append(st.list, st.stmt)
                           /\ Read(st, token).stmt = <<>>
         /\ token # End => Read(st, token).list = st.list
         /\ token.kind = "comment" => Read(st, token).stmt = st.stmt
         /\ token # End /\ token.kind # "comment" =>
              Read(st, token).stmt = Append(st.stmt, token)
<1> USE DEF States
<1>1. token = End \/ token.kind \in {"clause", "string", "comment"}
  BY DEF IsFile, Tokens
<1>2. CASE token = End
  BY <1>2, EmptySeq DEF Read, End
<1>3. CASE token.kind = "comment"
  BY <1>3 DEF Read, End
<1>4. CASE token.kind \in {"clause", "string"}
  <2>1. token # End
    BY <1>4 DEF End
  <2>2. Read(st, token) = [st EXCEPT !.stmt = Append(st.stmt, token)]
    BY <1>4 DEF Read
  <2>3. Append(st.stmt, token) \in Seq(Tokens(f))
    BY AppendProperties
  <2> QED
    BY <1>4, <2>1, <2>2, <2>3
<1> QED
  BY <1>1, <1>2, <1>3, <1>4

LEMMA ReadingType ==
  ASSUME NEW f, IsFile(f)
  PROVE  \A i \in 0 .. Len(f) :
           Reading(f)[i] \in States(f)
<1> DEFINE T == States(f)
           S == {i \in 0 .. Len(f) : Reading(f)[i] \in T}
<1>1. 0 \in S
  <2>1. NothingRead \in T
    BY EmptySeq DEF NothingRead, States
  <2>2. Reading(f)[0] \in T /\ 0 \in 0 .. Len(f)
    BY <2>1, ReadingSteps
  <2> QED
    BY <2>2
<1>2. ASSUME NEW i \in 0 .. Len(f) - 1, i \in S
      PROVE  i + 1 \in S
  <2>1. i + 1 \in 1 .. Len(f) /\ (i + 1) - 1 = i
    BY ReadingSteps
  <2>2. Reading(f)[i + 1] = Read(Reading(f)[i], f[i + 1])
    BY <2>1, ReadingSteps
  <2>3. f[i + 1] \in Tokens(f) /\ Reading(f)[i] \in T
    BY <1>2, <2>1, ReadingSteps DEF Tokens
  <2>4. Reading(f)[i + 1] \in T
    BY <2>2, <2>3, ReadToken, Zenon
  <2> QED
    BY <2>1, <2>4
<1> HIDE DEF S
<1>3. \A i \in 0 .. Len(f) - 1 : i \in S => i + 1 \in S
  BY <1>2
<1>4. 0 .. Len(f) \subseteq S
  BY <1>1, <1>3, Induction, ReadingSteps
<1> QED
  BY <1>4 DEF S

LEMMA ReadingNext ==
  ASSUME NEW f, IsFile(f), NEW i \in 1 .. Len(f)
  PROVE  LET r == Reading(f) IN
         /\ f[i] = End => r[i].list = Append(r[i - 1].list, r[i - 1].stmt) /\ r[i].stmt = <<>>
         /\ f[i] # End => r[i].list = r[i - 1].list
         /\ f[i].kind = "comment" => r[i].stmt = r[i - 1].stmt
         /\ f[i] # End /\ f[i].kind # "comment" => r[i].stmt = Append(r[i - 1].stmt, f[i])
<1>1. i - 1 \in 0 .. Len(f) /\ i \in DOMAIN f
  BY ReadingSteps
<1>2. Reading(f)[i] = Read(Reading(f)[i - 1], f[i])
  BY ReadingSteps
<1>3. PICK st \in States(f), token \in Tokens(f) : st = Reading(f)[i - 1] /\ token = f[i]
  BY <1>1, ReadingType DEF Tokens
<1>4. /\ token = End => Read(st, token).list = Append(st.list, st.stmt)
                        /\ Read(st, token).stmt = <<>>
      /\ token # End => Read(st, token).list = st.list
      /\ token.kind = "comment" => Read(st, token).stmt = st.stmt
      /\ token # End /\ token.kind # "comment" =>
           Read(st, token).stmt = Append(st.stmt, token)
  BY ReadToken
<1> QED
  BY <1>2, <1>3, <1>4

\* The statements read so far stay the first ones.
LEMMA ReadingGrows ==
  ASSUME NEW f, IsFile(f), NEW i \in 0 .. Len(f)
  PROVE  /\ Len(Reading(f)[i].list) <= Len(Statements(f))
         /\ \A k \in 1 .. Len(Reading(f)[i].list) : Statements(f)[k] = Reading(f)[i].list[k]
<1> DEFINE r == Reading(f)
           Grown(j) == /\ Len(r[i].list) <= Len(r[j].list)
                       /\ \A k \in 1 .. Len(r[i].list) : r[j].list[k] = r[i].list[k]
           S == {d \in 0 .. Len(f) - i : Grown(i + d)}
<1> HIDE DEF r
<1>1. Len(f) \in Nat /\ i \in Nat /\ Len(f) - i \in Nat
  BY ReadingSteps
<1>2. \A j \in 0 .. Len(f) : r[j].list \in Seq(Seq(Tokens(f))) /\ r[j].stmt \in Seq(Tokens(f))
  BY ReadingType DEF r, States
<1>3. 0 \in S
  BY <1>1, <1>2
<1>4. ASSUME NEW d \in 0 .. Len(f) - i - 1, d \in S
      PROVE  d + 1 \in S
  <2> DEFINE j == i + d
  <2>1. j \in 0 .. Len(f) /\ j + 1 \in 1 .. Len(f) /\ (j + 1) - 1 = j
    BY <1>1
  <2>2. r[j + 1].list \in {r[j].list, Append(r[j].list, r[j].stmt)}
    BY <2>1, ReadingNext DEF r
  <2>3. Grown(j)
    BY <1>4
  <2> HIDE DEF j
  <2>4. Grown(j + 1)
    <3>1. CASE r[j + 1].list = r[j].list
      BY <2>3, <3>1
    <3>2. CASE r[j + 1].list = Append(r[j].list, r[j].stmt)
      <4>1. /\ Len(r[j + 1].list) = Len(r[j].list) + 1
            /\ \A k \in 1 .. Len(r[j].list) : r[j + 1].list[k] = r[j].list[k]
        BY <1>2, <2>1, <3>2, AppendProperties
      <4>2. Len(r[i].list) \in Nat /\ Len(r[j].list) \in Nat
        BY <1>2, <2>1
      <4>3. Len(r[i].list) <= Len(r[j + 1].list)
        BY <2>3, <4>1, <4>2
      <4>4. ASSUME NEW k \in 1 .. Len(r[i].list)
            PROVE  r[j + 1].list[k] = r[i].list[k]
        <5>1. k \in 1 .. Len(r[j].list)
          BY <2>3, <4>2
        <5> QED
          BY <2>3, <4>1, <5>1
      <4> QED
        BY <4>3, <4>4
    <3> QED
      BY <2>2, <3>1, <3>2
  <2> QED
    BY <1>1, <2>4 DEF j
<1>5. Len(f) - i \in S
  <2> HIDE DEF S
  <2>1. \A d \in 0 .. Len(f) - i - 1 : d \in S => d + 1 \in S
    BY <1>4
  <2>2. 0 .. Len(f) - i \subseteq S
    BY <1>1, <1>3, <2>1, Induction
  <2> QED
    BY <1>1, <2>2
<1>6. Grown(Len(f))
  BY <1>1, <1>5
<1> QED
  BY <1>6 DEF r, Statements

Elements(s) == {s[k] : k \in DOMAIN s}

\* The tokens of f from i + 1 to j that are no comments.
Kept(f, i, j) == {f[k] : k \in {l \in i + 1 .. j : f[l].kind # "comment"}}

NoEnd(f, i, j) == \A k \in i + 1 .. j : f[k] # End

LEMMA ElementsOfAppend ==
  ASSUME NEW S, NEW s \in Seq(S), NEW e \in S
  PROVE  Elements(Append(s, e)) = Elements(s) \union {e}
<1>1. /\ DOMAIN s = 1 .. Len(s) /\ Len(s) \in Nat
      /\ DOMAIN Append(s, e) = 1 .. Len(s) + 1
      /\ Append(s, e)[Len(s) + 1] = e
      /\ \A k \in 1 .. Len(s) : Append(s, e)[k] = s[k]
  BY AppendProperties
<1> HIDE DEF Elements
<1>2. ASSUME NEW x PROVE x \in Elements(Append(s, e)) <=> x \in Elements(s) \union {e}
  <2>1. x \in Elements(Append(s, e)) <=> \E k \in 1 .. Len(s) + 1 : x = Append(s, e)[k]
    BY <1>1 DEF Elements
  <2>2. x \in Elements(s) <=> \E k \in 1 .. Len(s) : x = s[k]
    BY <1>1 DEF Elements
  <2>3. \A k \in 1 .. Len(s) + 1 : k \in 1 .. Len(s) \/ k = Len(s) + 1
    BY <1>1
  <2>4. 1 .. Len(s) \subseteq 1 .. Len(s) + 1 /\ Len(s) + 1 \in 1 .. Len(s) + 1
    BY <1>1
  <2> QED
    BY <1>1, <2>1, <2>2, <2>3, <2>4
<1> QED
  BY <1>2

\* Between two ends the tokens that are no comments are collected.
LEMMA StatementTokens ==
  ASSUME NEW f, IsFile(f), NEW i \in 0 .. Len(f), Reading(f)[i].stmt = <<>>,
         NEW j \in i .. Len(f), NoEnd(f, i, j)
  PROVE  /\ Reading(f)[j].list = Reading(f)[i].list
         /\ Elements(Reading(f)[j].stmt) = Kept(f, i, j)
<1> DEFINE r == Reading(f)
           Collected(k) == r[k].list = r[i].list /\ Elements(r[k].stmt) = Kept(f, i, k)
           S == {d \in 0 .. j - i : Collected(i + d)}
<1>1. i \in Nat /\ j \in Nat /\ j - i \in Nat /\ Len(f) \in Nat /\ DOMAIN f = 1 .. Len(f)
  BY ReadingSteps
<1>2. 0 \in S
  <2>1. Elements(r[i].stmt) = {}
    BY DEF Elements
  <2>2. Kept(f, i, i) = {}
    BY <1>1 DEF Kept
  <2>3. Collected(i)
    BY <2>1, <2>2
  <2>4. 0 \in 0 .. j - i /\ i + 0 = i
    BY <1>1
  <2> HIDE DEF Collected
  <2> QED
    BY <2>3, <2>4
<1>3. ASSUME NEW d \in 0 .. j - i - 1, d \in S
      PROVE  d + 1 \in S
  <2> DEFINE k == i + d + 1
  <2>1. k \in 1 .. Len(f) /\ k \in i + 1 .. j /\ k - 1 = i + d /\ k - 1 \in 0 .. Len(f)
    BY <1>1
  <2>2. Collected(k - 1)
    BY <1>3, <2>1
  <2> HIDE DEF k
  <2>3. f[k] # End
    BY <2>1 DEF NoEnd
  <2>4. r[k].list = r[k - 1].list
    BY <2>1, <2>3, ReadingNext
  <2>5. ASSUME f[k].kind = "comment" PROVE Collected(k)
    <3>1. r[k].stmt = r[k - 1].stmt
      BY <2>1, <2>5, ReadingNext
    <3>2. Kept(f, i, k) = Kept(f, i, k - 1)
      BY <1>1, <2>1, <2>5 DEF Kept
    <3> QED
      BY <2>2, <2>4, <3>1, <3>2
  <2>6. ASSUME f[k].kind # "comment" PROVE Collected(k)
    <3>1. r[k].stmt = Append(r[k - 1].stmt, f[k])
      BY <2>1, <2>3, <2>6, ReadingNext
    <3>2. r[k - 1].stmt \in Seq(Tokens(f)) /\ f[k] \in Tokens(f)
      BY <1>1, <2>1, ReadingType DEF Tokens, States
    <3>3. Elements(r[k].stmt) = Elements(r[k - 1].stmt) \union {f[k]}
      BY <3>1, <3>2, ElementsOfAppend
    <3>4. Kept(f, i, k) = Kept(f, i, k - 1) \union {f[k]}
      BY <1>1, <2>1, <2>6 DEF Kept
    <3> QED
      BY <2>2, <2>4, <3>3, <3>4
  <2>7. Collected(k)
    BY <2>5, <2>6
  <2> QED
    BY <1>1, <2>7 DEF k
<1>4. j - i \in S
  <2> HIDE DEF S
  <2>1. \A d \in 0 .. j - i - 1 : d \in S => d + 1 \in S
    BY <1>3
  <2>2. 0 .. j - i \subseteq S
    BY <1>1, <1>2, <2>1, Induction
  <2> QED
    BY <1>1, <2>2
<1>5. i + (j - i) = j
  BY <1>1
<1> QED
  BY <1>4, <1>5

LEMMA FirstEnd ==
  ASSUME NEW f, IsFile(f), NEW i \in 0 .. Len(f), ~NoEnd(f, i, Len(f))
  PROVE  \E j \in i + 1 .. Len(f) : f[j] = End /\ NoEnd(f, i, j - 1)
<1> DEFINE E == {k \in i + 1 .. Len(f) : f[k] = End}
<1>1. i \in Nat /\ Len(f) \in Nat
  BY ReadingSteps
<1>2. E \subseteq Nat /\ E # {}
  BY <1>1 DEF NoEnd
<1>3. PICK j \in E : \A k \in E : j <= k
  <2> HIDE DEF E
  <2> QED
    BY <1>2, LeastNatural
<1>4. NoEnd(f, i, j - 1)
  BY <1>1, <1>3 DEF NoEnd
<1> QED
  BY <1>3, <1>4

\* The first end after i makes a statement of the tokens up to there, and one more of them.
LEMMA StatementEnds ==
  ASSUME NEW f, IsFile(f), NEW i \in 0 .. Len(f), Reading(f)[i].stmt = <<>>,
         NEW j \in i + 1 .. Len(f), f[j] = End, NoEnd(f, i, j - 1)
  PROVE  LET m == Len(Reading(f)[i].list) IN
         /\ Reading(f)[j].stmt = <<>> /\ Len(Reading(f)[j].list) = m + 1
         /\ m \in Nat /\ m + 1 <= Len(Statements(f))
         /\ Statements(f)[m + 1] \in Seq(Tokens(f))
         /\ Elements(Statements(f)[m + 1]) = Kept(f, i, j - 1)
<1> DEFINE r == Reading(f)
           m == Len(r[i].list)
<1>1. /\ i \in Nat /\ j \in Nat /\ Len(f) \in Nat /\ j \in 1 .. Len(f) /\ j \in 0 .. Len(f)
      /\ j - 1 \in i .. Len(f) /\ j - 1 \in 0 .. Len(f)
  BY ReadingSteps
<1>2. r[j - 1].list = r[i].list /\ Elements(r[j - 1].stmt) = Kept(f, i, j - 1)
  BY <1>1, StatementTokens
<1>3. r[j].list = Append(r[i].list, r[j - 1].stmt) /\ r[j].stmt = <<>>
  BY <1>1, <1>2, ReadingNext
<1>4. r[i].list \in Seq(Seq(Tokens(f))) /\ r[j - 1].stmt \in Seq(Tokens(f))
  BY <1>1, ReadingType DEF States
<1>5. m \in Nat /\ Len(r[j].list) = m + 1 /\ r[j].list[m + 1] = r[j - 1].stmt
  BY <1>3, <1>4
<1>6. /\ Len(r[j].list) <= Len(Statements(f))
      /\ \A k \in 1 .. Len(r[j].list) : Statements(f)[k] = r[j].list[k]
  BY <1>1, ReadingGrows
<1>7. Statements(f)[m + 1] = r[j - 1].stmt
  <2>1. m + 1 \in 1 .. Len(r[j].list)
    BY <1>5
  <2> QED
    BY <1>5, <1>6, <2>1
<1> QED
  BY <1>2, <1>3, <1>4, <1>5, <1>6, <1>7

\* The USE clauses before token i, and the tables asked for up to token i.
UsesBefore(f, i) == {j \in ClausesOf(f, "use") : j < i}

TableClauses(f, i) == {j \in ClausesOf(f, "table") : j <= i}

AskedBy(f, i) == {AskedAt(f, j) : j \in TableClauses(f, i)}

LEMMA AskedAtStart ==
  ASSUME NEW f, IsFile(f)
  PROVE  Current(f, 1) = System /\ AskedBy(f, 0) = {}
<1>1. UsesBefore(f, 1) = {} /\ TableClauses(f, 0) = {}
  BY ReadingSteps DEF UsesBefore, TableClauses, ClausesOf, Clauses
<1> QED
  BY <1>1 DEF Current, AskedBy, UsesBefore

\* What no semicolon ends is not asked for.
LEMMA AllAsked ==
  ASSUME NEW f, IsFile(f), NEW i \in 0 .. Len(f), NoEnd(f, i, Len(f))
  PROVE  Asked(f) \subseteq AskedBy(f, i)
<1> SUFFICES ASSUME NEW x \in Asked(f) PROVE x \in AskedBy(f, i)
  OBVIOUS
<1>1. PICK l \in DOMAIN f :
        /\ l \in ClausesOf(f, "table")
        /\ \E j \in DOMAIN f : j > l /\ f[j] = End
        /\ x = AskedAt(f, l)
  BY DEF Asked, ClausesOf, Clauses
<1>2. l <= i
  BY <1>1, ReadingSteps DEF NoEnd
<1> QED
  BY <1>1, <1>2 DEF AskedBy, TableClauses

\* A statement with a USE changes the keyspace, and asks for no table.
LEMMA UseStatement ==
  ASSUME NEW f, IsFile(f), UsesStandAlone(f),
         NEW i \in 0 .. Len(f), NEW j \in i + 1 .. Len(f), f[j] = End, NoEnd(f, i, j - 1),
         NEW stmt \in Seq(Tokens(f)), Elements(stmt) = Kept(f, i, j - 1), IsUse(stmt)
  PROVE  KeyspaceOf(stmt) = Current(f, j + 1) /\ AskedBy(f, j) = AskedBy(f, i)
<1>1. i \in Nat /\ j \in Nat /\ Len(f) \in Nat /\ DOMAIN f = 1 .. Len(f)
  BY ReadingSteps
<1>2. Uses(stmt) \subseteq Nat /\ Uses(stmt) # {} /\ Uses(stmt) \subseteq DOMAIN stmt
  BY DEF Uses, IsUse
<1>3. PICK u \in Uses(stmt) : u = CHOOSE k \in Uses(stmt) : \A l \in Uses(stmt) : k <= l
  BY <1>2, LeastNatural
<1>4. KeyspaceOf(stmt) = stmt[u].ks
  BY <1>3 DEF KeyspaceOf
<1>5. stmt[u] \in Kept(f, i, j - 1) /\ stmt[u].op = "use"
  BY <1>2 DEF Elements, Uses
<1>6. PICK k \in i + 1 .. j - 1 : stmt[u] = f[k] /\ f[k].kind # "comment" /\ f[k].op = "use"
  BY <1>5 DEF Kept
<1>7. k \in DOMAIN f /\ f[k].kind = "clause"
  <2>1. k \in DOMAIN f
    BY <1>1
  <2>2. f[k] # End
    BY DEF NoEnd
  <2> QED
    BY <1>6, <2>1, <2>2 DEF IsFile, UsesStandAlone
\* No other clause is in the statement.
<1>8. ASSUME NEW l \in i + 1 .. j, l # k PROVE f[l].kind # "clause"
  <2>1. CASE l = j
    BY <2>1 DEF End
  <2>2. CASE l # j
    <3>1. l \in DOMAIN f /\ l \in i + 1 .. j - 1
      BY <1>1, <2>2
    <3>2. /\ \A m \in l .. k : f[m] # End
          /\ \A m \in k .. l : f[m] # End
      BY <1>1, <3>1 DEF NoEnd
    <3>3. l < k \/ k < l
      BY <1>1, <1>8, <3>1
    <3> QED
      BY <1>6, <1>7, <3>1, <3>2, <3>3 DEF UsesStandAlone
  <2> QED
    BY <2>1, <2>2
<1>9. TableClauses(f, j) = TableClauses(f, i)
  BY <1>1, <1>6, <1>8 DEF TableClauses, ClausesOf, Clauses
<1>10. k \in UsesBefore(f, j + 1) /\ \A l \in UsesBefore(f, j + 1) : l <= k
  BY <1>1, <1>6, <1>7, <1>8 DEF UsesBefore, ClausesOf, Clauses
<1>11. Latest(UsesBefore(f, j + 1)) = k
  <2>1. UsesBefore(f, j + 1) \subseteq Nat
    BY <1>1 DEF UsesBefore, ClausesOf, Clauses
  <2> QED
    BY <1>10, <2>1 DEF Latest
<1> QED
  BY <1>4, <1>6, <1>9, <1>10, <1>11 DEF Current, AskedBy, UsesBefore

\* Any other statement creates the tables its tokens ask for.
LEMMA OtherStatement ==
  ASSUME NEW f, IsFile(f), UsesStandAlone(f),
         NEW i \in 0 .. Len(f), NEW j \in i + 1 .. Len(f), f[j] = End, NoEnd(f, i, j - 1),
         NEW stmt \in Seq(Tokens(f)), Elements(stmt) = Kept(f, i, j - 1), ~IsUse(stmt),
         NEW T, AskedBy(f, i) \subseteq T
  PROVE  /\ Current(f, j + 1) = Current(f, i + 1)
         /\ AskedBy(f, j) \subseteq TablesAfter(stmt, Current(f, i + 1), T)
<1>1. i \in Nat /\ j \in Nat /\ Len(f) \in Nat /\ DOMAIN f = 1 .. Len(f)
  BY ReadingSteps
<1>2. ASSUME NEW k \in i + 1 .. j, f[k].kind = "clause"
      PROVE  k < j /\ \E l \in DOMAIN stmt : stmt[l] = f[k]
  <2>1. k # j
    BY <1>2 DEF End
  <2>2. f[k] \in Kept(f, i, j - 1)
    BY <1>1, <1>2, <2>1 DEF Kept
  <2> QED
    BY <1>1, <2>1, <2>2 DEF Elements
<1>3. \A k \in i + 1 .. j : f[k].kind = "clause" => f[k].op # "use"
  BY <1>2 DEF IsUse, Uses
<1>4. \A k \in i + 1 .. j + 1 : UsesBefore(f, k) = UsesBefore(f, i + 1)
  BY <1>1, <1>3 DEF UsesBefore, ClausesOf, Clauses
<1>5. \A k \in i + 1 .. j + 1 : Current(f, k) = Current(f, i + 1)
  BY <1>4 DEF Current, UsesBefore
<1>6. ASSUME NEW x \in AskedBy(f, j)
      PROVE  x \in TablesAfter(stmt, Current(f, i + 1), T)
  <2>1. PICK k \in TableClauses(f, j) : x = AskedAt(f, k)
    BY <1>6 DEF AskedBy
  <2>2. CASE k <= i
    BY <2>1, <2>2 DEF AskedBy, TableClauses, TablesAfter
  <2>3. CASE k > i
    <3>1. k \in i + 1 .. j /\ f[k].kind = "clause" /\ f[k].op = "table"
      BY <1>1, <2>3 DEF TableClauses, ClausesOf, Clauses
    <3>2. PICK l \in DOMAIN stmt : stmt[l] = f[k]
      BY <1>2, <3>1
    <3>3. f[k] \in Creates(stmt, "table")
      BY <3>1, <3>2 DEF Creates, Clauses
    <3>4. Current(f, k) = Current(f, i + 1)
      BY <1>1, <1>5, <3>1
    <3> QED
      BY <2>1, <3>3, <3>4 DEF TablesAfter, AskedAt
  <2> QED
    BY <1>1, <2>2, <2>3 DEF TableClauses, ClausesOf, Clauses
<1>7. j + 1 \in i + 1 .. j + 1
  BY <1>1
<1> QED
  BY <1>5, <1>6, <1>7

----------------------------------------------------------------------------
(* Type correctness.                                                       *)

LEMMA DeferredCalls ==
    /\ DOMAIN Deferred = 1 .. 3
    /\ Deferred[1] = "admin" /\ Deferred[2] = "changes" /\ Deferred[3] = "stop"
BY DEF Deferred

LEMMA StatementsType ==
  ASSUME NEW f, IsFile(f)
  PROVE  Statements(f) \in Seq(Seq(Tokens(f)))
BY ReadingType, ReadingSteps DEF Statements, States

LEMMA AllFilesAreFiles == \A f \in AllFiles : IsFile(f)
<1>1. IsFile(<<>>)
  BY EmptySeq DEF IsFile
<1> QED
  BY <1>1, FilesAssumption DEF AllFiles

\* What remains of the statements of a file, before and after one is carried out.
LEMMA RemainingSteps ==
  ASSUME NEW f \in AllFiles
  PROVE  /\ <<>> \in Remaining[f] /\ Statements(f) \in Remaining[f]
         /\ \A s \in Remaining[f] : s # <<>> =>
              /\ Tail(s) \in Remaining[f]
              /\ Head(s) \in Seq(Tokens(f))
<1> DEFINE l == Statements(f)
<1>1. l \in Seq(Seq(Tokens(f)))
  BY AllFilesAreFiles, StatementsType
<1> HIDE DEF l
<1>2. Remaining[f] = {SubSeq(l, k, Len(l)) : k \in 1 .. Len(l) + 1}
  BY DEF Remaining, l
<1>3. Len(l) \in Nat
  BY <1>1
<1>4. SubSeq(l, Len(l) + 1, Len(l)) = <<>>
  BY <1>3, SubSeqEmpty
<1>5. SubSeq(l, 1, Len(l)) = l
  BY <1>1, SubSeqFull
<1>6. ASSUME NEW k \in 1 .. Len(l) + 1, SubSeq(l, k, Len(l)) # <<>>
      PROVE  /\ k \in 1 .. Len(l) /\ k + 1 \in 1 .. Len(l) + 1
             /\ Head(SubSeq(l, k, Len(l))) = l[k] /\ l[k] \in Seq(Tokens(f))
             /\ Tail(SubSeq(l, k, Len(l))) = SubSeq(l, k + 1, Len(l))
  <2>1. k # Len(l) + 1
    BY <1>4, <1>6
  <2>2. k \in 1 .. Len(l) /\ Len(l) \in k .. Len(l)
    BY <1>3, <2>1
  <2> QED
    BY <1>1, <1>3, <2>2, HeadTailOfSubSeq, ElementOfSeq
<1>7. <<>> \in Remaining[f] /\ l \in Remaining[f]
  BY <1>2, <1>3, <1>4, <1>5
<1>8. ASSUME NEW s \in Remaining[f], s # <<>>
      PROVE  Tail(s) \in Remaining[f] /\ Head(s) \in Seq(Tokens(f))
  <2>1. PICK k \in 1 .. Len(l) + 1 : s = SubSeq(l, k, Len(l))
    BY <1>2
  <2>2. Tail(s) = SubSeq(l, k + 1, Len(l)) /\ k + 1 \in 1 .. Len(l) + 1
    BY <1>6, <1>8, <2>1
  <2> QED
    BY <1>2, <1>6, <1>8, <2>1, <2>2
<1> QED
  BY <1>7, <1>8 DEF l

\* With the type: a process can always go back to the keyspace of the system, and the
\* schema session has a statement to carry out.
TypeInv ==
    /\ TypeOK
    /\ System \in keyspaces
    /\ proc.main = "statements" => proc.todo # <<>>

LEMMA FreshType ==
  ASSUME file \in AllFiles, System \in keyspaces
  PROVE  Fresh \in Processes /\ Fresh.main = "connect"
<1>1. <<>> \in Remaining[file]
  BY RemainingSteps
<1>2. 0 \in 0 .. Len(Deferred) + 1 /\ 0 \in 0 .. ChanMax
  BY BoundsAssumption DEF Deferred
<1> QED
  BY <1>1, <1>2 DEF Fresh, Processes, Phases

LEMMA InitType == Init => TypeInv
<1> SUFFICES ASSUME Init PROVE TypeInv
  OBVIOUS
<1>1. file \in AllFiles /\ System \in keyspaces
  BY DEF Init, AllFiles
<1> QED
  BY <1>1, FreshType, BoundsAssumption DEF Init, TypeInv, TypeOK

\* A step of one goroutine that leaves the datastore alone.
LEMMA GoesType ==
  ASSUME TypeInv, NEW next \in Processes, next.main = "statements" => next.todo # <<>>,
         Goes(next), UNCHANGED storeVars, failures' \in 0 .. MaxFailures
  PROVE  TypeInv'
BY DEF TypeInv, TypeOK, Goes, storeVars, Processes

LEMMA DiesType ==
  ASSUME TypeInv, Dies, failures' \in 0 .. MaxFailures, keyspaces \subseteq keyspaces',
         (tables \subseteq (keyspaces \X Named[file]))'
  PROVE  TypeInv'
<1>1. (Fresh \in Processes /\ Fresh.main = "connect")'
  <2>1. (file \in AllFiles /\ System \in keyspaces)'
    BY DEF TypeInv, TypeOK, Dies
  <2> QED
    BY <2>1, FreshType, PTL
<1>2. Fresh' = Fresh
  BY DEF Fresh
<1> QED
  BY <1>1, <1>2 DEF TypeInv, TypeOK, Dies

LEMMA FailuresType ==
  ASSUME TypeInv
  PROVE  /\ UNCHANGED failures => failures' \in 0 .. MaxFailures
         /\ Failure => failures' \in 0 .. MaxFailures
         /\ QueryFails => failures' \in 0 .. MaxFailures
BY BoundsAssumption DEF TypeInv, TypeOK, Failure, QueryFails

\* A process that ends and leaves the datastore alone.
LEMMA EndsType ==
  ASSUME TypeInv, Dies, failures' \in 0 .. MaxFailures, UNCHANGED storeVars
  PROVE  TypeInv'
<1>1. keyspaces \subseteq keyspaces'
  BY DEF storeVars
<1>2. (tables \subseteq (keyspaces \X Named[file]))'
  BY DEF storeVars, TypeInv, TypeOK, Dies
<1> QED
  BY <1>1, <1>2, DiesType

Moves(next) == next \in Processes /\ (next.main = "statements" => next.todo # <<>>)

\* A process moves on when one of its fields gets another value.
LEMMA FieldMoves ==
  ASSUME NEW p, Moves(p)
  PROVE  /\ \A x \in Phases \ {"statements"} : Moves([p EXCEPT !.main = x])
         /\ \A x \in {"notified", "selects", "closed"} : Moves([p EXCEPT !.signal = x])
         /\ \A x \in BOOLEAN : Moves([p EXCEPT !.cancelled = x])
         /\ \A x \in 0 .. Len(Deferred) + 1 : Moves([p EXCEPT !.closer = x])
         /\ \A x \in {"starting", "made", "serving"} : Moves([p EXCEPT !.http = x])
         /\ \A x \in {"made", "closed"} : Moves([p EXCEPT !.server = x])
         /\ \A x \in BOOLEAN : Moves([p EXCEPT !.web = x])
         /\ \A x \in BOOLEAN : Moves([p EXCEPT !.configs = x])
         /\ \A x \in BOOLEAN : Moves([p EXCEPT !.loader = x])
         /\ \A x \in SUBSET Channels : Moves([p EXCEPT !.closed = x])
         /\ \A x \in 0 .. ChanMax : Moves([p EXCEPT !.changes = x])
         /\ \A x \in {"starting", "idle", "reloading", "storing", "ended"} :
              Moves([p EXCEPT !.admin = x])
         /\ \A x \in {"off", "idle", "storing", "ended"} : Moves([p EXCEPT !.listener = x])
         /\ \A x \in {"idle", "sending", "ended"} : Moves([p EXCEPT !.watcher = x])
         /\ \A x \in {"idle", "reloading", "ended"} : Moves([p EXCEPT !.provider = x])
         /\ \A h \in Handlers, x \in {"idle", "sending"} : Moves([p EXCEPT !.sender[h] = x])
<1> USE DEF Processes, Moves
<1>1. ASSUME NEW x \in Phases \ {"statements"} PROVE Moves([p EXCEPT !.main = x])
  OBVIOUS
<1>2. ASSUME NEW x \in {"notified", "selects", "closed"} PROVE Moves([p EXCEPT !.signal = x])
  OBVIOUS
<1>3. ASSUME NEW x \in BOOLEAN PROVE Moves([p EXCEPT !.cancelled = x])
  OBVIOUS
<1>4. ASSUME NEW x \in 0 .. Len(Deferred) + 1 PROVE Moves([p EXCEPT !.closer = x])
  OBVIOUS
<1>5. ASSUME NEW x \in {"starting", "made", "serving"} PROVE Moves([p EXCEPT !.http = x])
  OBVIOUS
<1>6. ASSUME NEW x \in {"made", "closed"} PROVE Moves([p EXCEPT !.server = x])
  OBVIOUS
<1>7. ASSUME NEW x \in BOOLEAN PROVE Moves([p EXCEPT !.web = x])
  OBVIOUS
<1>8. ASSUME NEW x \in BOOLEAN PROVE Moves([p EXCEPT !.configs = x])
  OBVIOUS
<1>9. ASSUME NEW x \in BOOLEAN PROVE Moves([p EXCEPT !.loader = x])
  OBVIOUS
<1>10. ASSUME NEW x \in SUBSET Channels PROVE Moves([p EXCEPT !.closed = x])
  OBVIOUS
<1>11. ASSUME NEW x \in 0 .. ChanMax PROVE Moves([p EXCEPT !.changes = x])
  OBVIOUS
<1>12. ASSUME NEW x \in {"starting", "idle", "reloading", "storing", "ended"}
       PROVE  Moves([p EXCEPT !.admin = x])
  OBVIOUS
<1>13. ASSUME NEW x \in {"off", "idle", "storing", "ended"} PROVE Moves([p EXCEPT !.listener = x])
  OBVIOUS
<1>14. ASSUME NEW x \in {"idle", "sending", "ended"} PROVE Moves([p EXCEPT !.watcher = x])
  OBVIOUS
<1>15. ASSUME NEW x \in {"idle", "reloading", "ended"} PROVE Moves([p EXCEPT !.provider = x])
  OBVIOUS
<1>16. ASSUME NEW h \in Handlers, NEW x \in {"idle", "sending"}
      PROVE  Moves([p EXCEPT !.sender[h] = x])
  OBVIOUS
<1> HIDE DEF Processes, Moves
<1> QED
  BY <1>1, <1>2, <1>3, <1>4, <1>5, <1>6, <1>7, <1>8,
     <1>9, <1>10, <1>11, <1>12, <1>13, <1>14, <1>15, <1>16

\* What the steps of RunServerStart do to proc.
LEMMA MainMoves ==
  ASSUME TypeInv
  PROVE  /\ Moves(proc)
         /\ \A m \in Phases \ {"statements"} :
              /\ Moves([proc EXCEPT !.main = m])
              /\ Moves([proc EXCEPT !.main = m, !.configs = TRUE])
              /\ Moves([proc EXCEPT !.main = m, !.web = TRUE])
              /\ Moves([proc EXCEPT !.main = m, !.loader = TRUE])
              /\ Moves([proc EXCEPT !.main = m, !.admin = "starting", !.watcher = "idle"])
              /\ Moves([proc EXCEPT !.main = m, !.signal = "notified", !.http = "starting",
                                    !.provider = "idle"])
<1>1. Moves(proc)
  BY DEF TypeInv, TypeOK, Moves
<1>2. ASSUME NEW m \in Phases \ {"statements"}
      PROVE  /\ Moves([proc EXCEPT !.main = m])
             /\ Moves([proc EXCEPT !.main = m, !.configs = TRUE])
             /\ Moves([proc EXCEPT !.main = m, !.web = TRUE])
             /\ Moves([proc EXCEPT !.main = m, !.loader = TRUE])
             /\ Moves([proc EXCEPT !.main = m, !.admin = "starting", !.watcher = "idle"])
             /\ Moves([proc EXCEPT !.main = m, !.signal = "notified", !.http = "starting",
                                   !.provider = "idle"])
  <2> DEFINE p == [proc EXCEPT !.main = m]
  <2>1. Moves(p)
    BY <1>1, FieldMoves
  <2> HIDE DEF p
  <2>2. /\ Moves([p EXCEPT !.configs = TRUE]) /\ Moves([p EXCEPT !.web = TRUE])
        /\ Moves([p EXCEPT !.loader = TRUE])
    BY <2>1, FieldMoves
  <2>3. Moves([[p EXCEPT !.admin = "starting"] EXCEPT !.watcher = "idle"])
    BY <2>1, FieldMoves
  <2>4. Moves([[[p EXCEPT !.signal = "notified"] EXCEPT !.http = "starting"]
                  EXCEPT !.provider = "idle"])
    BY <2>1, FieldMoves
  <2> QED
    BY <2>1, <2>2, <2>3, <2>4 DEF p
<1> QED
  BY <1>1, <1>2

\* What the steps of the schema session do to proc.
LEMMA SessionMoves ==
  ASSUME TypeInv, NEW s \in Remaining[file]
  PROVE  /\ s # <<>> => Moves([proc EXCEPT !.todo = s, !.main = "statements"])
         /\ Moves([proc EXCEPT !.todo = s, !.main = "session"])
<1> DEFINE p == [proc EXCEPT !.todo = s]
<1>1. p \in Processes /\ p.todo = s
  BY DEF TypeInv, TypeOK, Processes
<1> HIDE DEF p
<1>2. /\ [p EXCEPT !.main = "statements"] \in Processes
      /\ [p EXCEPT !.main = "statements"].todo = s
  BY <1>1 DEF Processes, Phases
<1>3. [p EXCEPT !.main = "session"] \in Processes
      /\ [p EXCEPT !.main = "session"].main = "session"
  BY <1>1 DEF Processes, Phases
<1> QED
  BY <1>2, <1>3 DEF Moves, p

LEMMA EarlyType ==
  ASSUME TypeInv, Connect \/ ReadSchema \/ OpenSession
  PROVE  TypeInv'
<1> USE FailuresType, EndsType, MainMoves
<1>1. CASE Connect
  BY <1>1, GoesType DEF Connect, Phases, Moves
<1>2. CASE ReadSchema
  <2> DEFINE stmts == Statements(file)
             next == [proc EXCEPT !.todo = stmts, !.main = IF stmts = <<>> THEN "session"
                                                                          ELSE "statements"]
  <2>1. CASE Dies
    BY <1>2, <2>1 DEF ReadSchema
  <2>2. CASE Goes(next)
    <3>1. stmts \in Remaining[file]
      BY RemainingSteps DEF TypeInv, TypeOK
    <3>2. Moves(next)
      <4> HIDE DEF stmts
      <4> QED
        BY <3>1, SessionMoves
    <3> HIDE DEF next, stmts
    <3> QED
      BY <1>2, <2>2, <3>2, GoesType DEF ReadSchema, Moves
  <2> QED
    BY <1>2, <2>1, <2>2 DEF ReadSchema
<1>3. CASE OpenSession
  BY <1>3, GoesType DEF OpenSession, Phases, Moves
<1> QED
  BY <1>1, <1>2, <1>3

LEMMA StartType ==
  ASSUME TypeInv,
         Start \/ Find \/ Provide \/ Watch \/ StartupEvent \/ RegisterAPIs \/ Wait
  PROVE  TypeInv'
<1> USE FailuresType, EndsType, MainMoves, GoesType DEF Phases, Moves
<1>1. CASE Start
  BY <1>1 DEF Start
<1>2. CASE Find
  BY <1>2 DEF Find, Answers, Refuses
<1>3. CASE Provide
  BY <1>3 DEF Provide
<1>4. CASE Watch
  BY <1>4 DEF Watch
<1>5. CASE StartupEvent
  BY <1>5 DEF StartupEvent, Answers, Refuses, LoaderAfterStartup
<1>6. CASE RegisterAPIs
  BY <1>6 DEF RegisterAPIs
<1>7. CASE Wait
  BY <1>7 DEF Wait
<1> QED
  BY <1>1, <1>2, <1>3, <1>4, <1>5, <1>6, <1>7

\* A statement creates what the file names, in a keyspace that is there.
LEMMA StatementType == ASSUME TypeInv, Statement PROVE TypeInv'
<1> DEFINE stmt == Head(proc.todo)
           next == [proc EXCEPT !.todo = Tail(@), !.session = SessionAfter(stmt),
                                !.main = IF Tail(proc.todo) = <<>> THEN "session" ELSE @]
<1>1. /\ proc.main = "statements" /\ proc.todo # <<>> /\ proc.todo \in Remaining[file]
      /\ file \in AllFiles /\ proc.session \in keyspaces
  BY DEF Statement, TypeInv, TypeOK, Processes
<1>2. Tail(proc.todo) \in Remaining[file] /\ stmt \in Seq(Tokens(file))
  BY <1>1, RemainingSteps
<1>3. /\ failures' \in 0 .. MaxFailures /\ (Goes(next) \/ Dies)
      /\ \/ Accepted(stmt) /\ Execute(stmt)
         \/ UNCHANGED storeVars /\ (Accepted(stmt) \/ Dies)
  BY FailuresType DEF Statement, StatementFails
<1> HIDE DEF stmt
<1>4. IsFile(file)
  BY <1>1, AllFilesAreFiles
<1>5. ASSUME Accepted(stmt), ~IsUse(stmt)
      PROVE  TablesAfter(stmt, proc.session, tables)
               \subseteq (KeyspacesAfter(stmt, keyspaces) \X Named[file])
  <2>1. tables \subseteq (keyspaces \X Named[file])
    BY DEF TypeInv, TypeOK
  <2>2. ASSUME NEW c \in Creates(stmt, "table")
        PROVE  Qualified(c, proc.session) \in keyspaces /\ c.table \in Named[file]
    <3>1. PICK k \in Clauses(stmt) : c = stmt[k] /\ stmt[k].op = "table"
      BY DEF Creates
    <3>2. Qualified(c, proc.session) \in keyspaces
      BY <1>5, <3>1 DEF Accepted, Executable
    <3>3. c \in Tokens(file) /\ c.kind = "clause" /\ c.op = "table"
      BY <1>2, <3>1, ElementOfSeq DEF Clauses
    <3>4. PICK i \in DOMAIN file : c = file[i]
      BY <3>3 DEF Tokens
    <3>5. i \in ClausesOf(file, "table")
      BY <3>3, <3>4 DEF ClausesOf, Clauses
    <3> QED
      BY <1>1, <3>2, <3>4, <3>5 DEF Named
  <2> QED
    BY <2>1, <2>2 DEF TablesAfter, KeyspacesAfter
<1>6. /\ keyspaces \subseteq keyspaces'
      /\ (tables \subseteq (keyspaces \X Named[file]))'
  <2>1. file' = file
    BY <1>3 DEF Goes, Dies
  <2>2. CASE UNCHANGED storeVars
    BY <2>1, <2>2 DEF storeVars, TypeInv, TypeOK
  <2>3. CASE Accepted(stmt) /\ Execute(stmt) /\ ~UNCHANGED storeVars
    <3>1. ~IsUse(stmt) /\ keyspaces' = KeyspacesAfter(stmt, keyspaces)
          /\ tables' = TablesAfter(stmt, proc.session, tables)
      BY <2>3 DEF Execute
    <3>2. TablesAfter(stmt, proc.session, tables)
            \subseteq (KeyspacesAfter(stmt, keyspaces) \X Named[file])
      BY <1>5, <2>3, <3>1
    <3> QED
      BY <2>1, <3>1, <3>2 DEF KeyspacesAfter
  <2> QED
    BY <1>3, <2>2, <2>3
<1>7. CASE Dies
  BY <1>3, <1>6, <1>7, DiesType
<1>8. CASE Goes(next) /\ Accepted(stmt)
  <2>1. SessionAfter(stmt) \in keyspaces
    BY <1>1, <1>8 DEF SessionAfter, Accepted
  <2>2. /\ next.main = (IF Tail(proc.todo) = <<>> THEN "session" ELSE "statements")
        /\ next.todo = Tail(proc.todo)
        /\ next \in Processes
    BY <1>1, <1>2, <2>1 DEF TypeInv, TypeOK, Processes, Phases
  <2> HIDE DEF next
  <2>3. next \in Processes'
    BY <1>6, <1>8, <2>2 DEF Goes, Processes
  <2> QED
    BY <1>3, <1>6, <1>8, <2>2, <2>3 DEF Goes, TypeInv, TypeOK
<1> QED
  BY <1>3, <1>7, <1>8

\* What signals, Close and the server do to proc.
LEMMA CloseMoves ==
  ASSUME TypeInv
  PROVE  /\ Moves([proc EXCEPT !.cancelled = TRUE, !.signal = "closed"])
         /\ Moves([proc EXCEPT !.signal = "selects"])
         /\ Moves([proc EXCEPT !.server = "closed", !.closer = 1])
         /\ proc.closer \in DOMAIN Deferred =>
              Moves([proc EXCEPT !.closed = @ \union {Deferred[proc.closer]}, !.closer = @ + 1])
         /\ Moves([proc EXCEPT !.server = "made", !.http = "made"])
         /\ Moves([proc EXCEPT !.http = "serving"])
<1>1. ASSUME proc.closer \in DOMAIN Deferred
      PROVE  /\ Deferred[proc.closer] \in Channels
             /\ proc.closer + 1 \in 0 .. Len(Deferred) + 1
  BY <1>1, DeferredCalls DEF Deferred, Channels, ToSet
<1>2. 1 \in 0 .. Len(Deferred) + 1
  BY DEF Deferred
<1>3. Moves(proc) /\ proc.closed \subseteq Channels
  BY DEF TypeInv, TypeOK, Processes, Moves
<1>4. /\ Moves([[proc EXCEPT !.cancelled = TRUE] EXCEPT !.signal = "closed"])
      /\ Moves([proc EXCEPT !.signal = "selects"])
      /\ Moves([[proc EXCEPT !.server = "closed"] EXCEPT !.closer = 1])
      /\ Moves([[proc EXCEPT !.server = "made"] EXCEPT !.http = "made"])
      /\ Moves([proc EXCEPT !.http = "serving"])
  BY <1>2, <1>3, FieldMoves
<1>5. ASSUME proc.closer \in DOMAIN Deferred
      PROVE  Moves([proc EXCEPT !.closed = @ \union {Deferred[proc.closer]}, !.closer = @ + 1])
  <2> DEFINE c == proc.closed \union {Deferred[proc.closer]}
             n == proc.closer + 1
  <2>1. c \in SUBSET Channels /\ n \in 0 .. Len(Deferred) + 1
    BY <1>1, <1>3, <1>5
  <2> HIDE DEF c, n
  <2>2. Moves([[proc EXCEPT !.closed = c] EXCEPT !.closer = n])
    BY <1>3, <2>1, FieldMoves
  <2>3. Moves([proc EXCEPT !.closed = c, !.closer = n])
    BY <2>2
  <2> QED
    BY <2>3 DEF c, n
<1> QED
  BY <1>4, <1>5

LEMMA CloseType ==
  ASSUME TypeInv, Signal \/ AwaitSignal \/ Close \/ StartHTTPServers
  PROVE  TypeInv'
<1>1. CASE Signal
  <2>1. Fresh \in Processes /\ Fresh.main = "connect"
    BY FreshType DEF TypeInv, TypeOK
  <2>2. signals' \in 0 .. MaxSignals /\ UNCHANGED <<kind, file, storeVars, failures>>
    BY <1>1, BoundsAssumption DEF Signal, TypeInv, TypeOK
  <2>3. proc.signal \in {"off", "closed", "notified", "selects"} /\ up \in BOOLEAN
    BY DEF TypeInv, TypeOK, Processes
  <2>4. Moves(proc') /\ up' \in BOOLEAN
    BY <1>1, <2>1, <2>3, MainMoves, CloseMoves DEF Signal, Moves
  <2>5. Processes' = Processes
    BY <2>2 DEF Processes, storeVars
  <2> QED
    BY <2>2, <2>4, <2>5 DEF Moves, TypeInv, TypeOK, storeVars
<1> USE FailuresType, EndsType, GoesType, CloseMoves DEF Moves
<1>2. CASE AwaitSignal
  BY <1>2 DEF AwaitSignal
<1>3. CASE CloseServer
  BY <1>3 DEF CloseServer
<1>4. CASE CloseChannel
  BY <1>4 DEF CloseChannel
<1>5. CASE MakeServer
  BY <1>5 DEF MakeServer
<1>6. CASE Listen
  BY <1>6 DEF Listen
<1>7. CASE ServeEnds
  BY <1>7 DEF ServeEnds
<1> QED
  BY <1>1, <1>2, <1>3, <1>4, <1>5, <1>6, <1>7 DEF Close, StartHTTPServers

\* What requests, the loops, the listener and the watcher do to proc.
LEMMA LoopMoves ==
  ASSUME TypeInv
  PROVE  /\ \A h \in Handlers :
              /\ \A x \in {"idle", "sending"} : Moves([proc EXCEPT !.sender[h] = x])
              /\ Moves([proc EXCEPT !.admin = "reloading", !.sender[h] = "idle"])
         /\ \A x \in {"off", "idle"} : Moves([proc EXCEPT !.admin = "idle", !.listener = x])
         /\ \A x \in {"idle", "storing", "ended"} : Moves([proc EXCEPT !.admin = x])
         /\ Moves([proc EXCEPT !.admin = "idle", !.listener = "storing"])
         /\ Moves([proc EXCEPT !.admin = "ended", !.closed = @ \union {"listener"}])
         /\ \A x \in {"idle", "ended"} : Moves([proc EXCEPT !.listener = x])
         /\ \A x \in {"sending", "ended"} : Moves([proc EXCEPT !.watcher = x])
         /\ proc.changes < ChanMax =>
              Moves([proc EXCEPT !.watcher = "idle", !.changes = @ + 1])
         /\ proc.changes > 0 => \A x \in {"idle", "reloading"} :
              Moves([proc EXCEPT !.changes = @ - 1, !.provider = x])
         /\ \A x \in {"idle", "ended"} : Moves([proc EXCEPT !.provider = x])
<1>1. "listener" \in Channels
  BY DEF Channels
<1>2. Moves(proc) /\ proc.closed \subseteq Channels /\ proc.changes \in 0 .. ChanMax
  BY DEF TypeInv, TypeOK, Processes, Moves
<1>3. /\ proc.changes < ChanMax => proc.changes + 1 \in 0 .. ChanMax
      /\ proc.changes > 0 => proc.changes - 1 \in 0 .. ChanMax
  BY <1>2, BoundsAssumption
<1>4. ASSUME NEW h \in Handlers
      PROVE  /\ \A x \in {"idle", "sending"} : Moves([proc EXCEPT !.sender[h] = x])
             /\ Moves([[proc EXCEPT !.admin = "reloading"] EXCEPT !.sender[h] = "idle"])
  BY <1>2, FieldMoves
<1>5. /\ \A x \in {"off", "idle"} : Moves([[proc EXCEPT !.admin = "idle"] EXCEPT !.listener = x])
      /\ \A x \in {"idle", "storing", "ended"} : Moves([proc EXCEPT !.admin = x])
      /\ Moves([[proc EXCEPT !.admin = "idle"] EXCEPT !.listener = "storing"])
      /\ \A x \in {"idle", "ended"} : Moves([proc EXCEPT !.listener = x])
      /\ \A x \in {"sending", "ended"} : Moves([proc EXCEPT !.watcher = x])
      /\ \A x \in {"idle", "ended"} : Moves([proc EXCEPT !.provider = x])
  BY <1>2, FieldMoves
<1>6. Moves([proc EXCEPT !.admin = "ended", !.closed = @ \union {"listener"}])
  <2> DEFINE c == proc.closed \union {"listener"}
  <2>1. c \in SUBSET Channels
    BY <1>1, <1>2
  <2> HIDE DEF c
  <2>2. Moves([[proc EXCEPT !.admin = "ended"] EXCEPT !.closed = c])
    BY <1>2, <2>1, FieldMoves
  <2>3. Moves([proc EXCEPT !.admin = "ended", !.closed = c])
    BY <2>2
  <2> QED
    BY <2>3 DEF c
<1>7. ASSUME proc.changes < ChanMax
      PROVE  Moves([proc EXCEPT !.watcher = "idle", !.changes = @ + 1])
  <2> DEFINE n == proc.changes + 1
  <2>1. n \in 0 .. ChanMax
    BY <1>3, <1>7
  <2> HIDE DEF n
  <2>2. Moves([[proc EXCEPT !.watcher = "idle"] EXCEPT !.changes = n])
    BY <1>2, <2>1, FieldMoves
  <2>3. Moves([proc EXCEPT !.watcher = "idle", !.changes = n])
    BY <2>2
  <2> QED
    BY <2>3 DEF n
<1>8. ASSUME proc.changes > 0, NEW x \in {"idle", "reloading"}
      PROVE  Moves([proc EXCEPT !.changes = @ - 1, !.provider = x])
  <2> DEFINE n == proc.changes - 1
  <2>1. n \in 0 .. ChanMax
    BY <1>3, <1>8
  <2> HIDE DEF n
  <2>2. Moves([[proc EXCEPT !.changes = n] EXCEPT !.provider = x])
    BY <1>2, <2>1, FieldMoves
  <2>3. Moves([proc EXCEPT !.changes = n, !.provider = x])
    BY <2>2
  <2> QED
    BY <2>3 DEF n
<1> QED
  BY <1>4, <1>5, <1>6, <1>7, <1>8

LEMMA LoopType ==
  ASSUME TypeInv,
         \/ \E h \in Handlers : Send(h) \/ Recovers(h) \/ Receive(h)
         \/ AdminLoop \/ Listener \/ Tick \/ Watcher \/ ProviderLoop
  PROVE  TypeInv'
<1> USE FailuresType, EndsType, GoesType, LoopMoves DEF Moves
<1>1. ASSUME NEW h \in Handlers, Send(h) \/ Recovers(h) \/ Receive(h) PROVE TypeInv'
  BY <1>1 DEF Send, Recovers, Receive
<1>2. CASE BeginLoop
  BY <1>2 DEF BeginLoop
<1>3. CASE AdminReload
  BY <1>3 DEF AdminReload, HandleEvent
<1>4. CASE HandOver
  BY <1>4 DEF HandOver
<1>5. CASE EndLoop
  BY <1>5 DEF EndLoop
<1>6. CASE Listener
  BY <1>6 DEF Listener, Store, EndListener
<1>7. CASE Tick \/ Watcher
  BY <1>7 DEF Tick, Watcher, SendChange, EndWatcher, Room
<1>8. CASE Compare
  BY <1>8 DEF Compare
<1>9. CASE ProviderReload
  BY <1>9 DEF ProviderReload, HandleEvent
<1>10. CASE EndProvider
  BY <1>10 DEF EndProvider
<1> QED
  BY <1>1, <1>2, <1>3, <1>4, <1>5, <1>6, <1>7, <1>8, <1>9, <1>10 DEF AdminLoop, ProviderLoop

LEMMA NextType == TypeInv /\ [Next]_vars => TypeInv'
<1> SUFFICES ASSUME TypeInv, [Next]_vars PROVE TypeInv'
  OBVIOUS
<1>1. CASE Restart
  BY <1>1, BoundsAssumption DEF Restart, TypeInv, TypeOK, Processes, storeVars
<1>2. CASE UNCHANGED vars
  BY <1>2 DEF vars, storeVars, TypeInv, TypeOK, Processes
<1> QED
  BY <1>1, <1>2, EarlyType, StatementType, StartType, CloseType, LoopType DEF Next, Main

\* Whatever dies, fails or is signalled, each goroutine is where it can be: the queue of
\* snapshots keeps its length, the session its keyspace, and each table the keyspace that
\* was created before it.
THEOREM TypeCorrect == Spec => []TypeOK
<1>1. TypeInv => TypeOK
  BY DEF TypeInv
<1> QED
  BY <1>1, InitType, NextType, PTL DEF Spec

----------------------------------------------------------------------------
(* The schema session.                                                     *)

Fields == {"main", "session", "todo", "signal", "cancelled", "closer", "http", "server",
           "web", "configs", "loader", "closed", "changes", "admin", "listener", "watcher",
           "provider", "sender"}

Unread == {"connect", "schema", "statements"}

\* The session has carried out the statements that end up to token i.
CarriedOut(i) ==
    LET stmts == Statements(file)
    IN  /\ Reading(file)[i].stmt = <<>>
        /\ proc.todo = SubSeq(stmts, Len(Reading(file)[i].list) + 1, Len(stmts))
        /\ file \in Readable =>
             proc.session = Current(file, i + 1) /\ AskedBy(file, i) \subseteq tables

SchemaInv ==
    /\ proc.main \in {"connect", "schema"} => proc.session = System
    /\ proc.main = "statements" => \E i \in 0 .. Len(file) : CarriedOut(i)
    /\ kind = "cassandra" /\ file \in Readable /\ proc.main \notin Unread =>
         Asked(file) \subseteq tables

LEMMA FreshSchema == ASSUME proc' = Fresh PROVE SchemaInv'
BY DEF SchemaInv, Fresh, Unread

LEMMA InitSchema == Init => SchemaInv
BY DEF Init, SchemaInv, Fresh, Unread

\* A step that has nothing to do with the schema.
LEMMA SchemaKept ==
  ASSUME SchemaInv, UNCHANGED <<kind, file, storeVars>>,
         proc'.session = proc.session, proc'.todo = proc.todo,
         \/ proc'.main = proc.main
         \/ proc.main \notin Unread /\ proc'.main \notin Unread
  PROVE  SchemaInv'
<1>1. proc'.main = "statements" => proc.main = "statements"
  BY DEF Unread
<1>2. \A i \in 0 .. Len(file) : CarriedOut(i) => CarriedOut(i)'
  BY DEF CarriedOut, storeVars
<1> QED
  BY <1>1, <1>2 DEF SchemaInv, storeVars, Unread

\* A session that has carried out all statements has come to where no statement ends.
LEMMA NoneLeft ==
  ASSUME NEW f, IsFile(f), NEW i \in 0 .. Len(f), Reading(f)[i].stmt = <<>>
  PROVE  Len(Reading(f)[i].list) = Len(Statements(f)) <=> NoEnd(f, i, Len(f))
<1>1. ASSUME NoEnd(f, i, Len(f))
      PROVE  Len(Reading(f)[i].list) = Len(Statements(f))
  <2>1. Len(f) \in i .. Len(f)
    BY ReadingSteps
  <2> QED
    BY <1>1, <2>1, StatementTokens DEF Statements
<1>2. ASSUME ~NoEnd(f, i, Len(f))
      PROVE  Len(Reading(f)[i].list) # Len(Statements(f))
  <2>1. PICK j \in i + 1 .. Len(f) : f[j] = End /\ NoEnd(f, i, j - 1)
    BY <1>2, FirstEnd
  <2> DEFINE m == Len(Reading(f)[i].list)
  <2>2. m \in Nat /\ m + 1 <= Len(Statements(f))
    BY <2>1, StatementEnds
  <2>3. Len(Statements(f)) \in Nat
    BY StatementsType
  <2> QED
    BY <2>2, <2>3
<1> QED
  BY <1>1, <1>2

LEMMA ReadSchemaStep == ASSUME TypeInv, SchemaInv, ReadSchema PROVE SchemaInv'
<1> DEFINE stmts == Statements(file)
<1>1. CASE Dies
  BY <1>1, FreshSchema DEF Dies
<1>2. CASE ~Dies
  <2>1. /\ IsFile(file) /\ file' = file /\ UNCHANGED <<kind, tables, keyspaces>>
        /\ proc.main = "schema" /\ proc.session = System
        /\ proc' = [proc EXCEPT !.todo = stmts, !.main = IF stmts = <<>> THEN "session"
                                                                           ELSE "statements"]
    BY <1>2, AllFilesAreFiles DEF ReadSchema, Goes, storeVars, SchemaInv, TypeInv, TypeOK
  <2>2. /\ proc'.todo = stmts /\ proc'.session = System
        /\ proc'.main = IF stmts = <<>> THEN "session" ELSE "statements"
    BY <2>1 DEF TypeInv, TypeOK, Processes
  <2>3. /\ 0 \in 0 .. Len(file) /\ Reading(file)[0].stmt = <<>>
        /\ Len(Reading(file)[0].list) = 0
    BY <2>1, ReadingSteps DEF NothingRead
  <2>4. stmts = SubSeq(stmts, 0 + 1, Len(stmts)) /\ Len(stmts) \in Nat
    BY <2>1, StatementsType, SubSeqFull
  <2>5. CASE stmts = <<>>
    <3>1. NoEnd(file, 0, Len(file))
      BY <2>1, <2>3, <2>5, NoneLeft
    <3>2. Asked(file) = {}
      BY <2>1, <2>3, <3>1, AllAsked, AskedAtStart
    <3> QED
      BY <2>1, <2>2, <2>5, <3>2 DEF SchemaInv
  <2>6. CASE stmts # <<>>
    <3>1. Current(file, 0 + 1) = System /\ AskedBy(file, 0) = {}
      BY <2>1, AskedAtStart
    <3>2. CarriedOut(0)'
      BY <2>1, <2>2, <2>3, <2>4, <3>1 DEF CarriedOut
    <3> HIDE DEF stmts
    <3> QED
      BY <2>1, <2>2, <2>3, <2>6, <3>2 DEF SchemaInv, Unread
  <2> QED
    BY <2>5, <2>6
<1> QED
  BY <1>1, <1>2

\* The session goes on to the end of the next statement.
LEMMA StatementStep == ASSUME TypeInv, SchemaInv, Statement PROVE SchemaInv'
<1> DEFINE stmt == Head(proc.todo)
           stmts == Statements(file)
           next == [proc EXCEPT !.todo = Tail(@), !.session = SessionAfter(stmt),
                                !.main = IF Tail(proc.todo) = <<>> THEN "session" ELSE @]
<1>1. CASE Dies
  BY <1>1, FreshSchema DEF Dies
<1>2. CASE ~Dies
  <2>1. /\ IsFile(file) /\ UNCHANGED <<kind, file>>
        /\ proc.main = "statements" /\ proc.todo # <<>>
        /\ Execute(stmt) /\ proc' = next
    BY <1>2, AllFilesAreFiles DEF Statement, StatementFails, Goes, TypeInv, TypeOK
  <2>2. /\ proc'.todo = Tail(proc.todo) /\ proc'.session = SessionAfter(stmt)
        /\ proc'.main = IF Tail(proc.todo) = <<>> THEN "session" ELSE "statements"
    BY <2>1 DEF TypeInv, TypeOK, Processes
  <2>3. PICK i \in 0 .. Len(file) : CarriedOut(i)
    BY <2>1 DEF SchemaInv
  <2> DEFINE m == Len(Reading(file)[i].list)
  <2>4. stmts \in Seq(Seq(Tokens(file))) /\ Len(stmts) \in Nat
    BY <2>1, StatementsType
  <2>5. /\ Reading(file)[i].stmt = <<>> /\ proc.todo = SubSeq(stmts, m + 1, Len(stmts))
        /\ file \in Readable =>
             proc.session = Current(file, i + 1) /\ AskedBy(file, i) \subseteq tables
    BY <2>3 DEF CarriedOut
  <2>6. ~NoEnd(file, i, Len(file))
    <3>1. SUFFICES ASSUME m = Len(stmts) PROVE FALSE
      BY <2>1, <2>5, NoneLeft
    <3> QED
      BY <2>1, <2>4, <2>5, <3>1, SubSeqEmpty
  <2>7. PICK j \in i + 1 .. Len(file) : file[j] = End /\ NoEnd(file, i, j - 1)
    BY <2>1, <2>6, FirstEnd
  <2>8. /\ Reading(file)[j].stmt = <<>> /\ Len(Reading(file)[j].list) = m + 1
        /\ m \in Nat /\ m + 1 <= Len(stmts)
        /\ stmts[m + 1] \in Seq(Tokens(file))
        /\ Elements(stmts[m + 1]) = Kept(file, i, j - 1)
    BY <2>1, <2>5, <2>7, StatementEnds
  <2> HIDE DEF m
  <2>9. stmt = stmts[m + 1] /\ Tail(proc.todo) = SubSeq(stmts, m + 2, Len(stmts))
    <3>1. m + 1 \in 1 .. Len(stmts) /\ Len(stmts) \in m + 1 .. Len(stmts)
          /\ (m + 1) + 1 = m + 2
      BY <2>4, <2>8
    <3> HIDE DEF stmts
    <3>2. /\ Head(SubSeq(stmts, m + 1, Len(stmts))) = stmts[m + 1]
          /\ Tail(SubSeq(stmts, m + 1, Len(stmts))) = SubSeq(stmts, (m + 1) + 1, Len(stmts))
      BY <2>4, <3>1, HeadTailOfSubSeq
    <3> QED
      BY <2>5, <3>1, <3>2, Zenon
  <2> HIDE DEF stmt, stmts, next
  <2>10. j \in 0 .. Len(file) /\ (m + 1) + 1 = m + 2
    BY <2>1, <2>8, ReadingSteps
  <2>11. ASSUME file \in Readable
         PROVE  SessionAfter(stmt) = Current(file, j + 1) /\ AskedBy(file, j) \subseteq tables'
    <3>1. UsesStandAlone(file)
      BY <2>11 DEF Readable
    <3>2. stmt \in Seq(Tokens(file)) /\ Elements(stmt) = Kept(file, i, j - 1)
      BY <2>8, <2>9
    <3>3. CASE IsUse(stmt)
      BY <2>1, <2>5, <2>7, <2>11, <3>1, <3>2, <3>3, UseStatement
         DEF SessionAfter, Execute, storeVars
    <3>4. CASE ~IsUse(stmt)
      BY <2>1, <2>5, <2>7, <2>11, <3>1, <3>2, <3>4, OtherStatement DEF SessionAfter, Execute
    <3> QED
      BY <3>3, <3>4
  <2>12. CASE Tail(proc.todo) = <<>>
    <3>1. Len(stmts) = m + 1
      <4>1. SUFFICES ASSUME Len(stmts) # m + 1 PROVE FALSE
        OBVIOUS
      <4>2. m + 2 \in 1 .. Len(stmts) /\ Len(stmts) \in m + 2 .. Len(stmts)
        BY <2>4, <2>8, <4>1
      <4>3. Len(SubSeq(stmts, m + 2, Len(stmts))) = Len(stmts) - (m + 2) + 1
        BY <2>4, <4>2, SubSeqProperties
      <4>4. Len(SubSeq(stmts, m + 2, Len(stmts))) = Len(<<>>)
        BY <2>9, <2>12, Zenon
      <4> QED
        BY <2>4, <2>8, <4>2, <4>3, <4>4, EmptySeq
    <3>2. NoEnd(file, j, Len(file))
      BY <2>1, <2>8, <2>10, <3>1, NoneLeft DEF stmts
    <3>3. Asked(file) \subseteq AskedBy(file, j)
      BY <2>1, <2>10, <3>2, AllAsked
    <3> QED
      BY <2>1, <2>2, <2>11, <2>12, <3>3 DEF SchemaInv
  <2>13. CASE Tail(proc.todo) # <<>>
    <3>1. CarriedOut(j)'
      BY <2>1, <2>2, <2>8, <2>9, <2>10, <2>11 DEF CarriedOut, stmts
    <3> QED
      BY <2>1, <2>2, <2>10, <2>13, <3>1 DEF SchemaInv, Unread
  <2> QED
    BY <2>12, <2>13
<1> QED
  BY <1>1, <1>2

LEMMA HasFields == ASSUME TypeInv PROVE DOMAIN proc = Fields
BY DEF TypeInv, TypeOK, Processes, Fields

LEMMA ConnectStep == ASSUME TypeInv, SchemaInv, Connect PROVE SchemaInv'
<1>1. /\ UNCHANGED <<kind, file, storeVars>> /\ proc.main = "connect"
      /\ \/ kind = "cassandra" /\ proc' = [proc EXCEPT !.main = "schema"]
         \/ kind # "cassandra" /\ proc' = [proc EXCEPT !.main = "start"]
         \/ proc' = proc
         \/ proc' = Fresh
  BY DEF Connect, Goes, Dies
<1>2. CASE proc' = Fresh
  BY <1>2, FreshSchema
<1>3. CASE proc' = proc
  BY <1>1, <1>3, SchemaKept
<1>4. CASE /\ proc'.main \in {"schema", "start"} /\ proc'.session = proc.session
           /\ kind = "cassandra" => proc'.main = "schema"
  BY <1>1, <1>4 DEF SchemaInv, Unread
<1> QED
  BY <1>1, <1>2, <1>3, <1>4, HasFields DEF Fields

\* What every other step of a process does to proc.
Aside ==
    \/ proc' = Fresh
    \/ /\ UNCHANGED <<kind, file, storeVars>>
       /\ proc'.session = proc.session /\ proc'.todo = proc.todo
       /\ proc'.main = proc.main \/ (proc.main \notin Unread /\ proc'.main \notin Unread)

LEMMA MainAside ==
  ASSUME DOMAIN proc = Fields,
         \/ OpenSession \/ Start \/ Find \/ Provide \/ Watch
         \/ StartupEvent \/ RegisterAPIs \/ Wait
  PROVE  Aside
<1> USE DEF Aside, Unread, Goes, Dies, Fields, storeVars
<1>1. CASE OpenSession
  BY <1>1 DEF OpenSession
<1>2. CASE Start
  BY <1>2 DEF Start
<1>3. CASE Find
  BY <1>3 DEF Find
<1>4. CASE Provide \/ Watch
  BY <1>4 DEF Provide, Watch
<1>5. CASE StartupEvent
  BY <1>5 DEF StartupEvent
<1>6. CASE RegisterAPIs \/ Wait
  BY <1>6 DEF RegisterAPIs, Wait
<1> QED
  BY <1>1, <1>2, <1>3, <1>4, <1>5, <1>6

LEMMA OthersAside ==
  ASSUME DOMAIN proc = Fields, proc.signal \in {"off", "notified", "selects", "closed"},
         \/ Signal \/ AwaitSignal \/ Close \/ StartHTTPServers
         \/ \E h \in Handlers : Send(h) \/ Recovers(h) \/ Receive(h)
         \/ AdminLoop \/ Listener \/ Tick \/ Watcher \/ ProviderLoop \/ Restart
  PROVE  Aside
<1> USE DEF Aside, Goes, Dies, Fields, storeVars
<1>1. CASE Signal
  <2>1. CASE proc.signal \in {"off", "closed"}
    BY <1>1, <2>1 DEF Signal
  <2>2. CASE proc.signal = "notified"
    BY <1>1, <2>2 DEF Signal
  <2>3. CASE proc.signal = "selects"
    <3>1. proc' = [proc EXCEPT !.cancelled = TRUE, !.signal = "closed"]
          /\ UNCHANGED <<kind, file, storeVars>>
      BY <1>1, <2>3 DEF Signal
    <3> QED
      BY <3>1
  <2> QED
    BY <2>1, <2>2, <2>3
<1>2. CASE AwaitSignal \/ Close
  <2>1. CASE AwaitSignal
    BY <2>1 DEF AwaitSignal
  <2>2. CASE CloseServer
    BY <2>2 DEF CloseServer
  <2>3. CASE CloseChannel
    BY <2>3 DEF CloseChannel
  <2> QED
    BY <1>2, <2>1, <2>2, <2>3 DEF Close
<1>3. CASE StartHTTPServers
  BY <1>3 DEF StartHTTPServers, MakeServer, Listen, ServeEnds
<1>4. ASSUME NEW h \in Handlers, Send(h) \/ Recovers(h) \/ Receive(h) PROVE Aside
  BY <1>4 DEF Send, Recovers, Receive
<1>5. CASE AdminLoop
  <2>1. CASE BeginLoop
    BY <2>1 DEF BeginLoop
  <2>2. CASE AdminReload
    BY <2>2 DEF AdminReload, HandleEvent
  <2>3. CASE HandOver
    BY <2>3 DEF HandOver
  <2>4. CASE EndLoop
    BY <2>4 DEF EndLoop
  <2> QED
    BY <1>5, <2>1, <2>2, <2>3, <2>4 DEF AdminLoop
<1>6. CASE Listener \/ Tick
  BY <1>6 DEF Listener, Store, EndListener, Tick
<1>7. CASE Watcher
  BY <1>7 DEF Watcher, SendChange, EndWatcher
<1>8. CASE ProviderLoop
  <2>1. CASE Compare
    BY <2>1 DEF Compare
  <2>2. CASE ProviderReload
    BY <2>2 DEF ProviderReload, HandleEvent
  <2>3. CASE EndProvider
    BY <2>3 DEF EndProvider
  <2> QED
    BY <1>8, <2>1, <2>2, <2>3 DEF ProviderLoop
<1>9. CASE Restart
  BY <1>9 DEF Restart
<1> QED
  BY <1>1, <1>2, <1>3, <1>4, <1>5, <1>6, <1>7, <1>8, <1>9

LEMMA NextSchema == TypeInv /\ SchemaInv /\ [Next]_vars => SchemaInv'
<1> SUFFICES ASSUME TypeInv, SchemaInv, [Next]_vars PROVE SchemaInv'
  OBVIOUS
<1>1. ASSUME Aside PROVE SchemaInv'
  BY <1>1, FreshSchema, SchemaKept DEF Aside
<1>2. CASE UNCHANGED vars
  BY <1>1, <1>2 DEF vars, Aside, storeVars
<1>3. proc.signal \in {"off", "notified", "selects", "closed"}
  BY DEF TypeInv, TypeOK, Processes
<1> QED
  BY <1>1, <1>2, <1>3, HasFields, ConnectStep, ReadSchemaStep, StatementStep, MainAside,
     OthersAside
     DEF Next, Main

\* The tables of the schema file are there when Initialize returns, for every file whose
\* USEs stand alone and wherever the processes before were stopped.
THEOREM SchemaCorrect == Spec => []SchemaApplied
<1>1. TypeInv /\ SchemaInv => SchemaApplied
  BY DEF TypeInv, TypeOK, SchemaInv, SchemaApplied, Tables, Unread
<1> QED
  BY <1>1, InitType, NextType, InitSchema, NextSchema, PTL DEF Spec

----------------------------------------------------------------------------
(* The order in which things are set up and closed.                        *)

Shape ==
    /\ DOMAIN proc = Fields
    /\ proc.signal \in {"off", "notified", "selects", "closed"}
    /\ failures \in Nat

Early == {"connect", "schema", "statements", "session", "start"}

\* Nothing is closed before the context is cancelled, and Close goes through its calls in
\* their order.
ClosedInOrder ==
    /\ proc.closer \in Nat
    /\ proc.closer > 0 => proc.cancelled /\ proc.server = "closed"
    /\ proc.closer > 1 <=> "admin" \in proc.closed
    /\ proc.closer > 2 <=> "changes" \in proc.closed
    /\ proc.closer > 3 <=> "stop" \in proc.closed
    /\ "listener" \in proc.closed => proc.cancelled
    /\ proc.server = "closed" => proc.cancelled

\* What has been set up by the time main and the server get to where they are.
SetUp ==
    /\ ~up => proc = Fresh
    /\ proc.signal = "closed" => proc.cancelled
    /\ proc.signal = "off" => proc.main \in Early
    /\ proc.main \in Early \union {"find"} => ~proc.configs
    /\ proc.main \in {"register", "wait"} /\ proc.configs => proc.loader \/ failures > 0
    /\ proc.loader => proc.main \notin Early \union {"find"}
    /\ proc.main \in Early => proc.http = "off"
    /\ proc.http \in {"made", "serving"} <=> proc.server # "nil"

IInv == Shape /\ ClosedInOrder /\ SetUp

\* A process that has just been started has nothing closed and nothing set up.
LEMMA FreshFacts ==
    /\ DOMAIN Fresh = Fields
    /\ Fresh.main = "connect" /\ Fresh.signal = "off" /\ Fresh.closer = 0
    /\ Fresh.closed = {} /\ Fresh.server = "nil" /\ Fresh.http = "off"
    /\ Fresh.cancelled = FALSE /\ Fresh.configs = FALSE /\ Fresh.loader = FALSE
BY DEF Fresh, Fields

LEMMA FreshIInv ==
  ASSUME proc' = Fresh, failures' \in Nat
  PROVE  IInv'
BY FreshFacts DEF IInv, Shape, ClosedInOrder, SetUp, Early

LEMMA InitIInv == Init => IInv
BY FreshFacts DEF Init, IInv, Shape, ClosedInOrder, SetUp, Early

\* A step of one goroutine, or the end of the process.
LEMMA DiesIInv ==
  ASSUME IInv, Dies, failures' \in Nat
  PROVE  IInv'
BY FreshIInv DEF Dies

LEMMA FailureIsNat ==
  ASSUME IInv
  PROVE  /\ UNCHANGED failures => failures' \in Nat
         /\ Failure => failures' \in Nat /\ failures' > 0
         /\ QueryFails => failures' \in Nat /\ failures' > 0
BY DEF IInv, Shape, Failure, QueryFails

\* A step that touches only main, session and todo.
LEMMA SchemaStep ==
  ASSUME IInv, proc.main \in Early, NEW next, Goes(next), UNCHANGED failures,
         DOMAIN next = Fields, next.main \in Early,
         next.loader = proc.loader, next.configs = proc.configs, next.signal = proc.signal,
         next.cancelled = proc.cancelled, next.http = proc.http,
         next.server = proc.server, next.closer = proc.closer, next.closed = proc.closed
  PROVE  IInv'
BY DEF IInv, Shape, ClosedInOrder, SetUp, Goes

\* The connection, the schema and the sessions.
LEMMA EarlyIInv ==
  ASSUME IInv, Connect \/ ReadSchema \/ Statement \/ OpenSession
  PROVE  IInv'
<1> USE FailureIsNat, DiesIInv DEF IInv, Shape, ClosedInOrder, SetUp, Fields, Early, Goes
<1>1. CASE Connect
  BY <1>1 DEF Connect
<1>2. CASE ReadSchema
  <2> DEFINE next == [proc EXCEPT
                !.todo = Statements(file),
                !.main = IF Statements(file) = <<>> THEN "session" ELSE "statements"]
  <2>1. (Goes(next) /\ UNCHANGED failures) \/ (Dies /\ failures' \in Nat)
    BY <1>2 DEF ReadSchema
  <2>2. /\ DOMAIN next = Fields
        /\ next.main \in Early /\ next.loader = proc.loader
        /\ next.configs = proc.configs /\ next.signal = proc.signal
        /\ next.cancelled = proc.cancelled /\ next.http = proc.http
        /\ next.server = proc.server /\ next.closer = proc.closer
        /\ next.closed = proc.closed
    BY <1>2 DEF ReadSchema
  <2>3. proc.main \in Early
    BY <1>2 DEF ReadSchema
  <2> HIDE DEF next
  <2> QED
    BY <2>1, <2>2, <2>3, SchemaStep DEF Goes
<1>3. CASE Statement
  <2> DEFINE next == [proc EXCEPT
                !.todo = Tail(@), !.session = SessionAfter(Head(proc.todo)),
                !.main = IF Tail(proc.todo) = <<>> THEN "session" ELSE @]
  <2>1. (Goes(next) /\ UNCHANGED failures) \/ (Dies /\ failures' \in Nat)
    BY <1>3 DEF Statement, StatementFails
  <2>2. /\ DOMAIN next = Fields
        /\ next.main \in Early /\ next.loader = proc.loader
        /\ next.configs = proc.configs /\ next.signal = proc.signal
        /\ next.cancelled = proc.cancelled /\ next.http = proc.http
        /\ next.server = proc.server /\ next.closer = proc.closer
        /\ next.closed = proc.closed
    BY <1>3 DEF Statement
  <2>3. proc.main \in Early
    BY <1>3 DEF Statement
  <2> HIDE DEF next
  <2> QED
    BY <2>1, <2>2, <2>3, SchemaStep DEF Goes
<1>4. CASE OpenSession
  BY <1>4 DEF OpenSession
<1> QED
  BY <1>1, <1>2, <1>3, <1>4

\* The rest of RunServerStart.
LEMMA StartIInv ==
  ASSUME IInv,
         Start \/ Find \/ Provide \/ Watch \/ StartupEvent \/ RegisterAPIs \/ Wait
  PROVE  IInv'
<1> USE FailureIsNat, DiesIInv DEF IInv, Shape, ClosedInOrder, SetUp, Fields, Early, Goes
<1>1. CASE Start
  BY <1>1 DEF Start
<1>2. CASE Find
  <2>1. \/ UNCHANGED failures /\ Goes([proc EXCEPT !.main = "provide", !.configs = TRUE])
        \/ failures' \in Nat /\ Goes([proc EXCEPT !.main = "wait"])
    BY <1>2 DEF Find, Answers, Refuses
  <2>2. proc.main = "find"
    BY <1>2 DEF Find
  <2>3. CASE UNCHANGED failures /\ Goes([proc EXCEPT !.main = "provide", !.configs = TRUE])
    BY <2>2, <2>3
  <2>4. CASE failures' \in Nat /\ Goes([proc EXCEPT !.main = "wait"])
    BY <2>2, <2>4
  <2> QED
    BY <2>1, <2>3, <2>4
<1>3. CASE Provide
  BY <1>3 DEF Provide
<1>4. CASE Watch
  BY <1>4 DEF Watch
<1>5. CASE StartupEvent
  <2>1. \/ UNCHANGED failures /\ Goes([proc EXCEPT !.main = "register", !.loader = TRUE])
        \/ failures' \in Nat /\ Dies
        \/ /\ failures' \in Nat /\ failures' > 0
           /\ Goes([proc EXCEPT !.main = "register"])
    BY <1>5 DEF StartupEvent, Answers, Refuses, LoaderAfterStartup
  <2>2. proc.main = "hooks"
    BY <1>5 DEF StartupEvent
  <2>3. CASE UNCHANGED failures /\ Goes([proc EXCEPT !.main = "register", !.loader = TRUE])
    BY <2>2, <2>3
  <2>4. CASE /\ failures' \in Nat /\ failures' > 0
             /\ Goes([proc EXCEPT !.main = "register"])
    BY <2>2, <2>4
  <2> QED
    BY <2>1, <2>3, <2>4
<1>6. CASE RegisterAPIs
  BY <1>6 DEF RegisterAPIs
<1>7. CASE Wait
  BY <1>7 DEF Wait
<1> QED
  BY <1>1, <1>2, <1>3, <1>4, <1>5, <1>6, <1>7

\* Signals, Close and the server.
LEMMA CloseIInv ==
  ASSUME IInv, Signal \/ AwaitSignal \/ Close \/ StartHTTPServers
  PROVE  IInv'
<1> USE FailureIsNat, DiesIInv DEF IInv, Shape, ClosedInOrder, SetUp, Fields, Early, Goes
<1>1. CASE Signal
  <2>1. CASE proc.signal \in {"off", "closed"}
    BY <1>1, <2>1, FreshIInv DEF Signal
  <2>2. CASE proc.signal = "notified"
    BY <1>1, <2>2 DEF Signal
  <2>3. CASE proc.signal = "selects"
    <3>1. /\ up /\ UNCHANGED <<up, failures>>
          /\ proc' = [proc EXCEPT !.cancelled = TRUE, !.signal = "closed"]
      BY <1>1, <2>3 DEF Signal
    <3>2. Shape' /\ ClosedInOrder'
      BY <2>3, <3>1
    <3>3. SetUp'
      BY <2>3, <3>1
    <3> QED
      BY <3>2, <3>3
  <2> QED
    BY <2>1, <2>2, <2>3
<1>2. CASE AwaitSignal
  BY <1>2 DEF AwaitSignal
<1>3. CASE CloseServer
  <2>1. CASE Dies
    BY <1>3, <2>1 DEF CloseServer
  <2>2. CASE Goes([proc EXCEPT !.server = "closed", !.closer = 1])
    BY <1>3, <2>2 DEF CloseServer
  <2> QED
    BY <1>3, <2>1, <2>2 DEF CloseServer
<1>4. CASE CloseChannel
  <2>1. CASE Dies
    BY <1>4, <2>1 DEF CloseChannel
  <2>2. CASE Goes([proc EXCEPT !.closed = @ \union {Deferred[proc.closer]}, !.closer = @ + 1])
    BY <1>4, <2>2, DeferredCalls DEF CloseChannel
  <2> QED
    BY <1>4, <2>1, <2>2 DEF CloseChannel
<1>5. CASE MakeServer
  <2>1. Goes([proc EXCEPT !.server = "made", !.http = "made"]) /\ UNCHANGED failures
    BY <1>5 DEF MakeServer
  <2>2. proc.http = "starting" /\ proc.server = "nil"
    BY <1>5 DEF MakeServer
  <2> QED
    BY <2>1, <2>2
<1>6. CASE Listen
  BY <1>6 DEF Listen
<1>7. CASE ServeEnds
  BY <1>7 DEF ServeEnds
<1> QED
  BY <1>1, <1>2, <1>3, <1>4, <1>5, <1>6, <1>7 DEF Close, StartHTTPServers

\* Requests, loops, listener and watcher: they close the channel of the listener at most.
LEMMA RequestIInv ==
  ASSUME IInv, NEW h \in Handlers, Send(h) \/ Recovers(h) \/ Receive(h)
  PROVE  IInv'
<1> USE DEF IInv, Shape, ClosedInOrder, SetUp, Fields, Goes
<1>1. CASE Send(h)
  BY <1>1 DEF Send
<1>2. CASE Recovers(h)
  BY <1>2 DEF Recovers
<1>3. CASE Receive(h)
  BY <1>3 DEF Receive
<1> QED
  BY <1>1, <1>2, <1>3

\* A reload goes on to its next step, or the process ends.
LEMMA ReloadStep ==
  ASSUME IInv, NEW next, HandleEvent(next)
  PROVE  (Goes(next) /\ UNCHANGED failures) \/ (Dies /\ failures' \in Nat)
BY FailureIsNat DEF HandleEvent

LEMMA LoopIInv ==
  ASSUME IInv, AdminLoop \/ Listener
  PROVE  IInv'
<1> USE FailureIsNat, DiesIInv DEF IInv, Shape, ClosedInOrder, SetUp, Fields, Goes
<1>1. CASE BeginLoop
  BY <1>1 DEF BeginLoop
<1>2. CASE AdminReload
  <2> DEFINE next == [proc EXCEPT !.admin = IF IsListener THEN "storing" ELSE "idle"]
  <2>1. CASE Goes(next) /\ UNCHANGED failures
    BY <2>1
  <2>2. CASE Dies /\ failures' \in Nat
    BY <2>2
  <2> QED
    BY <1>2, <2>1, <2>2, ReloadStep DEF AdminReload
<1>3. CASE HandOver
  BY <1>3 DEF HandOver
<1>4. CASE EndLoop
  <2>1. CASE /\ proc.cancelled
             /\ Goes([proc EXCEPT !.admin = "ended", !.closed = @ \union {"listener"}])
    BY <1>4, <2>1 DEF EndLoop
  <2>2. CASE Goes([proc EXCEPT !.admin = "ended"])
    BY <1>4, <2>2 DEF EndLoop
  <2> QED
    BY <1>4, <2>1, <2>2 DEF EndLoop
<1>5. CASE Store
  BY <1>5 DEF Store
<1>6. CASE EndListener
  BY <1>6 DEF EndListener
<1> QED
  BY <1>1, <1>2, <1>3, <1>4, <1>5, <1>6 DEF AdminLoop, Listener

LEMMA ChangeIInv ==
  ASSUME IInv, Tick \/ Watcher \/ ProviderLoop
  PROVE  IInv'
<1> USE FailureIsNat, DiesIInv DEF IInv, Shape, ClosedInOrder, SetUp, Fields, Goes
<1>1. CASE Tick
  BY <1>1 DEF Tick
<1>2. CASE SendChange
  <2>1. CASE Dies
    BY <1>2, <2>1 DEF SendChange
  <2>2. CASE Goes([proc EXCEPT !.watcher = "idle", !.changes = @ + 1])
    BY <1>2, <2>2 DEF SendChange
  <2> QED
    BY <1>2, <2>1, <2>2 DEF SendChange
<1>3. CASE EndWatcher
  BY <1>3 DEF EndWatcher
<1>4. CASE Compare
  <2>1. CASE Dies
    BY <1>4, <2>1 DEF Compare
  <2>2. ASSUME NEW next \in {"idle", "reloading"},
               Goes([proc EXCEPT !.changes = @ - 1, !.provider = next])
        PROVE  IInv'
    BY <1>4, <2>2 DEF Compare
  <2> QED
    BY <1>4, <2>1, <2>2 DEF Compare
<1>5. CASE ProviderReload
  <2>1. CASE Goes([proc EXCEPT !.provider = "idle"]) /\ UNCHANGED failures
    BY <2>1
  <2>2. CASE Dies /\ failures' \in Nat
    BY <2>2
  <2> QED
    BY <1>5, <2>1, <2>2, ReloadStep DEF ProviderReload
<1>6. CASE EndProvider
  BY <1>6 DEF EndProvider
<1> QED
  BY <1>1, <1>2, <1>3, <1>4, <1>5, <1>6 DEF Watcher, ProviderLoop

LEMMA NextIInv == IInv /\ [Next]_vars => IInv'
<1> SUFFICES ASSUME IInv, [Next]_vars PROVE IInv'
  OBVIOUS
<1>1. CASE Restart
  <2>1. proc' = Fresh /\ failures' \in Nat
    BY <1>1 DEF Restart, IInv, SetUp
  <2> QED
    BY <2>1, FreshIInv
<1>2. CASE UNCHANGED vars
  BY <1>2 DEF vars, IInv, Shape, ClosedInOrder, SetUp
<1> QED
  BY <1>1, <1>2, EarlyIInv, StartIInv, CloseIInv, RequestIInv, LoopIInv, ChangeIInv
     DEF Next, Main

\* What the steps rely on holds in every behaviour, however often the process is started,
\* fails and is stopped.
THEOREM Invariance == Spec => []IInv
BY InitIInv, NextIInv, PTL DEF Spec

\* Wait returns only when the server and the channels of the admin API and of the watcher
\* are closed, whatever goes on at the time.
THEOREM WaitBlocksHolds == Spec => []WaitBlocks
<1>1. IInv => WaitBlocks
  BY DEF IInv, ClosedInOrder, WaitBlocks
<1> QED
  BY <1>1, Invariance, PTL

\* A gateway that has started: main waits, and what a reload needs is there.
LEMMA StartedFacts ==
  ASSUME IInv, Started
  PROVE  /\ proc.main = "wait" /\ proc.signal # "off" /\ proc.configs
         /\ proc.http = "serving" /\ proc.server # "nil"
         /\ proc.loader \/ failures > 0
BY DEF IInv, SetUp, Started, Early

\* Somebody ends the process of a gateway that has started.
LEMMA StaysUpStep ==
  ASSUME IInv, Next, Started, ~up'
  PROVE  proc.cancelled \/ failures' > 0
<1> USE StartedFacts, FailureIsNat DEF Goes
<1>1. CASE Main
  <2>1. Wait
    BY <1>1 DEF Main, Connect, ReadSchema, Statement, OpenSession, Start, Find, Provide,
                Watch, StartupEvent, RegisterAPIs
  <2> QED
    BY <2>1 DEF Wait, IInv, ClosedInOrder
<1>2. CASE Signal
  BY <1>2 DEF Signal, IInv, Shape, SetUp
<1>3. CASE AwaitSignal
  BY <1>3 DEF AwaitSignal
<1>4. CASE Close
  BY <1>4, DeferredCalls DEF Close, CloseServer, CloseChannel, IInv, ClosedInOrder
<1>5. CASE StartHTTPServers
  BY <1>5 DEF StartHTTPServers, MakeServer, Listen, ServeEnds, IInv, ClosedInOrder
<1>6. ASSUME NEW h \in Handlers, Send(h) \/ Recovers(h) \/ Receive(h)
      PROVE  FALSE
  BY <1>6 DEF Send, Recovers, Receive
<1>7. ASSUME NEW next, HandleEvent(next)
      PROVE  failures' > 0
  BY <1>7 DEF HandleEvent
<1>8. CASE AdminLoop
  BY <1>7, <1>8 DEF AdminLoop, BeginLoop, AdminReload, HandOver, EndLoop
<1>9. CASE Listener
  BY <1>9 DEF Listener, Store, EndListener, IInv, ClosedInOrder
<1>10. CASE Tick \/ Watcher
  BY <1>10 DEF Tick, Watcher, SendChange, EndWatcher, IInv, ClosedInOrder
<1>11. CASE ProviderLoop
  BY <1>7, <1>11 DEF ProviderLoop, Compare, ProviderReload, EndProvider
<1>12. CASE Restart
  BY <1>12 DEF Restart
<1> QED
  BY <1>1, <1>2, <1>3, <1>4, <1>5, <1>6, <1>8, <1>9, <1>10, <1>11, <1>12 DEF Next

\* No order of requests, reloads, snapshots and restarts ends a gateway that has started
\* and that neither a signal nor a failure of the datastore has reached.
THEOREM StaysUpHolds == Spec => StaysUp
<1>1. IInv /\ [Next]_vars => [Started /\ ~up' => proc.cancelled \/ failures' > 0]_vars
  BY StaysUpStep
<1> QED
  BY <1>1, Invariance, PTL DEF Spec, StaysUp

=============================================================================
