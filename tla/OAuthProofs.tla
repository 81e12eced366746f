----------------------------- MODULE OAuthProofs -----------------------------
(***************************************************************************)
(* Proofs about OAuth for every set of servers, handlers and visits, and   *)
(* for all the requests that RequestsAssumption describes.                 *)
(***************************************************************************)
EXTENDS OAuth, CassandraProofs, FiniteSetTheorems

----------------------------------------------------------------------------
(* Finite sets and the functions between them.                             *)

LEMMA ElemsFinite ==
    ASSUME NEW S, IsFiniteSet(S), NEW T, NEW f \in [S -> T]
    PROVE  IsFiniteSet(Elems(f)) /\ Cardinality(Elems(f)) <= Cardinality(S)
<1>1. f \in Surjection(S, Elems(f))
    BY DEF Surjection, Elems
<1> QED
    BY <1>1, FS_Surjection

LEMMA UnionBound ==
    ASSUME NEW S, IsFiniteSet(S), NEW m \in Nat, Cardinality(S) <= m,
           NEW T, IsFiniteSet(T), NEW n \in Nat, Cardinality(T) <= n
    PROVE  IsFiniteSet(S \union T) /\ Cardinality(S \union T) <= m + n
<1>1. /\ IsFiniteSet(S \union T)
      /\ Cardinality(S \union T) = Cardinality(S) + Cardinality(T) - Cardinality(S \intersect T)
    BY FS_Union
<1>2. IsFiniteSet(S \intersect T)
    BY FS_Intersection
<1>3. Cardinality(S) \in Nat /\ Cardinality(T) \in Nat /\ Cardinality(S \intersect T) \in Nat
    BY <1>2, FS_CardinalityType
<1> QED
    BY <1>1, <1>3

\* A set that is not larger than another one can be numbered by it.
LEMMA InjectionExists ==
    ASSUME NEW S, IsFiniteSet(S), NEW T, IsFiniteSet(T), Cardinality(S) <= Cardinality(T)
    PROVE  Injection(S, T) # {}
<1> DEFINE m == Cardinality(S)
           n == Cardinality(T)
<1>1. m \in Nat /\ n \in Nat /\ m <= n
    BY FS_CardinalityType
<1>2. PICK f : f \in Bijection(1 .. m, S)
    BY FS_CardinalityType DEF ExistsBijection
<1>3. PICK g : g \in Bijection(1 .. n, T)
    BY FS_CardinalityType DEF ExistsBijection
<1> HIDE DEF m, n
<1>4. /\ \A s \in S : \E k \in 1 .. m : f[k] = s
      /\ g \in [1 .. n -> T] /\ \A j, k \in 1 .. n : g[j] = g[k] => j = k
    BY <1>2, <1>3 DEF Bijection, Surjection, Injection, IsInjective
<1> DEFINE place(s) == CHOOSE k \in 1 .. m : f[k] = s
           h == [s \in S |-> g[place(s)]]
<1>5. \A s \in S : place(s) \in 1 .. n /\ f[place(s)] = s
    <2>1. \A s \in S : place(s) \in 1 .. m /\ f[place(s)] = s
        BY <1>4
    <2> QED
        BY <1>1, <2>1
<1> HIDE DEF place
<1>6. h \in [S -> T] /\ \A s, t \in S : h[s] = h[t] => s = t
    BY <1>4, <1>5
<1> QED
    BY <1>6 DEF Injection, IsInjective

----------------------------------------------------------------------------
(* Servers.                                                                *)

\* A rule apart from whether it was parsed.
LEMMA RuleParsed ==
    ASSUME NEW u \in Rule, NEW p \in BOOLEAN
    PROVE  /\ u.parsed \in BOOLEAN /\ [u EXCEPT !.parsed = p] \in Rule
           /\ [[u EXCEPT !.parsed = p] EXCEPT !.parsed = FALSE] = [u EXCEPT !.parsed = FALSE]
BY DEF Rule

LEMMA RowType ==
    ASSUME NEW c \in Server
    PROVE  Row(c) \in Server /\ Row(c).name = c.name
<1>1. c.rules \in Seq(Rule)
    BY DEF Server
<1> DEFINE rules == [i \in DOMAIN c.rules |-> [c.rules[i] EXCEPT !.parsed = FALSE]]
<1>2. rules \in Seq(Rule)
    <2>1. DOMAIN c.rules = 1 .. Len(c.rules) /\ Len(c.rules) \in Nat
        BY <1>1
    <2>2. \A i \in 1 .. Len(c.rules) : [c.rules[i] EXCEPT !.parsed = FALSE] \in Rule
        <3> TAKE i \in 1 .. Len(c.rules)
        <3>1. c.rules[i] \in Rule
            BY <1>1, <2>1
        <3> QED
            BY <3>1, RuleParsed
    <2>3. rules \in [1 .. Len(c.rules) -> Rule]
        BY <2>1, <2>2
    <2> QED
        BY <2>1, <2>3
<1>3. Row(c) = [c EXCEPT !.rules = rules]
    BY DEF Row, Server
<1> HIDE DEF rules
<1> QED
    BY <1>2, <1>3 DEF Server

LEMMA DecodedType ==
    ASSUME NEW c \in Server, NEW b, IsBody(b)
    PROVE  Decoded(c, b) \in Server
<1> DEFINE d == Decoded(c, b)
           over == [i \in DOMAIN b.rules |-> IF i \in DOMAIN c.rules
                                             THEN [b.rules[i] EXCEPT !.parsed = c.rules[i].parsed]
                                             ELSE b.rules[i]]
<1>1. DOMAIN c = {"name", "strategy", "settings", "key", "secrets", "rules"}
    BY DEF Server
<1>2. DOMAIN d = DOMAIN c
    BY DEF Decoded
<1>3. /\ d.name = IF "name" \in DOMAIN b THEN b.name ELSE c.name
      /\ d.strategy = IF "strategy" \in DOMAIN b THEN b.strategy ELSE c.strategy
      /\ d.settings = IF "settings" \in DOMAIN b THEN b.settings ELSE c.settings
      /\ d.key = IF "key" \in DOMAIN b THEN b.key ELSE c.key
      /\ d.secrets = IF "secrets" \in DOMAIN b THEN c.secrets \union b.secrets ELSE c.secrets
      /\ d.rules = IF "rules" \in DOMAIN b THEN over ELSE c.rules
    BY <1>1 DEF Decoded
<1>4. d = [name |-> d.name, strategy |-> d.strategy, settings |-> d.settings, key |-> d.key,
           secrets |-> d.secrets, rules |-> d.rules]
    <2>1. d = [f \in DOMAIN d |-> d[f]]
        BY DEF Decoded
    <2> HIDE DEF d
    <2> QED
        BY <1>1, <1>2, <2>1
<1>5. ASSUME "rules" \in DOMAIN b PROVE over \in Seq(Rule)
    <2>1. b.rules \in Seq(Rule) /\ c.rules \in Seq(Rule)
        BY <1>5 DEF IsBody, Server
    <2>2. DOMAIN b.rules = 1 .. Len(b.rules) /\ Len(b.rules) \in Nat
        BY <2>1
    <2>3. \A i \in 1 .. Len(b.rules) : b.rules[i] \in Rule
        BY <2>1
    <2>4. \A i \in DOMAIN c.rules : c.rules[i].parsed \in BOOLEAN
        <3> TAKE i \in DOMAIN c.rules
        <3>1. c.rules[i] \in Rule
            BY <2>1
        <3> QED
            BY <3>1, RuleParsed
    <2>5. \A i \in 1 .. Len(b.rules) : over[i] \in Rule
        BY <2>2, <2>3, <2>4, RuleParsed
    <2>6. over \in [1 .. Len(b.rules) -> Rule]
        BY <2>2, <2>5
    <2> QED
        BY <2>2, <2>6
<1> HIDE DEF over, d
<1>6. d.name \in Names /\ d.key \in Keys /\ d.secrets \subseteq Apps /\ d.rules \in Seq(Rule)
    BY <1>3, <1>5 DEF IsBody, Server
<1>7. /\ d.strategy \in {"jwt", "introspection", "unknown"}
      /\ d.settings \in {"methods", "legacy", "map", "nil"}
    BY <1>3 DEF IsBody, Server
<1> QED
    BY <1>4, <1>6, <1>7 DEF Server, d

\* A rule that is parsed is the same rule in the datastore.
LEMMA ParsedRow ==
    ASSUME NEW c \in Server, NEW i, NEW p \in BOOLEAN
    PROVE  /\ [c EXCEPT !.rules[i].parsed = p] \in Server
           /\ Row([c EXCEPT !.rules[i].parsed = p]) = Row(c)
<1> DEFINE rules == [c.rules EXCEPT ![i].parsed = p]
           d == [c EXCEPT !.rules = rules]
<1>1. [c EXCEPT !.rules[i].parsed = p] = d
    BY DEF Server
<1>2. c.rules \in Seq(Rule)
    BY DEF Server
<1>3. \A j \in DOMAIN c.rules :
        /\ rules[j] \in Rule
        /\ [rules[j] EXCEPT !.parsed = FALSE] = [c.rules[j] EXCEPT !.parsed = FALSE]
    <2> TAKE j \in DOMAIN c.rules
    <2>1. c.rules[j] \in Rule
        BY <1>2
    <2>2. rules[j] = c.rules[j] \/ rules[j] = [c.rules[j] EXCEPT !.parsed = p]
        OBVIOUS
    <2> QED
        BY <2>1, <2>2, RuleParsed
<1>4. rules \in Seq(Rule) /\ DOMAIN rules = DOMAIN c.rules
    <2>1. DOMAIN c.rules = 1 .. Len(c.rules) /\ Len(c.rules) \in Nat
        BY <1>2
    <2>2. rules = [j \in DOMAIN c.rules |-> rules[j]]
        OBVIOUS
    <2> HIDE DEF rules
    <2>3. rules \in [1 .. Len(c.rules) -> Rule]
        BY <1>3, <2>1, <2>2
    <2> QED
        BY <2>1, <2>3
<1>5. d \in Server /\ d.rules = rules
    BY <1>4 DEF Server
<1> HIDE DEF rules
<1>6. Row(d) = Row(c)
    <2>1. [j \in DOMAIN rules |-> [rules[j] EXCEPT !.parsed = FALSE]]
            = [j \in DOMAIN c.rules |-> [c.rules[j] EXCEPT !.parsed = FALSE]]
        BY <1>3, <1>4
    <2> QED
        BY <1>5, <2>1 DEF Row, Server
<1> QED
    BY <1>1, <1>5, <1>6

----------------------------------------------------------------------------
(* The state.                                                              *)

HeapOK == DOMAIN heap = Live /\ \A o \in Live : heap[o] \in Server

\* A handler has the request that brought it where it is, and the server it works on.
HandlersOK ==
    /\ req \in [Handlers -> Requests \union {NoRequest}]
    /\ at \in [Handlers -> {"idle", "find", "decode", "decoding", "add", "save", "remove"}]
    /\ obj \in [Handlers -> Objs \union {NoObj}]
    /\ ops \in 0 .. MaxOps[backend]
    /\ alone \in [Handlers -> BOOLEAN]
    /\ \A h \in Handlers :
         /\ at[h] # "idle" => req[h] \in Requests
         /\ at[h] \in {"add", "decode", "decoding", "save"} <=> obj[h] # NoObj
         /\ at[h] \in {"find", "decode", "decoding", "save"} => req[h].op = "put"
         /\ at[h] = "remove" => req[h].op = "delete"
         /\ at[h] = "add" <=> req[h].op = "post"

\* A router has at most one token endpoint per server.
RoutesOK ==
    /\ load \in [at : {"idle", "start servers", "start apis", "apis", "servers", "swap"},
                guard : Guard, tokens : SUBSET Objs]
    /\ loads \in 0 .. MaxLoads
    /\ guard \in Guard /\ tokens \in SUBSET Objs
    /\ Cardinality(tokens) <= Cardinality(Names)
    /\ Cardinality(load.tokens) <= Cardinality(Names)
    /\ load.at \notin {"servers", "swap"} => load.guard = NoRoute
    /\ load.at # "swap" => load.tokens = {}

\* A request that is being checked has met a guard, and starts with the first rule.
VisitsOK ==
    /\ visit \in [Visits -> [at : {"idle", "key", "rule", "parse"} \union Ended,
                            guard : Guard, key : Keys \union {NoKey},
                            claim : Claims \union {"none"}, rule : Nat, served : Nat]]
    /\ \A v \in Visits :
         /\ visit[v].guard = NoRoute \/ visit[v].guard.route = "guarded"
         /\ visit[v].guard = NoRoute <=> visit[v].at \in {"idle"} \union Ended
         /\ visit[v].at \in {"idle", "key"} => visit[v].rule = 1 /\ visit[v].served = 0

StoreOK ==
    /\ backend \in Backends
    /\ servers \in [Names -> Objs \union {NoObj}]
    /\ QueryTypeOK

HistoryOK ==
    /\ <<up, lookedUp, quiet>> \in BOOLEAN \X BOOLEAN \X BOOLEAN
    /\ posted \in [Names -> Server \union {NoServer}]
    /\ mustDeny \in [Visits -> BOOLEAN]

TypeInv == StoreOK /\ HeapOK /\ HandlersOK /\ RoutesOK /\ VisitsOK /\ HistoryOK

LEMMA TypeInvIsType == TypeInv => TypeOK
BY DEF TypeInv, StoreOK, HeapOK, HandlersOK, RoutesOK, VisitsOK, HistoryOK, TypeOK

LEMMA ObjsFinite ==
    /\ Cardinality(Names) \in Nat /\ Cardinality(Handlers) \in Nat /\ Cardinality(Visits) \in Nat
    /\ IsFiniteSet(Objs) /\ NoObj \notin Objs
    /\ Cardinality(Objs) = 4 * Cardinality(Names) + Cardinality(Handlers) + Cardinality(Visits) + 3
<1> DEFINE names == Cardinality(Names)
           handlers == Cardinality(Handlers)
           visits == Cardinality(Visits)
           n == 4 * names + handlers + visits + 3
<1>1. names \in Nat /\ handlers \in Nat /\ visits \in Nat
    BY SetsAssumption, FS_CardinalityType
<1> HIDE DEF names, handlers, visits
<1>2. n \in Nat
    BY <1>1
<1>3. Objs = 1 .. n
    BY DEF Objs, names, handlers, visits
<1>4. IsFiniteSet(Objs) /\ Cardinality(Objs) = n
    BY <1>2, <1>3, FS_Interval
<1> QED
    BY <1>1, <1>3, <1>4 DEF NoObj, names, handlers, visits

\* What is reached from the datastore, the handlers, the routes and the requests.
LEMMA LiveBound ==
    ASSUME TypeInv
    PROVE  /\ IsFiniteSet(Live)
           /\ Cardinality(Live) <= 3 * Cardinality(Names) + Cardinality(Handlers)
                                     + Cardinality(Visits) + 2
<1> DEFINE names == Cardinality(Names)
           handlers == Cardinality(Handlers)
           visits == Cardinality(Visits)
           met == [v \in Visits |-> visit[v].guard.server]
           stored == Elems(servers) \union Elems(obj)
           routed == tokens \union load.tokens
           guarded == {guard.server} \union {load.guard.server}
           all == ((stored \union routed) \union guarded) \union Elems(met)
<1>1. names \in Nat /\ handlers \in Nat /\ visits \in Nat /\ IsFiniteSet(Objs)
    BY ObjsFinite
<1>2. /\ IsFiniteSet(Elems(servers)) /\ Cardinality(Elems(servers)) <= names
      /\ IsFiniteSet(Elems(obj)) /\ Cardinality(Elems(obj)) <= handlers
    BY SetsAssumption, ElemsFinite DEF TypeInv, StoreOK, HandlersOK
<1>3. IsFiniteSet(Elems(met)) /\ Cardinality(Elems(met)) <= visits
    <2>1. met \in [Visits -> {visit[v].guard.server : v \in Visits}]
        OBVIOUS
    <2> HIDE DEF met
    <2> QED
        BY <2>1, SetsAssumption, ElemsFinite
<1>4. /\ IsFiniteSet(tokens) /\ IsFiniteSet(load.tokens)
      /\ Cardinality(tokens) <= names /\ Cardinality(load.tokens) <= names
    BY <1>1, FS_Subset DEF TypeInv, RoutesOK
<1>5. /\ IsFiniteSet({guard.server}) /\ Cardinality({guard.server}) <= 1
      /\ IsFiniteSet({load.guard.server}) /\ Cardinality({load.guard.server}) <= 1
    <2>1. \A x : IsFiniteSet({x}) /\ Cardinality({x}) = 1
        BY FS_Singleton
    <2>2. 1 <= 1
        OBVIOUS
    <2> QED
        BY <2>1, <2>2, Zenon
<1>6. Live \subseteq all
    BY DEF Live, ServerOf, Elems
<1> HIDE DEF names, handlers, visits, met
<1>7. IsFiniteSet(stored) /\ Cardinality(stored) <= names + handlers
    BY <1>1, <1>2, UnionBound
<1>8. IsFiniteSet(routed) /\ Cardinality(routed) <= names + names
    BY <1>1, <1>4, UnionBound
<1>9. IsFiniteSet(guarded) /\ Cardinality(guarded) <= 1 + 1
    BY <1>5, UnionBound
<1> HIDE DEF stored, routed, guarded
<1>10. /\ names + handlers \in Nat /\ names + names \in Nat /\ 1 + 1 \in Nat
       /\ (names + handlers) + (names + names) \in Nat
       /\ ((names + handlers) + (names + names)) + (1 + 1) \in Nat
    BY <1>1
<1>11. /\ IsFiniteSet(stored \union routed)
       /\ Cardinality(stored \union routed) <= (names + handlers) + (names + names)
    BY <1>7, <1>8, <1>10, UnionBound
<1>12. /\ IsFiniteSet((stored \union routed) \union guarded)
       /\ Cardinality((stored \union routed) \union guarded)
            <= ((names + handlers) + (names + names)) + (1 + 1)
    BY <1>9, <1>10, <1>11, UnionBound
<1>13. /\ IsFiniteSet(all)
       /\ Cardinality(all) <= (((names + handlers) + (names + names)) + (1 + 1)) + visits
    BY <1>1, <1>3, <1>10, <1>12, UnionBound
<1> HIDE DEF all
<1>14. IsFiniteSet(Live) /\ Cardinality(Live) <= Cardinality(all)
    BY <1>6, <1>13, FS_Subset
<1>15. Cardinality(Live) \in Nat /\ Cardinality(all) \in Nat
    BY <1>13, <1>14, FS_CardinalityType
<1> QED
    BY <1>1, <1>13, <1>14, <1>15 DEF names, handlers, visits

\* There are objects for one more server, and for a copy of every server.
LEMMA Unused ==
    ASSUME TypeInv
    PROVE  /\ IsFiniteSet(Objs \ Live)
           /\ Cardinality(Objs \ Live) \in Nat
           /\ Cardinality(Objs \ Live) > Cardinality(Names)
<1>1. /\ IsFiniteSet(Objs \ Live)
      /\ Cardinality(Objs \ Live) = Cardinality(Objs) - Cardinality(Objs \intersect Live)
    BY ObjsFinite, FS_Difference
<1>2. /\ Cardinality(Live \intersect Objs) <= Cardinality(Live)
      /\ IsFiniteSet(Live \intersect Objs) /\ IsFiniteSet(Live)
    BY LiveBound, FS_Intersection
<1>3. /\ Cardinality(Live \intersect Objs) \in Nat /\ Cardinality(Live) \in Nat
      /\ Cardinality(Objs \ Live) \in Nat
    BY <1>1, <1>2, FS_CardinalityType
<1>4. Cardinality(Objs \intersect Live) = Cardinality(Live \intersect Objs)
    <2>1. Objs \intersect Live = Live \intersect Objs
        OBVIOUS
    <2> QED
        BY <2>1
<1> DEFINE names == Cardinality(Names)
           others == Cardinality(Handlers) + Cardinality(Visits)
<1>5. /\ names \in Nat /\ others \in Nat
      /\ Cardinality(Objs) = 4 * names + others + 3
      /\ Cardinality(Live) <= 3 * names + others + 2
    <2>1. /\ names \in Nat /\ Cardinality(Handlers) \in Nat /\ Cardinality(Visits) \in Nat
          /\ Cardinality(Objs) = 4 * names + Cardinality(Handlers) + Cardinality(Visits) + 3
        BY ObjsFinite
    <2>2. Cardinality(Live) <= 3 * names + Cardinality(Handlers) + Cardinality(Visits) + 2
        BY LiveBound
    <2> QED
        BY <1>3, <2>1, <2>2
<1> HIDE DEF others, names
<1>6. Cardinality(Objs \ Live) > names
    BY <1>1, <1>2, <1>3, <1>4, <1>5
<1> QED
    BY <1>1, <1>3, <1>6 DEF names

LEMMA FreshIsFree ==
    ASSUME TypeInv
    PROVE  Fresh \in Objs /\ Fresh \notin Live /\ Fresh # NoObj
<1>1. Objs \ Live # {}
    BY Unused, ObjsFinite, FS_EmptySet
<1> QED
    BY <1>1, ObjsFinite DEF Fresh

----------------------------------------------------------------------------
(* The heap.                                                               *)

LEMMA ElemsExcept ==
    ASSUME NEW f, NEW a, NEW x
    PROVE  Elems([f EXCEPT ![a] = x]) \subseteq Elems(f) \union {x}
BY DEF Elems

\* A collection keeps what the new state reaches.
LEMMA CollectOK ==
    ASSUME NEW h, Collect(h), Live' \subseteq DOMAIN h, \A o \in DOMAIN h : h[o] \in Server
    PROVE  HeapOK'
BY DEF Collect, HeapOK

LEMMA WithOK ==
    ASSUME HeapOK, NEW o, NEW content \in Server
    PROVE  /\ DOMAIN With(o, content) = Live \union {o}
           /\ \A x \in Live \union {o} : With(o, content)[x] \in Server
BY DEF HeapOK, With

\* A step of a handler reaches what was reached, and what it has made.
LEMMA LiveHandlers ==
    ASSUME UNCHANGED <<tokens, load, guard, visit>>, NEW X,
           Elems(servers') \subseteq Elems(servers) \union Elems(obj) \union X \union {NoObj},
           Elems(obj') \subseteq Elems(servers) \union Elems(obj) \union X \union {NoObj}
    PROVE  Live' \subseteq Live \union X
<1> DEFINE rest == tokens \union load.tokens \union ServerOf(guard) \union ServerOf(load.guard)
                     \union UNION {ServerOf(visit[v].guard) : v \in Visits}
<1>1. Live = (Elems(servers) \union Elems(obj) \union rest) \ {NoObj}
    BY DEF Live
<1>2. Live' = (Elems(servers') \union Elems(obj') \union rest) \ {NoObj}
    BY DEF Live, Elems, ServerOf
<1> HIDE DEF rest
<1> QED
    BY <1>1, <1>2

LEMMA LiveKept ==
    ASSUME UNCHANGED <<tokens, load, guard, visit>>,
           Elems(servers) \subseteq Elems(servers') \union {NoObj},
           Elems(obj) \subseteq Elems(obj') \union {NoObj}
    PROVE  Live \subseteq Live'
<1> DEFINE rest == tokens \union load.tokens \union ServerOf(guard) \union ServerOf(load.guard)
                     \union UNION {ServerOf(visit[v].guard) : v \in Visits}
<1>1. Live = (Elems(servers) \union Elems(obj) \union rest) \ {NoObj}
    BY DEF Live
<1>2. Live' = (Elems(servers') \union Elems(obj') \union rest) \ {NoObj}
    BY DEF Live, Elems, ServerOf
<1> HIDE DEF rest
<1> QED
    BY <1>1, <1>2

LEMMA Reached ==
    /\ (Elems(servers) \union Elems(obj) \union tokens \union load.tokens) \ {NoObj} \subseteq Live
    /\ \A h \in Handlers : h \in DOMAIN obj /\ obj[h] # NoObj => obj[h] \in Live
    /\ \A n \in Names : n \in DOMAIN servers /\ servers[n] # NoObj => servers[n] \in Live
BY DEF Live, Elems

----------------------------------------------------------------------------
(* The repositories.                                                       *)

\* What a write does to the datastore: nothing, a copy of the server of the handler, that
\* server itself, or a deletion.
Written(h) ==
    \/ NoWrite
    \/ obj[h] # NoObj /\ Upsert(h)
    \/ obj[h] # NoObj /\ Store(heap[obj[h]].name, obj[h]) /\ Collect(heap)
    \/ req[h].op = "delete" /\ Delete(h)

LEMMA HandlersQuery == Loader \in Callers /\ \A h \in Handlers : h \in Callers
BY SetsAssumption

LEMMA AddEffect ==
    ASSUME QueryTypeOK, NEW h \in Handlers, NEW result, obj[h] # NoObj, Add(h, result)
    PROVE  QueryTypeOK' /\ Written(h)
<1>1. h \in Callers
    BY HandlersQuery
<1>2. CASE InMemoryAdd(h, result)
    BY <1>1, <1>2, SucceedsType DEF InMemoryAdd, Written
<1>3. CASE MongoAdd(h, result)
    BY <1>1, <1>3, SucceedsType, FailureType DEF MongoAdd, Written
<1>4. CASE CassandraAdd(h, result)
    BY <1>1, <1>4, ExecType DEF CassandraAdd, Written
<1> QED
    BY <1>2, <1>3, <1>4 DEF Add

LEMMA SaveEffect ==
    ASSUME QueryTypeOK, NEW h \in Handlers, NEW result, obj[h] # NoObj, Save(h, result)
    PROVE  QueryTypeOK' /\ Written(h)
<1>1. h \in Callers
    BY HandlersQuery
<1>2. CASE InMemorySave(h, result)
    BY <1>1, <1>2, SucceedsType DEF InMemorySave, Written
<1>3. CASE MongoSave(h, result)
    BY <1>1, <1>3, SucceedsType, FailureType DEF MongoSave, Written
<1>4. CASE CassandraSave(h, result)
    BY <1>1, <1>4, ExecType DEF CassandraSave, Written
<1> QED
    BY <1>2, <1>3, <1>4 DEF Save

LEMMA RemoveEffect ==
    ASSUME QueryTypeOK, NEW h \in Handlers, NEW result, req[h].op = "delete", Remove(h, result)
    PROVE  QueryTypeOK' /\ Written(h)
<1>1. h \in Callers
    BY HandlersQuery
<1>2. CASE InMemoryRemove(h, result)
    BY <1>1, <1>2, SucceedsType DEF InMemoryRemove, Written
<1>3. CASE MongoRemove(h, result)
    BY <1>1, <1>3, SucceedsType, FailureType DEF MongoRemove, Written
<1>4. CASE CassandraRemove(h, result)
    BY <1>1, <1>4, ExecType DEF CassandraRemove, Written
<1> QED
    BY <1>2, <1>3, <1>4 DEF Remove

\* What is found is there.
LEMMA FindEffect ==
    ASSUME QueryTypeOK, NEW c \in Callers, NEW n \in Names, NEW result, FindByName(c, n, result)
    PROVE  QueryTypeOK' /\ (result = "found" => servers[n] # NoObj)
<1>1. CASE InMemoryFind(c, n, result)
    BY <1>1, SucceedsType DEF InMemoryFind
<1>2. CASE MongoFind(c, n, result)
    BY <1>1, <1>2, FailureType DEF MongoFind
<1>3. CASE CassandraFind(c, n, result)
    BY <1>3, ScanType DEF CassandraFind, Scan
<1> QED
    BY <1>1, <1>2, <1>3 DEF FindByName

LEMMA FindAllEffect ==
    ASSUME QueryTypeOK, NEW result, FindAll(result)
    PROVE  QueryTypeOK'
<1>1. CASE InMemoryFindAll(result)
    BY <1>1, HandlersQuery, SucceedsType DEF InMemoryFindAll
<1>2. CASE MongoFindAll(result)
    BY <1>1, <1>2, FailureType DEF MongoFindAll
<1>3. CASE ScanAndClose(Loader, result)
    BY <1>3, HandlersQuery, ScanAndCloseType
<1> QED
    BY <1>1, <1>2, <1>3 DEF FindAll

\* A handler writes, and keeps its server or lets go of it.
LEMMA WrittenOK ==
    ASSUME TypeInv, UNCHANGED <<tokens, load, guard, visit>>, NEW h \in Handlers, Written(h),
           req[h].op = "delete" => req[h].name \in Names,
           Elems(obj') \subseteq Elems(obj) \union {NoObj}
    PROVE  servers' \in [Names -> Objs \union {NoObj}] /\ HeapOK'
<1>1. /\ servers \in [Names -> Objs \union {NoObj}] /\ HeapOK
      /\ obj \in [Handlers -> Objs \union {NoObj}]
    BY DEF TypeInv, StoreOK, HandlersOK
<1>2. DOMAIN heap = Live /\ \A o \in Live : heap[o] \in Server
    BY <1>1 DEF HeapOK
<1>3. obj[h] # NoObj => obj[h] \in Live /\ obj[h] \in Elems(obj) /\ heap[obj[h]].name \in Names
    <2>1. obj[h] # NoObj => obj[h] \in Live /\ obj[h] \in Elems(obj)
        BY <1>1, Reached DEF Elems
    <2> QED
        BY <1>2, <2>1 DEF Server
<1>4. CASE NoWrite
    <2>1. UNCHANGED servers /\ Collect(heap)
        BY <1>4 DEF NoWrite
    <2>2. Live' \subseteq Live \union {}
        BY <2>1, LiveHandlers
    <2> QED
        BY <1>1, <1>2, <2>1, <2>2, CollectOK
<1>5. CASE obj[h] # NoObj /\ Upsert(h)
    <2> DEFINE name == heap[obj[h]].name
               content == Row(heap[obj[h]])
    <2>1. servers' = [servers EXCEPT ![name] = Fresh] /\ Collect(With(Fresh, content))
        BY <1>5 DEF Upsert, Store
    <2>2. name \in Names /\ content \in Server
        BY <1>2, <1>3, <1>5, RowType
    <2> HIDE DEF name, content
    <2>3. Fresh \in Objs
        BY FreshIsFree
    <2>4. Elems(servers') \subseteq Elems(servers) \union {Fresh}
        BY <2>1, ElemsExcept
    <2>5. Live' \subseteq Live \union {Fresh}
        BY <2>4, LiveHandlers
    <2>6. HeapOK'
        <3> DEFINE more == With(Fresh, content)
        <3>1. DOMAIN more = Live \union {Fresh} /\ \A x \in DOMAIN more : more[x] \in Server
            BY <1>1, <2>2, WithOK
        <3>2. Collect(more)
            BY <2>1
        <3> HIDE DEF more
        <3> QED
            BY <2>5, <3>1, <3>2, CollectOK
    <2> QED
        BY <1>1, <2>1, <2>3, <2>6
<1>6. CASE obj[h] # NoObj /\ Store(heap[obj[h]].name, obj[h]) /\ Collect(heap)
    <2> DEFINE name == heap[obj[h]].name
    <2>1. servers' = [servers EXCEPT ![name] = obj[h]] /\ Collect(heap)
        BY <1>6 DEF Store
    <2> HIDE DEF name
    <2>2. Elems(servers') \subseteq Elems(servers) \union {obj[h]}
        BY <2>1, ElemsExcept
    <2>3. Live' \subseteq Live \union {}
        BY <1>3, <1>6, <2>2, LiveHandlers
    <2>4. HeapOK'
        BY <1>2, <2>1, <2>3, CollectOK
    <2> QED
        BY <1>1, <2>1, <2>4
<1>7. CASE req[h].op = "delete" /\ Delete(h)
    <2>1. servers' = [servers EXCEPT ![req[h].name] = NoObj] /\ Collect(heap)
        BY <1>7 DEF Delete, Store
    <2>2. Elems(servers') \subseteq Elems(servers) \union {NoObj}
        BY <2>1, ElemsExcept
    <2>3. Live' \subseteq Live \union {}
        BY <2>2, LiveHandlers
    <2>4. HeapOK'
        BY <1>2, <2>1, <2>3, CollectOK
    <2> QED
        BY <1>1, <2>1, <2>4
<1> QED
    BY <1>4, <1>5, <1>6, <1>7 DEF Written

----------------------------------------------------------------------------
(* The handlers.                                                           *)

LEMMA RequestType ==
    ASSUME NEW q \in Requests
    PROVE  /\ q.op \in {"post", "put", "delete"}
           /\ q.op = "post" => q.body \in Server
           /\ q.op = "put" => q.name \in Names /\ IsBody(q.body)
           /\ q.op = "delete" => q.name \in Names
BY RequestsAssumption

LEMMA RowOfRequest ==
    ASSUME HandlersOK, NEW h \in Handlers, at[h] = "add"
    PROVE  req[h].body \in Server /\ req[h].body.name \in Names /\ Row(req[h].body) \in Server
<1>1. req[h] \in Requests /\ req[h].op = "post"
    BY DEF HandlersOK
<1>2. req[h].body \in Server
    BY <1>1, RequestType
<1> QED
    BY <1>2, RowType DEF Server

LEMMA AnswerOK ==
    ASSUME HandlersOK, UNCHANGED backend, NEW h \in Handlers, Answer(h)
    PROVE  HandlersOK' /\ Elems(obj') \subseteq Elems(obj) \union {NoObj}
<1>1. /\ req' = [req EXCEPT ![h] = NoRequest] /\ at' = [at EXCEPT ![h] = "idle"]
      /\ obj' = [obj EXCEPT ![h] = NoObj] /\ alone' = [alone EXCEPT ![h] = FALSE]
      /\ UNCHANGED ops
    BY DEF Answer
<1>2. Elems(obj') \subseteq Elems(obj) \union {NoObj}
    BY <1>1, ElemsExcept
<1>3. \A g \in Handlers \ {h} :
        req'[g] = req[g] /\ at'[g] = at[g] /\ obj'[g] = obj[g] /\ alone'[g] = alone[g]
    BY <1>1 DEF HandlersOK
<1>4. req'[h] = NoRequest /\ at'[h] = "idle" /\ obj'[h] = NoObj /\ alone'[h] = FALSE
    BY <1>1 DEF HandlersOK
<1>5. /\ req' \in [Handlers -> Requests \union {NoRequest}]
      /\ at' \in [Handlers -> {"idle", "find", "decode", "decoding", "add", "save", "remove"}]
      /\ obj' \in [Handlers -> Objs \union {NoObj}]
      /\ alone' \in [Handlers -> BOOLEAN]
    BY <1>1 DEF HandlersOK
<1>6. NoRequest.op = "none"
    BY DEF NoRequest
<1>7. ops' \in 0 .. MaxOps[backend]'
    BY <1>1 DEF HandlersOK
<1>8. ASSUME NEW g \in Handlers
      PROVE  /\ at'[g] # "idle" => req'[g] \in Requests
             /\ at'[g] \in {"add", "decode", "decoding", "save"} <=> obj'[g] # NoObj
             /\ at'[g] \in {"find", "decode", "decoding", "save"} => req'[g].op = "put"
             /\ at'[g] = "remove" => req'[g].op = "delete"
             /\ at'[g] = "add" <=> req'[g].op = "post"
    <2>1. CASE g = h
        BY <1>4, <1>6, <2>1
    <2>2. CASE g # h
        BY <1>3, <2>2 DEF HandlersOK
    <2> QED
        BY <2>1, <2>2
<1> QED
    BY <1>2, <1>5, <1>7, <1>8 DEF HandlersOK

\* A handler goes on with its server, or with the one that it has found.
LEMMA GoOnOK ==
    ASSUME HandlersOK, UNCHANGED backend, NEW h \in Handlers, NEW next, GoOn(h, next),
           \/ UNCHANGED obj /\ <<at[h], next>> \in {<<"find", "find">>, <<"add", "add">>,
                                    <<"save", "save">>, <<"remove", "remove">>,
                                    <<"decode", "decoding">>, <<"decoding", "save">>}
           \/ /\ at[h] = "find" /\ next = "decode"
              /\ \E o \in Objs : obj' = [obj EXCEPT ![h] = o]
    PROVE  HandlersOK'
<1>1. at' = [at EXCEPT ![h] = next] /\ UNCHANGED <<req, ops, alone>>
    BY DEF GoOn
<1>2. NoObj \notin Objs
    BY ObjsFinite
<1>3. /\ obj' \in [Handlers -> Objs \union {NoObj}]
      /\ at' \in [Handlers -> {"idle", "find", "decode", "decoding", "add", "save", "remove"}]
    BY <1>1 DEF HandlersOK
<1>4. \A g \in Handlers \ {h} : at'[g] = at[g] /\ obj'[g] = obj[g]
    BY <1>1 DEF HandlersOK
<1>5. at'[h] = next /\ (obj'[h] = obj[h] \/ (next = "decode" /\ obj'[h] # NoObj))
    BY <1>1, <1>2 DEF HandlersOK
<1>6. /\ ops' \in 0 .. MaxOps[backend'] /\ alone' \in [Handlers -> BOOLEAN]
      /\ req' \in [Handlers -> Requests \union {NoRequest}]
    BY <1>1 DEF HandlersOK
<1> DEFINE Fits(op, a, o) ==
             /\ a \in {"add", "decode", "decoding", "save"} <=> o # NoObj
             /\ a \in {"find", "decode", "decoding", "save"} => op = "put"
             /\ a = "remove" => op = "delete"
             /\ a = "add" <=> op = "post"
<1>7. Fits(req[h].op, at[h], obj[h])
    BY DEF HandlersOK
<1>8. at[h] # "idle" /\ next # "idle" /\ Fits(req[h].op, next, obj'[h])
    <2>1. ASSUME UNCHANGED obj,
                 \/ at[h] = "find" /\ next = "find"
                 \/ at[h] = "add" /\ next = "add"
                 \/ at[h] = "save" /\ next = "save"
                 \/ at[h] = "remove" /\ next = "remove"
                 \/ at[h] = "decode" /\ next = "decoding"
                 \/ at[h] = "decoding" /\ next = "save"
          PROVE  at[h] # "idle" /\ next # "idle" /\ Fits(req[h].op, next, obj[h])
        BY <1>7, <2>1
    <2>2. ASSUME at[h] = "find", next = "decode", NEW o \in Objs
          PROVE  Fits(req[h].op, next, o)
        BY <1>2, <1>7, <2>2
    <2>3. ASSUME NEW o \in Objs, obj' = [obj EXCEPT ![h] = o]
          PROVE  obj'[h] = o
        BY <2>3 DEF HandlersOK
    <2> HIDE DEF Fits
    <2>4. CASE UNCHANGED obj /\ <<at[h], next>> \in {<<"find", "find">>, <<"add", "add">>,
                                    <<"save", "save">>, <<"remove", "remove">>,
                                    <<"decode", "decoding">>, <<"decoding", "save">>}
        BY <2>1, <2>4
    <2>5. CASE at[h] = "find" /\ next = "decode" /\ \E o \in Objs : obj' = [obj EXCEPT ![h] = o]
        BY <2>2, <2>3, <2>5
    <2> QED
        BY <2>4, <2>5
<1>9. \A g \in Handlers : at'[g] # "idle" => req'[g] \in Requests
    BY <1>1, <1>4, <1>5, <1>8 DEF HandlersOK
<1>10. \A g \in Handlers : Fits(req'[g].op, at'[g], obj'[g])
    <2>1. \A g \in Handlers \ {h} : Fits(req[g].op, at[g], obj[g])
        BY DEF HandlersOK
    <2> HIDE DEF Fits
    <2> QED
        BY <1>1, <1>4, <1>5, <1>8, <2>1
<1> QED
    BY <1>3, <1>6, <1>9, <1>10 DEF HandlersOK

\* What a step of a handler keeps.
HandlerOK ==
    /\ QueryTypeOK' /\ HeapOK' /\ HandlersOK'
    /\ servers' \in [Names -> Objs \union {NoObj}]
    /\ posted' \in [Names -> Server \union {NoServer}]

Aside == UNCHANGED <<backend, tokens, load, guard, visit>>

LEMMA PostOK ==
    ASSUME TypeInv, Aside, NEW h \in Handlers, Post(h)
    PROVE  HandlerOK
<1>1. /\ QueryTypeOK /\ HandlersOK /\ at[h] = "add" /\ obj[h] # NoObj /\ req[h].op # "delete"
      /\ posted \in [Names -> Server \union {NoServer}]
    BY DEF TypeInv, StoreOK, HistoryOK, HandlersOK, Post
<1>2. PICK result \in {"ok", "error", "again"} :
         /\ IF result = "again" THEN GoOn(h, "add") /\ UNCHANGED obj ELSE Answer(h)
         /\ posted' = IF result = "ok" /\ alone[h] /\ posted[req[h].body.name] = NoServer
                      THEN [posted EXCEPT ![req[h].body.name] = Row(req[h].body)]
                      ELSE posted
         /\ Add(h, result)
    BY DEF Post
<1>3. QueryTypeOK' /\ Written(h)
    BY <1>1, <1>2, AddEffect
<1>4. HandlersOK' /\ Elems(obj') \subseteq Elems(obj) \union {NoObj}
    <2>1. CASE result = "again"
        BY <1>1, <1>2, <2>1, GoOnOK DEF Aside
    <2>2. CASE result # "again"
        BY <1>1, <1>2, <2>2, AnswerOK DEF Aside
    <2> QED
        BY <2>1, <2>2
<1>5. posted' \in [Names -> Server \union {NoServer}]
    BY <1>1, <1>2, RowOfRequest
<1>6. servers' \in [Names -> Objs \union {NoObj}] /\ HeapOK'
    BY <1>1, <1>3, <1>4, WrittenOK DEF Aside
<1> QED
    BY <1>3, <1>4, <1>5, <1>6 DEF HandlerOK

LEMMA PutSaveOK ==
    ASSUME TypeInv, Aside, NEW h \in Handlers, PutSave(h)
    PROVE  HandlerOK
<1>1. /\ QueryTypeOK /\ HandlersOK /\ at[h] = "save" /\ obj[h] # NoObj /\ req[h].op # "delete"
      /\ posted \in [Names -> Server \union {NoServer}] /\ UNCHANGED posted
    BY DEF TypeInv, StoreOK, HistoryOK, HandlersOK, PutSave
<1>2. PICK result \in {"ok", "error", "again"} :
         /\ IF result = "again" THEN GoOn(h, "save") /\ UNCHANGED obj ELSE Answer(h)
         /\ Save(h, result)
    BY DEF PutSave
<1>3. QueryTypeOK' /\ Written(h)
    BY <1>1, <1>2, SaveEffect
<1>4. HandlersOK' /\ Elems(obj') \subseteq Elems(obj) \union {NoObj}
    <2>1. CASE result = "again"
        BY <1>1, <1>2, <2>1, GoOnOK DEF Aside
    <2>2. CASE result # "again"
        BY <1>1, <1>2, <2>2, AnswerOK DEF Aside
    <2> QED
        BY <2>1, <2>2
<1>5. servers' \in [Names -> Objs \union {NoObj}] /\ HeapOK'
    BY <1>1, <1>3, <1>4, WrittenOK DEF Aside
<1> QED
    BY <1>1, <1>3, <1>4, <1>5 DEF HandlerOK

LEMMA DeleteByOK ==
    ASSUME TypeInv, Aside, NEW h \in Handlers, DeleteBy(h)
    PROVE  HandlerOK
<1>1. /\ QueryTypeOK /\ HandlersOK /\ at[h] = "remove"
      /\ req[h] \in Requests /\ req[h].op = "delete"
      /\ posted \in [Names -> Server \union {NoServer}] /\ UNCHANGED posted
    BY DEF TypeInv, StoreOK, HistoryOK, HandlersOK, DeleteBy
<1>2. PICK result \in {"ok", "error", "again"} :
         /\ IF result = "again" THEN GoOn(h, "remove") /\ UNCHANGED obj ELSE Answer(h)
         /\ Remove(h, result)
    BY DEF DeleteBy
<1>3. QueryTypeOK' /\ Written(h) /\ req[h].name \in Names
    BY <1>1, <1>2, RemoveEffect, RequestType
<1>4. HandlersOK' /\ Elems(obj') \subseteq Elems(obj) \union {NoObj}
    <2>1. CASE result = "again"
        BY <1>1, <1>2, <2>1, GoOnOK DEF Aside
    <2>2. CASE result # "again"
        BY <1>1, <1>2, <2>2, AnswerOK DEF Aside
    <2> QED
        BY <2>1, <2>2
<1>5. servers' \in [Names -> Objs \union {NoObj}] /\ HeapOK'
    BY <1>3, <1>4, WrittenOK DEF Aside
<1> QED
    BY <1>1, <1>3, <1>4, <1>5 DEF HandlerOK

\* A handler takes a new object, or one that is there.
LEMMA TakeOK ==
    ASSUME TypeInv, Aside, UNCHANGED servers, NEW h \in Handlers,
           \/ \E content \in Server : /\ obj' = [obj EXCEPT ![h] = Fresh]
                                      /\ Collect(With(Fresh, content))
           \/ /\ \E o \in Elems(servers) \union {NoObj} : obj' = [obj EXCEPT ![h] = o]
              /\ Collect(heap)
    PROVE  HeapOK'
<1>1. HeapOK /\ DOMAIN heap = Live /\ \A o \in Live : heap[o] \in Server
    BY DEF TypeInv, HeapOK
<1>2. ASSUME NEW content \in Server, obj' = [obj EXCEPT ![h] = Fresh],
             Collect(With(Fresh, content))
      PROVE  HeapOK'
    <2>1. Elems(obj') \subseteq Elems(obj) \union {Fresh}
        BY <1>2, ElemsExcept
    <2>2. Live' \subseteq Live \union {Fresh}
        BY <2>1, LiveHandlers DEF Aside
    <2> QED
        BY <1>1, <1>2, <2>2, WithOK, CollectOK
<1>3. ASSUME NEW o \in Elems(servers) \union {NoObj}, obj' = [obj EXCEPT ![h] = o], Collect(heap)
      PROVE  HeapOK'
    <2>1. Elems(obj') \subseteq Elems(obj) \union {o}
        BY <1>3, ElemsExcept
    <2>2. Live' \subseteq Live \union {}
        BY <2>1, LiveHandlers DEF Aside
    <2> QED
        BY <1>1, <1>3, <2>2, CollectOK
<1> QED
    BY <1>2, <1>3

LEMMA SameHeapOK ==
    ASSUME HeapOK, Live' = Live, UNCHANGED heap
    PROVE  HeapOK'
BY DEF HeapOK

LEMMA LiveSame ==
    ASSUME UNCHANGED <<servers, obj, tokens, load, guard, visit>>
    PROVE  Live' = Live
BY DEF Live, Elems, ServerOf

LEMMA PutFindOK ==
    ASSUME TypeInv, Aside, NEW h \in Handlers, PutFind(h)
    PROVE  HandlerOK
<1>1. /\ QueryTypeOK /\ HandlersOK /\ HeapOK /\ at[h] = "find"
      /\ servers \in [Names -> Objs \union {NoObj}] /\ UNCHANGED servers
      /\ req[h] \in Requests /\ req[h].op = "put"
      /\ posted \in [Names -> Server \union {NoServer}] /\ UNCHANGED posted
    BY DEF TypeInv, StoreOK, HistoryOK, HandlersOK, PutFind
<1> DEFINE o == servers[req[h].name]
<1>2. PICK result \in {"found", "not found", "error", "again"} :
         /\ FindByName(h, req[h].name, result)
         /\ \/ result = "again" /\ GoOn(h, "find") /\ UNCHANGED <<obj, heap>>
            \/ /\ result = "found"
               /\ GoOn(h, "decode")
               /\ IF backend = "memory"
                  THEN obj' = [obj EXCEPT ![h] = o] /\ UNCHANGED heap
                  ELSE /\ obj' = [obj EXCEPT ![h] = Fresh]
                       /\ Collect(With(Fresh, heap[o]))
            \/ result \in {"not found", "error"} /\ Answer(h) /\ UNCHANGED heap
    BY DEF PutFind
<1>3. h \in Callers /\ req[h].name \in Names
    BY <1>1, HandlersQuery, RequestType
<1>4. QueryTypeOK' /\ (result = "found" => o # NoObj)
    BY <1>1, <1>2, <1>3, FindEffect
<1>5. o \in Elems(servers) /\ (o # NoObj => o \in Objs /\ o \in Live /\ heap[o] \in Server)
    BY <1>1, <1>3, Reached DEF Elems, HeapOK
<1> HIDE DEF o
<1>6. ASSUME result = "again", GoOn(h, "find"), UNCHANGED <<obj, heap>>
      PROVE  HandlersOK' /\ HeapOK'
    <2>1. HandlersOK'
        BY <1>1, <1>6, GoOnOK DEF Aside
    <2>2. HeapOK'
        BY <1>1, <1>6, LiveSame, SameHeapOK DEF Aside
    <2> QED
        BY <2>1, <2>2
<1>7. ASSUME result = "found", GoOn(h, "decode"), backend = "memory",
             obj' = [obj EXCEPT ![h] = o], UNCHANGED heap
      PROVE  HandlersOK' /\ HeapOK'
    <2>1. HandlersOK'
        BY <1>1, <1>4, <1>5, <1>7, GoOnOK DEF Aside
    <2>2. Live' \subseteq Live /\ Live \subseteq Live'
        <3>1. Elems(obj') \subseteq Elems(obj) \union {o}
            BY <1>7, ElemsExcept
        <3>2. Live' \subseteq Live \union {}
            BY <1>1, <1>5, <3>1, LiveHandlers DEF Aside
        <3>3. obj[h] = NoObj
            BY <1>1 DEF HandlersOK
        <3>4. Elems(obj) \subseteq Elems(obj') \union {NoObj}
            BY <1>1, <1>7, <3>3 DEF Elems, HandlersOK
        <3>5. Elems(servers') = Elems(servers)
            BY <1>1
        <3>6. Live \subseteq Live'
            BY <3>4, <3>5, LiveKept DEF Aside
        <3> QED
            BY <3>2, <3>6
    <2>3. HeapOK'
        BY <1>1, <1>7, <2>2, SameHeapOK
    <2> QED
        BY <2>1, <2>3
<1>8. ASSUME result = "found", GoOn(h, "decode"), obj' = [obj EXCEPT ![h] = Fresh],
             Collect(With(Fresh, heap[o]))
      PROVE  HandlersOK' /\ HeapOK'
    <2>1. Fresh \in Objs
        BY FreshIsFree
    <2>2. HandlersOK'
        BY <1>1, <1>8, <2>1, GoOnOK DEF Aside
    <2>3. HeapOK'
        BY <1>1, <1>4, <1>5, <1>8, TakeOK
    <2> QED
        BY <2>2, <2>3
<1>9. ASSUME Answer(h), UNCHANGED heap
      PROVE  HandlersOK' /\ HeapOK'
    <2>1. HandlersOK'
        BY <1>1, <1>9, AnswerOK DEF Aside
    <2>2. obj' = obj
        BY <1>1, <1>9 DEF HandlersOK, Answer
    <2>3. HeapOK'
        BY <1>1, <1>9, <2>2, LiveSame, SameHeapOK DEF Aside
    <2> QED
        BY <2>1, <2>3
<1>10. HandlersOK' /\ HeapOK'
    BY <1>2, <1>6, <1>7, <1>8, <1>9
<1> QED
    BY <1>1, <1>4, <1>10 DEF HandlerOK

LEMMA PutDecodeOK ==
    ASSUME TypeInv, Aside, NEW h \in Handlers, PutDecode(h)
    PROVE  HandlerOK
<1>1. /\ QueryTypeOK /\ HandlersOK /\ HeapOK /\ at[h] = "decode" /\ obj[h] # NoObj
      /\ servers \in [Names -> Objs \union {NoObj}] /\ UNCHANGED <<servers, obj>>
      /\ req[h] \in Requests /\ req[h].op = "put"
      /\ posted \in [Names -> Server \union {NoServer}] /\ UNCHANGED <<posted, queryVars>>
      /\ GoOn(h, "decoding") /\ Collect(With(obj[h], Decoded(heap[obj[h]], req[h].body)))
    BY DEF TypeInv, StoreOK, HistoryOK, HandlersOK, PutDecode
<1>2. QueryTypeOK'
    BY <1>1 DEF QueryTypeOK, queryVars
<1>3. HandlersOK'
    BY <1>1, GoOnOK DEF Aside
<1>4. obj[h] \in Live
    BY <1>1, Reached DEF HandlersOK
<1>5. Decoded(heap[obj[h]], req[h].body) \in Server
    BY <1>1, <1>4, RequestType, DecodedType DEF HeapOK
<1>6. Live' = Live
    BY <1>1, LiveSame DEF Aside
<1>7. HeapOK'
    <2> DEFINE content == Decoded(heap[obj[h]], req[h].body)
    <2>1. /\ DOMAIN With(obj[h], content) = Live \union {obj[h]}
          /\ \A x \in Live \union {obj[h]} : With(obj[h], content)[x] \in Server
        BY <1>1, <1>5, WithOK
    <2> HIDE DEF content
    <2> QED
        BY <1>1, <1>6, <2>1, CollectOK DEF content
<1> QED
    BY <1>1, <1>2, <1>3, <1>7 DEF HandlerOK

LEMMA PutDecodedOK ==
    ASSUME TypeInv, Aside, NEW h \in Handlers, PutDecoded(h)
    PROVE  HandlerOK
<1>1. /\ QueryTypeOK /\ HandlersOK /\ HeapOK /\ at[h] = "decoding"
      /\ servers \in [Names -> Objs \union {NoObj}] /\ UNCHANGED servers
      /\ posted \in [Names -> Server \union {NoServer}] /\ UNCHANGED <<posted, queryVars>>
      /\ Collect(heap) /\ (Answer(h) \/ (GoOn(h, "save") /\ UNCHANGED obj))
    BY DEF TypeInv, StoreOK, HistoryOK, PutDecoded
<1>2. QueryTypeOK'
    BY <1>1 DEF QueryTypeOK, queryVars
<1>3. HandlersOK' /\ Elems(obj') \subseteq Elems(obj) \union {NoObj}
    <2>1. CASE Answer(h)
        BY <1>1, <2>1, AnswerOK DEF Aside
    <2>2. CASE GoOn(h, "save") /\ UNCHANGED obj
        BY <1>1, <2>2, GoOnOK DEF Aside
    <2> QED
        BY <1>1, <2>1, <2>2
<1>4. Live' \subseteq Live \union {}
    BY <1>1, <1>3, LiveHandlers DEF Aside
<1>5. HeapOK'
    BY <1>1, <1>4, CollectOK DEF HeapOK
<1> QED
    BY <1>1, <1>2, <1>3, <1>5 DEF HandlerOK

LEMMA BeginOK ==
    ASSUME TypeInv, Aside, NEW h \in Handlers, NEW q \in Requests, Begin(h, q)
    PROVE  HandlerOK
<1>1. /\ QueryTypeOK /\ HandlersOK /\ HeapOK /\ at[h] = "idle" /\ backend \in Backends
      /\ servers \in [Names -> Objs \union {NoObj}] /\ UNCHANGED servers
      /\ posted \in [Names -> Server \union {NoServer}] /\ UNCHANGED queryVars
    BY DEF TypeInv, StoreOK, HistoryOK, Begin
<1> DEFINE next == CASE q.op = "post" -> "add" [] q.op = "put" -> "find"
                     [] q.op = "delete" -> "remove"
<1>2. /\ ops < MaxOps[backend] /\ ops' = ops + 1
      /\ req' = [req EXCEPT ![h] = q] /\ at' = [at EXCEPT ![h] = next]
      /\ IF q.op = "post"
         THEN obj' = [obj EXCEPT ![h] = Fresh] /\ Collect(With(Fresh, q.body))
         ELSE UNCHANGED <<obj, heap>>
      /\ alone' = [g \in Handlers |->
                     IF g = h THEN \A f \in Handlers \ {h} : ~Overlap(q, req[f])
                     ELSE alone[g] /\ ~Overlap(q, req[g])]
      /\ posted' = [n \in Names |->
                      IF q.op # "post" \/ (backend = "cassandra" /\ q.body.name = n) THEN NoServer
                      ELSE posted[n]]
    BY DEF Begin
<1>3. q.op \in {"post", "put", "delete"} /\ (q.op = "post" => q.body \in Server)
    BY RequestType
<1>4. /\ q.op = "post" => next = "add"
      /\ q.op = "put" => next = "find"
      /\ q.op = "delete" => next = "remove"
    BY <1>3
<1> HIDE DEF next
<1>5. QueryTypeOK'
    BY <1>1 DEF QueryTypeOK, queryVars
<1>6. posted' \in [Names -> Server \union {NoServer}]
    BY <1>1, <1>2
<1>7. alone' \in [Handlers -> BOOLEAN]
    BY <1>1, <1>2 DEF HandlersOK
<1>8. ops' \in 0 .. MaxOps[backend']
    BY <1>1, <1>2, SetsAssumption DEF HandlersOK, Aside
<1>9. Fresh \in Objs /\ Fresh # NoObj
    BY FreshIsFree
<1>10. obj[h] = NoObj
    BY <1>1 DEF HandlersOK
<1>11. obj' \in [Handlers -> Objs \union {NoObj}] /\ (obj'[h] # NoObj <=> q.op = "post")
    BY <1>1, <1>2, <1>9, <1>10 DEF HandlersOK
<1>12. \A g \in Handlers \ {h} : req'[g] = req[g] /\ at'[g] = at[g] /\ obj'[g] = obj[g]
    BY <1>1, <1>2 DEF HandlersOK
<1>13. req'[h] = q /\ at'[h] = next
    BY <1>1, <1>2 DEF HandlersOK
<1>14. /\ req' \in [Handlers -> Requests \union {NoRequest}]
       /\ at' \in [Handlers -> {"idle", "find", "decode", "decoding", "add", "save", "remove"}]
    BY <1>1, <1>2, <1>3, <1>4 DEF HandlersOK
<1> DEFINE Fits(r, a, o) ==
             /\ a # "idle" => r \in Requests
             /\ a \in {"add", "decode", "decoding", "save"} <=> o # NoObj
             /\ a \in {"find", "decode", "decoding", "save"} => r.op = "put"
             /\ a = "remove" => r.op = "delete"
             /\ a = "add" <=> r.op = "post"
<1>15. \A g \in Handlers \ {h} : Fits(req[g], at[g], obj[g])
    BY <1>1 DEF HandlersOK
<1>16. Fits(q, next, obj'[h])
    BY <1>3, <1>4, <1>11
<1> HIDE DEF Fits
<1>17. \A g \in Handlers : Fits(req'[g], at'[g], obj'[g])
    BY <1>12, <1>13, <1>15, <1>16
<1>18. HandlersOK'
    BY <1>7, <1>8, <1>11, <1>14, <1>17 DEF HandlersOK, Fits
<1>19. HeapOK'
    <2>1. CASE q.op = "post"
        BY <1>1, <1>2, <1>3, <2>1, TakeOK
    <2>2. CASE q.op # "post"
        BY <1>1, <1>2, <2>2, LiveSame, SameHeapOK DEF Aside
    <2> QED
        BY <2>1, <2>2
<1> QED
    BY <1>1, <1>5, <1>6, <1>18, <1>19 DEF HandlerOK

LEMMA HistoryType ==
    ASSUME TypeInv, History
    PROVE  quiet' \in BOOLEAN /\ mustDeny' \in [Visits -> BOOLEAN]
<1>1. mustDeny \in [Visits -> BOOLEAN] /\ quiet \in BOOLEAN
    BY DEF TypeInv, HistoryOK
<1>2. quiet' \in BOOLEAN
    BY <1>1 DEF History
<1>3. ASSUME NEW v \in Visits
      PROVE  /\ FirstDenies(v)' \in BOOLEAN
             /\ (mustDeny[v] /\ (visit'[v].at \in Ended \/ FirstDenies(v)')) \in BOOLEAN
    BY DEF FirstDenies
<1>4. mustDeny' \in [Visits -> BOOLEAN]
    BY <1>3 DEF History
<1> QED
    BY <1>2, <1>4

LEMMA HandlerStepOK ==
    ASSUME TypeInv, NEW h \in Handlers, HandlerStep(h), UNCHANGED backend, History
    PROVE  TypeInv'
<1>1. Aside /\ UNCHANGED <<loads, up, lookedUp>>
    BY DEF Aside, HandlerStep, routeVars
<1>2. HandlerOK
    BY <1>1, PostOK, PutFindOK, PutDecodeOK, PutDecodedOK, PutSaveOK, DeleteByOK, BeginOK
    DEF HandlerStep
<1>3. RoutesOK' /\ VisitsOK'
    BY <1>1 DEF TypeInv, RoutesOK, VisitsOK, Aside
<1>4. HistoryOK'
    BY <1>1, <1>2, HistoryType DEF TypeInv, HistoryOK, HandlerOK
<1>5. StoreOK'
    BY <1>1, <1>2 DEF TypeInv, StoreOK, HandlerOK, Aside
<1> QED
    BY <1>2, <1>3, <1>4, <1>5 DEF TypeInv, HandlerOK

----------------------------------------------------------------------------
(* The load.                                                               *)

\* What a load reaches: what was reached, and what it has made.
LEMMA LiveLoad ==
    ASSUME UNCHANGED <<servers, obj, visit>>, NEW X,
           tokens' \subseteq Live \union X, load'.tokens \subseteq Live \union X,
           ServerOf(guard') \subseteq Live \union X, ServerOf(load'.guard) \subseteq Live \union X
    PROVE  Live' \subseteq Live \union X
<1> DEFINE rest == Elems(servers) \union Elems(obj)
                     \union UNION {ServerOf(visit[v].guard) : v \in Visits}
<1>1. rest \ {NoObj} \subseteq Live
    BY DEF Live
<1>2. Live' = (rest \union tokens' \union load'.tokens \union ServerOf(guard')
                 \union ServerOf(load'.guard)) \ {NoObj}
    BY DEF Live, Elems, ServerOf
<1> HIDE DEF rest
<1> QED
    BY <1>1, <1>2

LEMMA RoutesReached ==
    ASSUME TypeInv
    PROVE  /\ tokens \subseteq Live /\ load.tokens \subseteq Live
           /\ ServerOf(guard) \subseteq Live /\ ServerOf(load.guard) \subseteq Live
<1>1. NoObj \notin tokens /\ NoObj \notin load.tokens
    BY ObjsFinite DEF TypeInv, RoutesOK
<1>2. \A g \in Guard : ServerOf(g) \subseteq Objs
    BY DEF Guard, ServerOf, NoRoute, Open
<1>3. NoObj \notin ServerOf(guard) /\ NoObj \notin ServerOf(load.guard)
    BY <1>2, ObjsFinite DEF TypeInv, RoutesOK
<1> QED
    BY <1>1, <1>3 DEF Live

LEMMA GuardType ==
    /\ NoRoute \in Guard /\ Open \in Guard /\ ServerOf(NoRoute) = {} /\ ServerOf(Open) = {}
    /\ \A o \in Objs, c \in Server : GuardOf(o, c) \in Guard /\ ServerOf(GuardOf(o, c)) \subseteq {o}
<1>1. NoRoute \in Guard /\ Open \in Guard /\ ServerOf(NoRoute) = {} /\ ServerOf(Open) = {}
    BY DEF Guard, ServerOf, NoRoute, Open
<1>2. ASSUME NEW o \in Objs, NEW c \in Server, Guards(c)
      PROVE  GuardOf(o, c) \in Guard /\ ServerOf(GuardOf(o, c)) \subseteq {o}
    <2>1. c.strategy \in {"jwt", "introspection"} /\ SigningKeys(c) \subseteq Keys
        BY <1>2 DEF Guards, Builds, Known, SigningKeys, Server
    <2>2. Len(c.rules) \in Nat /\ (c.strategy = "jwt" \/ c.settings # "nil") \in BOOLEAN
        BY DEF Server
    <2> QED
        BY <1>2, <2>1, <2>2 DEF Guard, GuardOf, ServerOf
<1>3. ASSUME NEW o \in Objs, NEW c \in Server, ~Guards(c)
      PROVE  GuardOf(o, c) \in Guard /\ ServerOf(GuardOf(o, c)) \subseteq {o}
    BY <1>1, <1>3 DEF GuardOf
<1> QED
    BY <1>1, <1>2, <1>3

\* What a step of the load keeps.
LoaderOK ==
    /\ QueryTypeOK' /\ HeapOK' /\ RoutesOK'
    /\ UNCHANGED servers /\ up' \in BOOLEAN /\ lookedUp' \in BOOLEAN

Beside == UNCHANGED <<backend, handlerVars, posted, visit>>

LEMMA LoadTypes ==
    ASSUME TypeInv
    PROVE  /\ QueryTypeOK /\ HeapOK /\ RoutesOK /\ up \in BOOLEAN /\ lookedUp \in BOOLEAN
           /\ servers \in [Names -> Objs \union {NoObj}]
           /\ load = [at |-> load.at, guard |-> load.guard, tokens |-> load.tokens]
           /\ load.guard \in Guard /\ load.tokens \subseteq Objs
BY DEF TypeInv, StoreOK, HistoryOK, RoutesOK

LEMMA NoneBound == Cardinality({}) <= Cardinality(Names)
<1>1. Cardinality(Names) \in Nat /\ Cardinality({}) = 0
    BY FS_EmptySet, ObjsFinite
<1> QED
    BY <1>1

LEMMA RoutesIntro ==
    ASSUME NEW phase \in {"idle", "start servers", "start apis", "apis", "servers", "swap"},
           NEW g \in Guard, NEW objects \in SUBSET Objs,
           load' = [at |-> phase, guard |-> g, tokens |-> objects],
           Cardinality(objects) <= Cardinality(Names),
           phase \notin {"servers", "swap"} => g = NoRoute,
           phase # "swap" => objects = {},
           loads' \in 0 .. MaxLoads, guard' \in Guard, tokens' \in SUBSET Objs,
           Cardinality(tokens') <= Cardinality(Names)
    PROVE  RoutesOK'
<1>1. load'.at = phase /\ load'.guard = g /\ load'.tokens = objects
    OBVIOUS
<1>2. load' \in [at : {"idle", "start servers", "start apis", "apis", "servers", "swap"},
                 guard : Guard, tokens : SUBSET Objs]
    OBVIOUS
<1> QED
    BY <1>1, <1>2 DEF RoutesOK

LEMMA ReloadOK ==
    ASSUME TypeInv, Beside, Reload
    PROVE  LoaderOK
<1>1. /\ load.at = "idle" /\ loads < MaxLoads /\ loads' = loads + 1
      /\ load' = [NoLoad EXCEPT !.at = "apis"]
      /\ UNCHANGED <<guard, tokens, lookedUp, servers, heap, up, attempt, failures>>
    BY DEF Reload, storeVars, queryVars
<1>2. load' = [at |-> "apis", guard |-> NoRoute, tokens |-> {}]
    BY <1>1 DEF NoLoad
<1>3. load.guard = NoRoute /\ load.tokens = {}
    BY <1>1 DEF TypeInv, RoutesOK
<1>4. Live' = Live
    <2>1. UNCHANGED <<servers, obj, visit, tokens, guard>>
        BY <1>1 DEF Beside, handlerVars
    <2>2. load'.tokens = load.tokens /\ load'.guard = load.guard
        BY <1>2, <1>3
    <2> QED
        BY <2>1, <2>2 DEF Live, Elems, ServerOf
<1>5. HeapOK' /\ QueryTypeOK'
    BY <1>1, <1>4, LoadTypes, SameHeapOK DEF QueryTypeOK
<1>6. loads \in 0 .. MaxLoads /\ guard \in Guard /\ tokens \in SUBSET Objs
      /\ Cardinality(tokens) <= Cardinality(Names)
    BY LoadTypes DEF RoutesOK
<1>7. loads' \in 0 .. MaxLoads
    BY <1>1, <1>6, SetsAssumption
<1>8. RoutesOK'
    BY <1>1, <1>2, <1>6, <1>7, NoneBound, GuardType, RoutesIntro
<1> QED
    BY <1>1, <1>5, <1>8, LoadTypes DEF LoaderOK

LEMMA SwapOK ==
    ASSUME TypeInv, Beside, Swap
    PROVE  LoaderOK
<1>1. /\ load.at = "swap" /\ guard' = load.guard /\ tokens' = load.tokens /\ load' = NoLoad
      /\ UNCHANGED <<loads, lookedUp, servers, up, attempt, failures>> /\ Collect(heap)
    BY DEF Swap, queryVars
<1>2. load' = [at |-> "idle", guard |-> NoRoute, tokens |-> {}]
    BY <1>1 DEF NoLoad
<1>3. UNCHANGED <<servers, obj, visit>>
    BY <1>1 DEF Beside, handlerVars
<1>4. Live' \subseteq Live \union {}
    BY <1>1, <1>2, <1>3, RoutesReached, GuardType, LiveLoad
<1>5. HeapOK' /\ QueryTypeOK'
    BY <1>1, <1>4, LoadTypes, CollectOK DEF QueryTypeOK, HeapOK
<1>6. loads \in 0 .. MaxLoads /\ Cardinality(load.tokens) <= Cardinality(Names)
    BY LoadTypes DEF RoutesOK
<1>7. RoutesOK'
    BY <1>1, <1>2, <1>6, NoneBound, GuardType, LoadTypes, RoutesIntro
<1> QED
    BY <1>1, <1>5, <1>7, LoadTypes DEF LoaderOK

LEMMA LoadApiOK ==
    ASSUME TypeInv, Beside, LoadApi
    PROVE  LoaderOK
<1>1. /\ load.at \in {"apis", "start apis"} /\ UNCHANGED <<loads, tokens, up, servers>>
      /\ UNCHANGED <<obj, visit>>
    BY DEF LoadApi, Beside, handlerVars
<1> DEFINE o == servers[ApiServer]
           copy == IF backend = "memory" THEN o ELSE Fresh
           route(r) == IF r = "found" THEN GuardOf(copy, heap[o]) ELSE Open
<1>2. PICK result \in {"found", "not found", "error", "again"} :
         /\ FindByName(Loader, ApiServer, result)
         /\ IF result = "again"
            THEN UNCHANGED <<load, guard, lookedUp, heap>>
            ELSE /\ lookedUp' = (result = "found" \/ o = NoObj)
                 /\ IF load.at = "apis"
                    THEN /\ load' = [load EXCEPT !.at = "servers", !.guard = route(result)]
                         /\ UNCHANGED guard
                    ELSE load' = NoLoad /\ guard' = route(result)
                 /\ Collect(IF ServerOf(route(result)) = {} THEN heap ELSE With(copy, heap[o]))
    BY DEF LoadApi
<1>3. ApiServer \in Names
    BY SetsAssumption
<1>4. QueryTypeOK' /\ (result = "found" => o # NoObj)
    BY <1>2, <1>3, LoadTypes, HandlersQuery, FindEffect
<1>5. o # NoObj => o \in Objs /\ o \in Live /\ heap[o] \in Server
    BY <1>3, LoadTypes, Reached DEF HeapOK
<1>6. o # NoObj => copy \in Objs
    BY <1>5, FreshIsFree
<1> HIDE DEF o, copy
<1>7. PICK g \in Guard :
        g = route(result) /\ ServerOf(g) \subseteq {copy} /\ (ServerOf(g) # {} => result = "found")
    BY <1>4, <1>5, <1>6, GuardType
<1>8. /\ ServerOf(g) \subseteq {copy} /\ (ServerOf(g) # {} => result = "found")
      /\ IF result = "again"
         THEN UNCHANGED <<load, guard, lookedUp, heap>>
         ELSE /\ lookedUp' = (result = "found" \/ o = NoObj)
              /\ IF load.at = "apis"
                 THEN /\ load' = [load EXCEPT !.at = "servers", !.guard = g]
                      /\ UNCHANGED guard
                 ELSE load' = NoLoad /\ guard' = g
              /\ Collect(IF ServerOf(g) = {} THEN heap ELSE With(copy, heap[o]))
    BY <1>2, <1>7
<1> HIDE DEF route
<1>9. CASE result = "again"
    <2>1. Live' = Live
        BY <1>1, <1>2, <1>9, LiveSame
    <2>2. HeapOK'
        BY <1>2, <1>9, <2>1, LoadTypes, SameHeapOK
    <2>3. RoutesOK'
        BY <1>1, <1>2, <1>9, LoadTypes DEF RoutesOK
    <2> QED
        BY <1>1, <1>2, <1>4, <1>9, <2>2, <2>3, LoadTypes DEF LoaderOK
<1>10. CASE result # "again"
    <2>1. /\ lookedUp' \in BOOLEAN
          /\ \/ /\ load.at = "apis" /\ guard' = guard
                /\ load' = [load EXCEPT !.at = "servers", !.guard = g]
             \/ load' = NoLoad /\ guard' = g
          /\ Collect(IF ServerOf(g) = {} THEN heap ELSE With(copy, heap[o]))
        BY <1>8, <1>10
    <2>2. load.tokens = {} /\ load.guard = NoRoute
        BY <1>1 DEF TypeInv, RoutesOK
    <2>3. PICK phase \in {"servers", "idle"}, lg \in {NoRoute, g} :
            /\ load' = [at |-> phase, guard |-> lg, tokens |-> {}]
            /\ guard' \in {guard, g} /\ (phase = "idle" => lg = NoRoute)
        <3>1. /\ load \in [at : {"idle", "start servers", "start apis", "apis", "servers", "swap"},
                           guard : Guard, tokens : SUBSET Objs]
              /\ load.tokens = {}
            BY <2>2, LoadTypes DEF RoutesOK
        <3>2. load' = NoLoad => load' = [at |-> "idle", guard |-> NoRoute, tokens |-> {}]
            BY DEF NoLoad
        <3>3. load' = [load EXCEPT !.at = "servers", !.guard = g]
                => load' = [at |-> "servers", guard |-> g, tokens |-> {}]
            BY <3>1
        <3> QED
            BY <2>1, <3>2, <3>3
    <2>4. Live' \subseteq Live \union ServerOf(g)
        <3>1. /\ tokens' \subseteq Live /\ ServerOf(guard) \subseteq Live /\ ServerOf(NoRoute) = {}
            BY <1>1, RoutesReached, GuardType
        <3>2. load'.tokens = {} /\ load'.guard = lg
            BY <2>3
        <3>3. /\ ServerOf(guard') \subseteq Live \union ServerOf(g)
              /\ ServerOf(load'.guard) \subseteq Live \union ServerOf(g)
            BY <2>3, <3>1, <3>2
        <3> QED
            BY <1>1, <3>1, <3>2, <3>3, LiveLoad
    <2>5. HeapOK'
        <3>1. CASE ServerOf(g) = {}
            BY <2>1, <2>4, <3>1, LoadTypes, CollectOK DEF HeapOK
        <3>2. CASE ServerOf(g) # {}
            <4>1. Collect(With(copy, heap[o])) /\ heap[o] \in Server
                BY <1>4, <1>5, <1>8, <2>1, <3>2
            <4>2. Live' \subseteq Live \union {copy}
                BY <1>8, <2>4
            <4> DEFINE content == heap[o]
            <4>3. content \in Server /\ Collect(With(copy, content))
                BY <4>1
            <4> HIDE DEF content
            <4> QED
                BY <4>2, <4>3, LoadTypes, WithOK, CollectOK
        <3> QED
            BY <3>1, <3>2
    <2>6. /\ loads' \in 0 .. MaxLoads /\ guard \in Guard /\ tokens' \in SUBSET Objs
          /\ Cardinality(tokens') <= Cardinality(Names)
        BY <1>1, LoadTypes DEF RoutesOK
    <2>7. RoutesOK'
        <3>1. lg \in Guard /\ guard' \in Guard
            BY <2>3, <2>6, GuardType
        <3>2. /\ phase \in {"idle", "start servers", "start apis", "apis", "servers", "swap"}
              /\ phase \notin {"servers", "swap"} => lg = NoRoute
              /\ {} \in SUBSET Objs /\ phase # "swap"
              /\ load' = [at |-> phase, guard |-> lg, tokens |-> {}]
            BY <2>3
        <3> QED
            BY <2>6, <3>1, <3>2, NoneBound, RoutesIntro
    <2> QED
        BY <1>1, <1>4, <2>1, <2>5, <2>7, LoadTypes DEF LoaderOK
<1> QED
    BY <1>9, <1>10

\* New token endpoints: what they reach, and that the routes stay in order.
LEMMA LoadedOK ==
    ASSUME TypeInv, Beside, UNCHANGED <<loads, guard, servers>>, NEW objects \in SUBSET Objs,
           load.at \in {"servers", "start servers"}, Loaded(objects),
           Cardinality(objects) <= Cardinality(Names)
    PROVE  RoutesOK' /\ Live' \subseteq Live \union objects
<1>1. /\ load \in [at : {"idle", "start servers", "start apis", "apis", "servers", "swap"},
                   guard : Guard, tokens : SUBSET Objs]
      /\ load.tokens = {} /\ (load.at = "start servers" => load.guard = NoRoute)
      /\ loads' \in 0 .. MaxLoads /\ guard' \in Guard /\ tokens \in SUBSET Objs
      /\ Cardinality(tokens) <= Cardinality(Names)
    BY DEF TypeInv, RoutesOK
<1>2. PICK phase \in {"swap", "start apis"}, new \in {objects, {}} :
        /\ load' = [at |-> phase, guard |-> load.guard, tokens |-> new]
        /\ tokens' \in {tokens, objects}
        /\ phase # "swap" => new = {} /\ load.guard = NoRoute
    <2>1. CASE load.at = "servers"
        <3>1. load' = [load EXCEPT !.at = "swap", !.tokens = objects] /\ UNCHANGED tokens
            BY <2>1 DEF Loaded
        <3>2. load' = [at |-> "swap", guard |-> load.guard, tokens |-> objects]
            BY <1>1, <3>1
        <3> QED
            BY <3>1, <3>2
    <2>2. CASE load.at = "start servers"
        <3>1. load' = [load EXCEPT !.at = "start apis"] /\ tokens' = objects
            BY <2>2 DEF Loaded
        <3>2. load' = [at |-> "start apis", guard |-> load.guard, tokens |-> {}]
            BY <1>1, <3>1
        <3> QED
            BY <1>1, <2>2, <3>1, <3>2
    <2> QED
        BY <2>1, <2>2
<1>3. RoutesOK'
    <2>1. /\ phase \in {"idle", "start servers", "start apis", "apis", "servers", "swap"}
          /\ phase \notin {"servers", "swap"} => load.guard = NoRoute
          /\ phase # "swap" => new = {}
          /\ load' = [at |-> phase, guard |-> load.guard, tokens |-> new]
        BY <1>2
    <2>2. new \in SUBSET Objs /\ Cardinality(new) <= Cardinality(Names) /\ load.guard \in Guard
        BY <1>1, <1>2, NoneBound
    <2>3. tokens' \in SUBSET Objs /\ Cardinality(tokens') <= Cardinality(Names)
        BY <1>1, <1>2
    <2> QED
        BY <1>1, <2>1, <2>2, <2>3, RoutesIntro
<1>4. Live' \subseteq Live \union objects
    <2>1. UNCHANGED <<servers, obj, visit>>
        BY DEF Beside, handlerVars
    <2>2. /\ tokens \subseteq Live /\ ServerOf(guard) \subseteq Live
          /\ ServerOf(load.guard) \subseteq Live
        BY RoutesReached
    <2>3. load'.tokens = new /\ load'.guard = load.guard
        BY <1>2
    <2>4. tokens' \subseteq Live \union objects /\ load'.tokens \subseteq Live \union objects
        BY <1>2, <2>2, <2>3
    <2>5. /\ ServerOf(guard') \subseteq Live \union objects
          /\ ServerOf(load'.guard) \subseteq Live \union objects
        BY <2>2, <2>3
    <2> QED
        BY <2>1, <2>4, <2>5, LiveLoad
<1> QED
    BY <1>3, <1>4

\* The servers that a load copies get objects that nothing has.
LEMMA CopiesOK ==
    ASSUME TypeInv, NEW found, found \subseteq Elems(servers) \ {NoObj},
           NEW copies, copies = CHOOSE f \in Injection(found, Objs \ Live) : TRUE
    PROVE  /\ copies \in [found -> Objs \ Live]
           /\ \A a, b \in found : copies[a] = copies[b] => a = b
           /\ Cardinality(Elems(copies)) <= Cardinality(Names)
           /\ IsFiniteSet(found) /\ Cardinality(found) <= Cardinality(Names)
<1>1. servers \in [Names -> Objs \union {NoObj}]
    BY LoadTypes
<1>2. IsFiniteSet(Elems(servers)) /\ Cardinality(Elems(servers)) <= Cardinality(Names)
    BY <1>1, SetsAssumption, ElemsFinite
<1>3. IsFiniteSet(found) /\ Cardinality(found) <= Cardinality(Elems(servers))
    BY <1>2, FS_Subset
<1>4. /\ Cardinality(found) \in Nat /\ Cardinality(Elems(servers)) \in Nat
      /\ Cardinality(Names) \in Nat
    BY <1>2, <1>3, SetsAssumption, FS_CardinalityType
<1>5. Cardinality(found) <= Cardinality(Names)
    BY <1>2, <1>3, <1>4
<1>6. IsFiniteSet(Objs \ Live) /\ Cardinality(found) <= Cardinality(Objs \ Live)
    BY <1>4, <1>5, Unused
<1>7. copies \in Injection(found, Objs \ Live)
    <2>1. Injection(found, Objs \ Live) # {}
        BY <1>3, <1>6, InjectionExists
    <2> QED
        BY <2>1
<1>8. /\ copies \in [found -> Objs \ Live]
      /\ \A a, b \in found : copies[a] = copies[b] => a = b
    BY <1>7 DEF Injection, IsInjective
<1>9. IsFiniteSet(Elems(copies)) /\ Cardinality(Elems(copies)) <= Cardinality(found)
    BY <1>3, <1>8, ElemsFinite
<1>10. Cardinality(Elems(copies)) \in Nat
    BY <1>9, FS_CardinalityType
<1>11. Cardinality(Elems(copies)) <= Cardinality(Names)
    BY <1>4, <1>5, <1>9, <1>10
<1> QED
    BY <1>3, <1>5, <1>8, <1>11

LEMMA LoadServersOK ==
    ASSUME TypeInv, Beside, LoadServers
    PROVE  LoaderOK
<1>1. load.at \in {"servers", "start servers"} /\ UNCHANGED <<loads, guard, lookedUp, servers>>
    BY DEF LoadServers
<1> DEFINE found == {o \in Elems(servers) \ {NoObj} : Loadable(heap[o])}
           copies == CHOOSE f \in Injection(found, Objs \ Live) : TRUE
           source(x) == CHOOSE o \in found : copies[o] = x
           copied == [x \in Live \union Elems(copies) |->
                        IF x \in Elems(copies) THEN heap[source(x)] ELSE heap[x]]
<1>2. PICK result \in {"ok", "error", "again"} :
         /\ FindAll(result)
         /\ \/ UNCHANGED <<load, tokens, up, heap>>
            \/ up' = FALSE /\ UNCHANGED <<load, tokens, heap>>
            \/ /\ UNCHANGED up
               /\ \/ Loaded(found) /\ Collect(heap)
                  \/ Loaded(Elems(copies)) /\ Collect(copied)
    BY DEF LoadServers
<1>3. QueryTypeOK'
    BY <1>2, LoadTypes, FindAllEffect
<1>4. found \subseteq Elems(servers) \ {NoObj} /\ found \subseteq Live /\ found \subseteq Objs
    BY LoadTypes, Reached DEF Elems
<1>5. DOMAIN heap = Live /\ \A o \in Live : heap[o] \in Server
    BY LoadTypes DEF HeapOK
<1> HIDE DEF found
<1>6. /\ copies \in [found -> Objs \ Live]
      /\ Cardinality(Elems(copies)) <= Cardinality(Names)
      /\ Cardinality(found) <= Cardinality(Names)
    BY <1>4, CopiesOK
<1>7. CASE UNCHANGED <<load, tokens, heap>> /\ up' \in BOOLEAN
    <2>1. UNCHANGED <<obj, visit>>
        BY DEF Beside, handlerVars
    <2>2. HeapOK'
        BY <1>1, <1>7, <2>1, LoadTypes, LiveSame, SameHeapOK
    <2>3. RoutesOK'
        BY <1>1, <1>7, LoadTypes DEF RoutesOK
    <2> QED
        BY <1>1, <1>3, <1>7, <2>2, <2>3, LoadTypes DEF LoaderOK
<1>8. CASE UNCHANGED up /\ Loaded(found) /\ Collect(heap)
    <2>1. RoutesOK' /\ Live' \subseteq Live \union found
        BY <1>1, <1>4, <1>6, <1>8, LoadedOK
    <2>2. HeapOK'
        BY <1>4, <1>5, <1>8, <2>1, CollectOK
    <2> QED
        BY <1>1, <1>3, <1>8, <2>1, <2>2, LoadTypes DEF LoaderOK
<1>9. CASE UNCHANGED up /\ Loaded(Elems(copies)) /\ Collect(copied)
    <2>1. Elems(copies) \subseteq Objs
        BY <1>6 DEF Elems
    <2>2. RoutesOK' /\ Live' \subseteq Live \union Elems(copies)
        BY <1>1, <1>6, <1>9, <2>1, LoadedOK
    <2>3. \A x \in Elems(copies) : source(x) \in found
        BY <1>6 DEF Elems
    <2> HIDE DEF source, copies
    <2>4. \A x \in Live \union Elems(copies) : copied[x] \in Server
        BY <1>4, <1>5, <2>3
    <2>5. HeapOK'
        BY <1>9, <2>2, <2>4, CollectOK
    <2> QED
        BY <1>1, <1>3, <1>9, <2>2, <2>5, LoadTypes DEF LoaderOK
<1> QED
    BY <1>2, <1>7, <1>8, <1>9, LoadTypes

LEMMA LoadStepOK ==
    ASSUME TypeInv, LoadStep, UNCHANGED backend, History
    PROVE  TypeInv'
<1>1. Beside
    BY DEF Beside, LoadStep
<1>2. LoaderOK
    BY <1>1, ReloadOK, LoadApiOK, LoadServersOK, SwapOK DEF LoadStep
<1>3. HandlersOK' /\ VisitsOK'
    BY <1>1 DEF TypeInv, HandlersOK, VisitsOK, Beside, handlerVars
<1>4. HistoryOK'
    BY <1>1, <1>2, HistoryType DEF TypeInv, HistoryOK, LoaderOK, Beside
<1>5. StoreOK'
    BY <1>1, <1>2 DEF TypeInv, StoreOK, LoaderOK, Beside
<1> QED
    BY <1>2, <1>3, <1>4, <1>5 DEF TypeInv, LoaderOK

----------------------------------------------------------------------------
(* Requests on the gateway.                                                *)

VisitType ==
    [at : {"idle", "key", "rule", "parse"} \union Ended, guard : Guard, key : Keys \union {NoKey},
     claim : Claims \union {"none"}, rule : Nat, served : Nat]

VisitOK(r) ==
    /\ r \in VisitType
    /\ r.guard = NoRoute \/ r.guard.route = "guarded"
    /\ r.guard = NoRoute <=> r.at \in {"idle"} \union Ended
    /\ r.at \in {"idle", "key"} => r.rule = 1 /\ r.served = 0

LEMMA VisitsType ==
    ASSUME TypeInv
    PROVE  /\ visit \in [Visits -> VisitType] /\ (\A v \in Visits : VisitOK(visit[v]))
           /\ HeapOK /\ servers \in [Names -> Objs \union {NoObj}] /\ up \in BOOLEAN
           /\ guard \in Guard
BY DEF TypeInv, VisitsOK, VisitOK, VisitType, StoreOK, HistoryOK, RoutesOK

\* A request changes alone.
LEMMA VisitChange ==
    ASSUME TypeInv, NEW v \in Visits, NEW r, VisitOK(r), visit' = [visit EXCEPT ![v] = r]
    PROVE  VisitsOK'
<1>1. visit \in [Visits -> VisitType] /\ (\A u \in Visits : VisitOK(visit[u]))
    BY VisitsType
<1>2. visit'[v] = r /\ \A u \in Visits \ {v} : visit'[u] = visit[u]
    BY <1>1
<1>3. \A u \in Visits : VisitOK(visit'[u])
    BY <1>1, <1>2
<1>4. visit' \in [Visits -> VisitType]
    BY <1>1 DEF VisitOK
<1> QED
    BY <1>3, <1>4 DEF VisitsOK, VisitOK, VisitType

\* A request that ends has no more to do with a router.
LEMMA FinishOK ==
    ASSUME TypeInv, NEW v \in Visits, NEW how \in Ended, NEW served \in Nat, Finish(v, how, served)
    PROVE  /\ VisitsOK' /\ visit'[v].at = how /\ visit'[v].served = served
           /\ visit'[v].guard = NoRoute
           /\ \A u \in Visits \ {v} : visit'[u] = visit[u]
<1> DEFINE r == [at |-> how, guard |-> NoRoute, key |-> NoKey, claim |-> "none", rule |-> 1,
                 served |-> served]
<1>1. visit' = [visit EXCEPT ![v] = r]
    <2>1. [Idle EXCEPT !.at = how, !.served = served] = r
        <3>1. Idle = [at |-> "idle", guard |-> NoRoute, key |-> NoKey, claim |-> "none",
                      rule |-> 1, served |-> 0]
            BY DEF Idle
        <3>2. DOMAIN Idle = {"at", "guard", "key", "claim", "rule", "served"}
            BY <3>1
        <3> DEFINE d == [Idle EXCEPT !.at = how, !.served = served]
        <3>3. /\ d.at = how /\ d.guard = NoRoute /\ d.key = NoKey /\ d.claim = "none"
              /\ d.rule = 1 /\ d.served = served
              /\ DOMAIN d = {"at", "guard", "key", "claim", "rule", "served"}
            BY <3>1, <3>2
        <3>4. d = [f \in DOMAIN d |-> d[f]]
            OBVIOUS
        <3> HIDE DEF d
        <3>5. d = r
            BY <3>3, <3>4
        <3> QED
            BY <3>5 DEF d
    <2>2. visit' = [visit EXCEPT ![v] = [Idle EXCEPT !.at = how, !.served = served]]
        BY DEF Finish
    <2> QED
        BY <2>1, <2>2
<1>2. VisitOK(r)
    BY GuardType DEF VisitOK, VisitType, Ended
<1>3. visit \in [Visits -> VisitType]
    BY VisitsType
<1>4. r.at = how /\ r.served = served /\ r.guard = NoRoute
    OBVIOUS
<1> HIDE DEF r
<1>5. VisitsOK'
    BY <1>1, <1>2, VisitChange
<1> QED
    BY <1>1, <1>3, <1>4, <1>5

\* A request goes on to a rule.
LEMMA OnwardOK ==
    ASSUME TypeInv, NEW v \in Visits, visit[v].at \in {"key", "rule", "parse"},
           NEW phase \in {"rule", "parse"}, NEW rule \in Nat, NEW served \in Nat,
           visit' = [visit EXCEPT ![v] =
                       [at |-> phase, guard |-> visit[v].guard, key |-> visit[v].key,
                        claim |-> visit[v].claim, rule |-> rule, served |-> served]]
    PROVE  /\ VisitsOK' /\ visit'[v].at = phase
           /\ visit'[v].guard = visit[v].guard /\ visit'[v].key = visit[v].key
           /\ visit'[v].claim = visit[v].claim
           /\ visit'[v].rule = rule /\ visit'[v].served = served
           /\ \A u \in Visits \ {v} : visit'[u] = visit[u]
<1> DEFINE r == [at |-> phase, guard |-> visit[v].guard, key |-> visit[v].key,
                 claim |-> visit[v].claim, rule |-> rule, served |-> served]
<1>1. visit \in [Visits -> VisitType] /\ VisitOK(visit[v]) /\ visit[v] \in VisitType
    BY VisitsType DEF VisitOK
<1>2. /\ visit[v].guard \in Guard /\ visit[v].key \in Keys \union {NoKey}
      /\ visit[v].claim \in Claims \union {"none"}
    BY <1>1 DEF VisitType
<1>3. visit[v].guard.route = "guarded" /\ visit[v].guard # NoRoute
    BY <1>1 DEF VisitOK, Ended
<1>4. VisitOK(r)
    BY <1>2, <1>3 DEF VisitOK, VisitType, Ended
<1>5. visit' = [visit EXCEPT ![v] = r]
    OBVIOUS
<1>6. /\ r.at = phase /\ r.guard = visit[v].guard /\ r.key = visit[v].key
      /\ r.claim = visit[v].claim /\ r.rule = rule /\ r.served = served
    OBVIOUS
<1> HIDE DEF r
<1>7. VisitsOK'
    BY <1>4, <1>5, VisitChange
<1> QED
    BY <1>1, <1>5, <1>6, <1>7

LEMMA ToIs ==
    ASSUME TypeInv, NEW v \in Visits, NEW changes, To(v, changes)
    PROVE  visit' = [visit EXCEPT ![v] =
             [at |-> IF "at" \in DOMAIN changes THEN changes.at ELSE visit[v].at,
              guard |-> IF "guard" \in DOMAIN changes THEN changes.guard ELSE visit[v].guard,
              key |-> IF "key" \in DOMAIN changes THEN changes.key ELSE visit[v].key,
              claim |-> IF "claim" \in DOMAIN changes THEN changes.claim ELSE visit[v].claim,
              rule |-> IF "rule" \in DOMAIN changes THEN changes.rule ELSE visit[v].rule,
              served |-> IF "served" \in DOMAIN changes THEN changes.served ELSE visit[v].served]]
<1> DEFINE d == [f \in DOMAIN visit[v] |->
                   IF f \in DOMAIN changes THEN changes[f] ELSE visit[v][f]]
<1>1. visit' = [visit EXCEPT ![v] = d]
    BY DEF To
<1>2. DOMAIN visit[v] = {"at", "guard", "key", "claim", "rule", "served"}
    BY VisitsType DEF VisitOK, VisitType
<1>3. d = [at |-> IF "at" \in DOMAIN changes THEN changes.at ELSE visit[v].at,
           guard |-> IF "guard" \in DOMAIN changes THEN changes.guard ELSE visit[v].guard,
           key |-> IF "key" \in DOMAIN changes THEN changes.key ELSE visit[v].key,
           claim |-> IF "claim" \in DOMAIN changes THEN changes.claim ELSE visit[v].claim,
           rule |-> IF "rule" \in DOMAIN changes THEN changes.rule ELSE visit[v].rule,
           served |-> IF "served" \in DOMAIN changes THEN changes.served ELSE visit[v].served]
    BY <1>2
<1> QED
    BY <1>1, <1>3

\* What a request reaches it has reached before, or it is the guard that serves.
LEMMA LiveVisit ==
    ASSUME TypeInv, UNCHANGED <<servers, obj, tokens, load, guard>>, NEW v \in Visits,
           \A u \in Visits \ {v} : visit'[u] = visit[u],
           \/ visit'[v].guard = visit[v].guard \/ visit'[v].guard = NoRoute
           \/ visit'[v].guard = guard
    PROVE  /\ Live' \subseteq Live
           /\ visit[v].guard = NoRoute => Live' = Live
<1> DEFINE met(u) == ServerOf(visit[u].guard)
           later(u) == ServerOf(visit'[u].guard)
           rest == Elems(servers) \union Elems(obj) \union tokens \union load.tokens
                     \union ServerOf(guard) \union ServerOf(load.guard)
<1>1. Live = (rest \union UNION {met(u) : u \in Visits}) \ {NoObj}
    BY DEF Live
<1>2. Live' = (rest \union UNION {later(u) : u \in Visits}) \ {NoObj}
    BY DEF Live, Elems, ServerOf
<1>3. ServerOf(NoRoute) = {} /\ ServerOf(guard) \subseteq rest
    BY GuardType
<1>4. \A u \in Visits \ {v} : later(u) = met(u)
    OBVIOUS
<1>5. later(v) \subseteq met(v) \union rest /\ (visit[v].guard = NoRoute => met(v) = {})
    BY <1>3
<1> HIDE DEF met, later, rest
<1> QED
    BY <1>1, <1>2, <1>4, <1>5

\* What a step of a request keeps.
VisitorOK == HeapOK' /\ VisitsOK' /\ UNCHANGED servers /\ up' \in BOOLEAN

Apart == UNCHANGED <<backend, handlerVars, routeVars, queryVars, posted>>

LEMMA ArriveOK ==
    ASSUME TypeInv, Apart, NEW v \in Visits, NEW token \in Tokens, Arrive(v, token)
    PROVE  VisitorOK
<1>1. /\ visit[v].at = "idle" /\ guard.route # "none" /\ UNCHANGED <<servers, heap, up>>
      /\ UNCHANGED <<obj, tokens, load, guard>>
    BY DEF Arrive, Apart, storeVars, handlerVars, routeVars
<1>2. /\ visit \in [Visits -> VisitType] /\ VisitOK(visit[v]) /\ visit[v].guard = NoRoute
      /\ visit[v].rule = 1 /\ visit[v].served = 0 /\ HeapOK /\ up \in BOOLEAN /\ guard \in Guard
    BY <1>1, VisitsType DEF VisitOK
<1>3. /\ VisitsOK' /\ visit'[v].guard \in {NoRoute, guard}
      /\ \A u \in Visits \ {v} : visit'[u] = visit[u]
    <2>1. CASE guard = Open
        BY <1>1, <2>1, FinishOK DEF Arrive, Ended
    <2>2. CASE guard # Open /\ token.key = NoKey
        BY <1>1, <2>2, FinishOK DEF Arrive, Ended
    <2>3. CASE guard # Open /\ token.key # NoKey
        <3> DEFINE r == [at |-> "key", guard |-> guard, key |-> token.key, claim |-> token.claim,
                         rule |-> 1, served |-> 0]
        <3>1. To(v, [at |-> "key", key |-> token.key, claim |-> token.claim, guard |-> guard])
            BY <2>3 DEF Arrive
        <3>2. visit' = [visit EXCEPT ![v] = r]
            BY <1>2, <3>1, ToIs
        <3>3. token.key \in Keys \union {NoKey} /\ token.claim \in Claims
            BY TokensAssumption
        <3>4. guard # NoRoute /\ guard.route = "guarded"
            BY <1>1, <1>2, <2>3 DEF Guard, NoRoute
        <3>5. VisitOK(r) /\ r.guard = guard
            BY <1>2, <3>3, <3>4 DEF VisitOK, VisitType, Ended
        <3> HIDE DEF r
        <3> QED
            BY <1>2, <3>2, <3>5, VisitChange
    <2> QED
        BY <2>1, <2>2, <2>3
<1>4. Live' = Live
    BY <1>1, <1>2, <1>3, LiveVisit
<1> QED
    BY <1>1, <1>2, <1>3, <1>4, SameHeapOK DEF VisitorOK

LEMMA TokenOK ==
    ASSUME TypeInv, Apart, NEW v \in Visits, NEW o \in tokens, NEW app \in Apps, Token(v, o, app)
    PROVE  VisitorOK
<1>1. /\ visit[v].at = "idle" /\ UNCHANGED <<servers, heap>> /\ up' \in BOOLEAN
      /\ UNCHANGED <<obj, tokens, load, guard>> /\ (Finish(v, "done", 1) \/ Finish(v, "refused", 0))
    BY DEF Token, Apart, storeVars, handlerVars, routeVars
<1>2. VisitsOK' /\ visit'[v].guard = NoRoute /\ \A u \in Visits \ {v} : visit'[u] = visit[u]
    BY <1>1, FinishOK DEF Ended
<1>3. visit[v].guard = NoRoute /\ HeapOK
    BY <1>1, VisitsType DEF VisitOK
<1>4. Live' = Live
    BY <1>1, <1>2, <1>3, LiveVisit
<1> QED
    BY <1>1, <1>2, <1>3, <1>4, SameHeapOK DEF VisitorOK

\* A request that was being checked ends, or goes on to a rule with what it had.
Checked(v, how, rule, served) ==
    \/ how \in Ended /\ Finish(v, how, served)
    \/ /\ how \in {"rule", "parse"}
       /\ visit' = [visit EXCEPT ![v] =
                      [at |-> how, guard |-> visit[v].guard, key |-> visit[v].key,
                       claim |-> visit[v].claim, rule |-> rule, served |-> served]]

LEMMA CheckedOK ==
    ASSUME TypeInv, Apart, UNCHANGED servers, NEW v \in Visits,
           visit[v].at \in {"key", "rule", "parse"}, NEW how, NEW rule \in Nat, NEW served \in Nat,
           Checked(v, how, rule, served), NEW h, Collect(h), DOMAIN h = Live,
           \A o \in Live : h[o] \in Server
    PROVE  VisitsOK' /\ HeapOK' /\ visit'[v].at = how /\ visit'[v].served = served
<1>1. /\ VisitsOK' /\ visit'[v].guard \in {NoRoute, visit[v].guard}
      /\ visit'[v].at = how /\ visit'[v].served = served
      /\ \A u \in Visits \ {v} : visit'[u] = visit[u]
    BY FinishOK, OnwardOK DEF Checked
<1>2. UNCHANGED <<obj, tokens, load, guard>>
    BY DEF Apart, handlerVars, routeVars
<1>3. Live' \subseteq Live
    BY <1>1, <1>2, LiveVisit
<1> QED
    BY <1>1, <1>3, CollectOK

LEMMA VisitFields ==
    ASSUME TypeInv, NEW v \in Visits
    PROVE  visit[v].rule \in Nat /\ visit[v].served \in Nat
BY VisitsType DEF VisitType

LEMMA AllowedIs ==
    ASSUME TypeInv, NEW v \in Visits, Allowed(v)
    PROVE  \/ Checked(v, "done", 1, visit[v].served + 2)
           \/ Checked(v, "rule", visit[v].rule + 1, visit[v].served + 1)
<1>1. CASE Finish(v, "done", visit[v].served + 2)
    BY <1>1 DEF Checked, Ended
<1>2. CASE To(v, [at |-> "rule", served |-> visit[v].served + 1, rule |-> visit[v].rule + 1])
    <2>1. visit' = [visit EXCEPT ![v] =
                      [at |-> "rule", guard |-> visit[v].guard, key |-> visit[v].key,
                       claim |-> visit[v].claim, rule |-> visit[v].rule + 1,
                       served |-> visit[v].served + 1]]
        BY <1>2, ToIs
    <2> QED
        BY <2>1 DEF Checked
<1> QED
    BY <1>1, <1>2 DEF Allowed

LEMMA SkippedIs ==
    ASSUME TypeInv, NEW v \in Visits, Skipped(v)
    PROVE  \/ Checked(v, "done", 1, visit[v].served + 1)
           \/ Checked(v, "rule", visit[v].rule + 1, visit[v].served)
<1>1. CASE Finish(v, "done", visit[v].served + 1)
    BY <1>1 DEF Checked, Ended
<1>2. CASE To(v, [at |-> "rule", rule |-> visit[v].rule + 1])
    <2>1. visit' = [visit EXCEPT ![v] =
                      [at |-> "rule", guard |-> visit[v].guard, key |-> visit[v].key,
                       claim |-> visit[v].claim, rule |-> visit[v].rule + 1,
                       served |-> visit[v].served]]
        BY <1>2, ToIs
    <2> QED
        BY <2>1 DEF Checked
<1> QED
    BY <1>1, <1>2 DEF Skipped

\* A rule is looked at: the request goes on to the next one, or ends.
LEMMA JudgeIs ==
    ASSUME TypeInv, NEW v \in Visits, NEW allowed, Judge(v, allowed)
    PROVE  \E how \in Ended \union {"rule"}, rule \in Nat, served \in Nat :
             /\ Checked(v, how, rule, served)
             /\ ~allowed => how = "denied" /\ served = visit[v].served
<1>1. visit[v].rule + 1 \in Nat /\ visit[v].served + 1 \in Nat /\ visit[v].served + 2 \in Nat
      /\ visit[v].served \in Nat /\ 1 \in Nat
    BY VisitFields
<1>2. CASE allowed
    BY <1>1, <1>2, AllowedIs DEF Judge, Ended
<1>3. CASE ~allowed
    <2>1. Checked(v, "denied", 1, visit[v].served)
        BY <1>3 DEF Judge, Checked, Ended
    <2> QED
        BY <1>1, <2>1 DEF Ended
<1> QED
    BY <1>2, <1>3

\* What a request that is checked comes to: the steps CheckKey, IsAllowed and Parse.
LEMMA CheckKeyIs ==
    ASSUME TypeInv, NEW v \in Visits, CheckKey(v)
    PROVE  /\ visit[v].at = "key" /\ UNCHANGED <<servers, up>> /\ Collect(heap)
           /\ \/ Checked(v, "refused", 1, 0)
              \/ /\ RulesOf(v) = <<>> \/ visit[v].key \notin visit[v].guard.keys
                 /\ Checked(v, "done", 1, 1)
              \/ Checked(v, "rule", 1, 0)
<1>1. visit[v].at = "key" /\ visit[v].rule = 1 /\ visit[v].served = 0
    BY VisitsType DEF CheckKey, VisitOK
<1>2. CASE Finish(v, "refused", 0)
    BY <1>1, <1>2 DEF CheckKey, Checked, Ended
<1>3. CASE /\ RulesOf(v) = <<>> \/ visit[v].key \notin visit[v].guard.keys
           /\ Finish(v, "done", 1)
    BY <1>1, <1>3 DEF CheckKey, Checked, Ended
<1>4. CASE To(v, [at |-> "rule"])
    <2>1. visit' = [visit EXCEPT ![v] =
                      [at |-> "rule", guard |-> visit[v].guard, key |-> visit[v].key,
                       claim |-> visit[v].claim, rule |-> 1, served |-> 0]]
        BY <1>1, <1>4, ToIs
    <2> QED
        BY <1>1, <2>1 DEF CheckKey, Checked
<1> QED
    BY <1>2, <1>3, <1>4 DEF CheckKey

LEMMA IsAllowedIs ==
    ASSUME TypeInv, NEW v \in Visits, IsAllowed(v)
    PROVE  /\ visit[v].at = "rule" /\ UNCHANGED <<servers, up>> /\ Collect(heap)
           /\ \E how \in Ended \union {"rule", "parse"}, rule \in Nat, served \in Nat :
                /\ Checked(v, how, rule, served)
                /\ how = "parse" => rule = visit[v].rule /\ served = visit[v].served
                /\ how # "parse" /\ ~ParsedAllows(RulesOf(v)[visit[v].rule])
                     => how = "denied" /\ served = visit[v].served
<1>1. visit[v].at = "rule" /\ UNCHANGED <<servers, up>> /\ Collect(heap)
    BY DEF IsAllowed
<1>2. CASE Judge(v, ParsedAllows(RulesOf(v)[visit[v].rule]))
    BY <1>1, <1>2, JudgeIs DEF Ended
<1>3. CASE To(v, [at |-> "parse"])
    <2>1. Checked(v, "parse", visit[v].rule, visit[v].served)
        BY <1>3, ToIs DEF Checked
    <2> QED
        BY <1>1, <2>1, VisitFields
<1> QED
    BY <1>2, <1>3 DEF IsAllowed

\* The heap after a rule was parsed.
Parsed(v) ==
    LET r == RulesOf(v)[visit[v].rule]
        s == visit[v].guard.server
    IN  [heap EXCEPT ![s].rules[visit[v].rule].parsed = @ \/ r.says[visit[v].claim] # "error"]

LEMMA ParseIs ==
    ASSUME TypeInv, NEW v \in Visits, Parse(v)
    PROVE  /\ visit[v].at = "parse" /\ UNCHANGED <<servers, up>> /\ Collect(Parsed(v))
           /\ \E how \in Ended \union {"rule"}, rule \in Nat, served \in Nat :
                /\ Checked(v, how, rule, served)
                /\ LET r == RulesOf(v)[visit[v].rule] IN
                   r.says[visit[v].claim] = "match" /\ ~r.allow
                     => how = "denied" /\ served = visit[v].served
<1>1. visit[v].at = "parse" /\ UNCHANGED <<servers, up>> /\ Collect(Parsed(v))
    BY DEF Parse, Parsed
<1> DEFINE r == RulesOf(v)[visit[v].rule]
           says == r.says[visit[v].claim]
<1>2. CASE says = "error" /\ Skipped(v)
    <2>1. visit[v].rule + 1 \in Nat /\ visit[v].served + 1 \in Nat /\ visit[v].served \in Nat
          /\ 1 \in Nat
        BY VisitFields
    <2> QED
        BY <1>1, <1>2, <2>1, SkippedIs DEF Ended
<1>3. CASE says \in {"match", "no match"} /\ Judge(v, says = "match" => r.allow)
    BY <1>1, <1>3, JudgeIs
<1>4. CASE says = "no boolean" /\ Finish(v, "refused", visit[v].served)
    <2>1. Checked(v, "refused", 1, visit[v].served) /\ visit[v].served \in Nat /\ 1 \in Nat
        BY <1>4, VisitFields DEF Checked, Ended
    <2> QED
        BY <1>1, <1>4, <2>1 DEF Ended
<1> QED
    BY <1>2, <1>3, <1>4 DEF Parse

\* A rule that is parsed leaves the servers what they are in the datastore.
LEMMA ParsedOK ==
    ASSUME TypeInv, NEW v \in Visits, visit[v].at \in {"rule", "parse"}
    PROVE  /\ DOMAIN Parsed(v) = Live
           /\ \A o \in Live : Parsed(v)[o] \in Server /\ Row(Parsed(v)[o]) = Row(heap[o])
           /\ visit[v].guard.server \in Live
<1> DEFINE s == visit[v].guard.server
           i == visit[v].rule
           p == heap[s].rules[i].parsed \/ RulesOf(v)[i].says[visit[v].claim] # "error"
<1>1. DOMAIN heap = Live /\ \A o \in Live : heap[o] \in Server
    BY VisitsType DEF HeapOK
<1>2. visit[v].guard.route = "guarded" /\ visit[v].guard \in Guard
    BY VisitsType DEF VisitOK, VisitType, Ended
<1>3. s \in Live
    <2>1. s \in Objs
        BY <1>2 DEF Guard, NoRoute, Open
    <2> QED
        BY <1>2, <2>1, ObjsFinite DEF Live, ServerOf
<1>4. Parsed(v) = [heap EXCEPT ![s] = [heap[s] EXCEPT !.rules[i].parsed = p]]
    BY DEF Parsed
<1>5. p \in BOOLEAN
    OBVIOUS
<1> HIDE DEF s, i, p
<1>6. /\ [heap[s] EXCEPT !.rules[i].parsed = p] \in Server
      /\ Row([heap[s] EXCEPT !.rules[i].parsed = p]) = Row(heap[s])
    BY <1>1, <1>3, <1>5, ParsedRow
<1> DEFINE c == [heap[s] EXCEPT !.rules[i].parsed = p]
<1> HIDE DEF c
<1>7. Parsed(v) = [heap EXCEPT ![s] = c] /\ c \in Server /\ Row(c) = Row(heap[s])
    BY <1>4, <1>6 DEF c
<1> QED
    BY <1>1, <1>3, <1>7 DEF s

LEMMA VisitStepOK ==
    ASSUME TypeInv, NEW v \in Visits, VisitStep(v), UNCHANGED backend, History
    PROVE  TypeInv'
<1>1. Apart
    BY DEF Apart, VisitStep
<1>2. HeapOK /\ DOMAIN heap = Live /\ (\A o \in Live : heap[o] \in Server) /\ up \in BOOLEAN
      /\ 0 \in Nat /\ 1 \in Nat
    BY VisitsType DEF HeapOK
<1>3. ASSUME CheckKey(v) PROVE VisitorOK
    <2>1. visit[v].at = "key" /\ UNCHANGED <<servers, up>> /\ Collect(heap)
        BY <1>3, CheckKeyIs
    <2>2. PICK how \in Ended \union {"rule"}, served \in Nat : Checked(v, how, 1, served)
        BY <1>2, <1>3, CheckKeyIs DEF Ended
    <2> QED
        BY <1>1, <1>2, <2>1, <2>2, CheckedOK DEF VisitorOK
<1>4. ASSUME IsAllowed(v) PROVE VisitorOK
    <2>1. visit[v].at = "rule" /\ UNCHANGED <<servers, up>> /\ Collect(heap)
        BY <1>4, IsAllowedIs
    <2>2. PICK how \in Ended \union {"rule", "parse"}, rule \in Nat, served \in Nat :
               Checked(v, how, rule, served)
        BY <1>4, IsAllowedIs
    <2> QED
        BY <1>1, <1>2, <2>1, <2>2, CheckedOK DEF VisitorOK
<1>5. ASSUME Parse(v) PROVE VisitorOK
    <2>1. visit[v].at = "parse" /\ UNCHANGED <<servers, up>> /\ Collect(Parsed(v))
        BY <1>5, ParseIs
    <2>2. PICK how \in Ended \union {"rule", "parse"}, rule \in Nat, served \in Nat :
               Checked(v, how, rule, served)
        BY <1>5, ParseIs
    <2>3. DOMAIN Parsed(v) = Live /\ \A o \in Live : Parsed(v)[o] \in Server
        BY <2>1, ParsedOK
    <2> QED
        BY <1>1, <1>2, <2>1, <2>2, <2>3, CheckedOK DEF VisitorOK
<1>6. VisitorOK
    BY <1>1, <1>3, <1>4, <1>5, ArriveOK, TokenOK DEF VisitStep
<1>7. HandlersOK' /\ RoutesOK'
    BY <1>1 DEF TypeInv, HandlersOK, RoutesOK, Apart, handlerVars, routeVars
<1>8. HistoryOK'
    BY <1>1, <1>6, HistoryType DEF TypeInv, HistoryOK, VisitorOK, Apart, routeVars
<1>9. StoreOK'
    BY <1>1, <1>6 DEF TypeInv, StoreOK, VisitorOK, Apart, QueryTypeOK, queryVars
<1> QED
    BY <1>6, <1>7, <1>8, <1>9 DEF TypeInv, VisitorOK

----------------------------------------------------------------------------
(* Every state is well formed.                                             *)

LEMMA InitOK == Init => TypeInv
<1> SUFFICES ASSUME Init PROVE TypeInv
    OBVIOUS
<1>1. PICK s \in Stored[backend] :
        LET named == {c.name : c \in s}
            number == CHOOSE f \in Injection(named, Objs) : TRUE
        IN  /\ servers = [n \in Names |-> IF n \in named THEN number[n] ELSE NoObj]
            /\ heap = [o \in Elems(number) |-> CHOOSE c \in s : number[c.name] = o]
    BY DEF Init
<1> DEFINE named == {c.name : c \in s}
           number == CHOOSE f \in Injection(named, Objs) : TRUE
           source(o) == CHOOSE c \in s : number[c.name] = o
<1>2. /\ servers = [n \in Names |-> IF n \in named THEN number[n] ELSE NoObj]
      /\ heap = [o \in Elems(number) |-> source(o)]
    BY <1>1
<1>3. backend \in Backends /\ QueryInit
    BY DEF Init
<1>4. /\ req = [h \in Handlers |-> NoRequest] /\ at = [h \in Handlers |-> "idle"]
       /\ obj = [h \in Handlers |-> NoObj] /\ ops = 0 /\ alone = [h \in Handlers |-> FALSE]
    BY DEF Init
<1>5. loads = 1 /\ guard = NoRoute /\ tokens = {} /\ visit = [v \in Visits |-> Idle]
    BY DEF Init
<1>6. /\ up = TRUE /\ lookedUp = FALSE /\ quiet = TRUE
       /\ posted = [n \in Names |-> NoServer] /\ mustDeny = [v \in Visits |-> FALSE]
    BY DEF Init
<1>7. s \subseteq Server
    BY <1>3, StoredAssumption
<1>8. named \subseteq Names
    BY <1>7 DEF Server
<1>9. number \in [named -> Objs]
    <2>1. IsFiniteSet(named) /\ Cardinality(named) <= Cardinality(Names)
        BY <1>8, SetsAssumption, FS_Subset
    <2>2. /\ Cardinality(named) \in Nat /\ Cardinality(Names) \in Nat
          /\ Cardinality(Handlers) \in Nat /\ Cardinality(Visits) \in Nat
        BY <2>1, ObjsFinite, FS_CardinalityType
    <2> HIDE DEF named
    <2>3. IsFiniteSet(Objs) /\ Cardinality(named) <= Cardinality(Objs)
        <3>1. Cardinality(Objs) >= Cardinality(Names)
            BY <2>2, ObjsFinite
        <3> QED
            BY <2>1, <2>2, <3>1, ObjsFinite
    <2>4. Injection(named, Objs) # {}
        BY <2>1, <2>3, InjectionExists
    <2> QED
        BY <2>4 DEF Injection
<1>10. \A o \in Elems(number) : source(o) \in s
    BY <1>9 DEF Elems
<1> HIDE DEF named, number, source
<1>11. servers \in [Names -> Objs \union {NoObj}]
    BY <1>2, <1>9
<1>12. load = [at |-> "start servers", guard |-> NoRoute, tokens |-> {}]
    BY DEF Init, NoLoad
<1>13. HeapOK
    <2>1. Elems(servers) \union {NoObj} = Elems(number) \union {NoObj}
        BY <1>2, <1>8, <1>9 DEF Elems
    <2>2. Elems(obj) \subseteq {NoObj} /\ tokens = {} /\ load.tokens = {}
        BY <1>4, <1>5, <1>12 DEF Elems
    <2>3. ServerOf(guard) = {} /\ ServerOf(load.guard) = {}
        BY <1>5, <1>12, GuardType
    <2>4. \A v \in Visits : ServerOf(visit[v].guard) = {}
        <3>1. Idle.guard = NoRoute
            BY DEF Idle
        <3> QED
            BY <1>5, <3>1, GuardType
    <2>5. NoObj \notin Elems(number)
        BY <1>9, ObjsFinite DEF Elems
    <2>6. Live = Elems(number)
        BY <2>1, <2>2, <2>3, <2>4, <2>5 DEF Live
    <2> QED
        BY <1>2, <1>7, <1>10, <2>6 DEF HeapOK
<1>14. HandlersOK
    <2>1. MaxOps[backend] \in Nat
        BY <1>3, SetsAssumption
    <2>2. NoRequest.op = "none"
        BY DEF NoRequest
    <2> QED
        BY <1>3, <1>4, <2>1, <2>2 DEF HandlersOK
<1>15. RoutesOK
    <2>1. loads \in 0 .. MaxLoads
        BY <1>5, SetsAssumption
    <2>2. load \in [at : {"idle", "start servers", "start apis", "apis", "servers", "swap"},
                    guard : Guard, tokens : SUBSET Objs]
        BY <1>12, GuardType
    <2>3. load.tokens = {} /\ load.guard = NoRoute
        BY <1>12
    <2> QED
        BY <1>5, <2>1, <2>2, <2>3, NoneBound, GuardType DEF RoutesOK
<1>16. VisitsOK
    <2>1. Idle = [at |-> "idle", guard |-> NoRoute, key |-> NoKey, claim |-> "none", rule |-> 1,
                  served |-> 0]
        BY DEF Idle
    <2>2. VisitOK(Idle)
        BY <2>1, GuardType DEF VisitOK, VisitType
    <2> QED
        BY <1>5, <2>2 DEF VisitsOK, VisitOK, VisitType
<1>17. QueryTypeOK
    BY <1>3, AttemptsAssumption, FailuresAssumption DEF QueryInit, QueryTypeOK
<1> QED
    BY <1>3, <1>6, <1>11, <1>13, <1>14, <1>15, <1>16, <1>17 DEF TypeInv, StoreOK, HistoryOK

LEMMA NextOK == TypeInv /\ [Next]_vars => TypeInv'
<1> SUFFICES ASSUME TypeInv, [Next]_vars PROVE TypeInv'
    OBVIOUS
<1>1. CASE Next
    BY <1>1, HandlerStepOK, LoadStepOK, VisitStepOK DEF Next
<1>2. CASE UNCHANGED vars
    <2>1. /\ UNCHANGED <<backend, servers, heap, req, at, obj, ops, alone, load, loads, guard,
                         tokens, lookedUp>>
          /\ UNCHANGED <<visit, up, attempt, failures, quiet, posted, mustDeny>>
        BY <1>2 DEF vars, storeVars, handlerVars, routeVars, queryVars, history
    <2>2. StoreOK' /\ HandlersOK' /\ RoutesOK' /\ VisitsOK' /\ HistoryOK'
        BY <2>1 DEF TypeInv, StoreOK, HandlersOK, RoutesOK, VisitsOK, HistoryOK, QueryTypeOK
    <2>3. HeapOK'
        BY <2>1, LiveSame, SameHeapOK DEF TypeInv
    <2> QED
        BY <2>2, <2>3 DEF TypeInv
<1> QED
    BY <1>1, <1>2

\* The handlers, the load and the requests on the gateway find every server they refer to,
\* and there is room for one more and for a copy of all: no object is taken twice.
THEOREM TypeCorrect == Spec => []TypeOK
<1>1. Spec => []TypeInv
    BY InitOK, NextOK, PTL DEF Spec
<1> QED
    BY <1>1, TypeInvIsType, PTL

----------------------------------------------------------------------------
(* A request that its first rule denies.                                   *)

\* As long as it is checked it is at that rule, and nothing has served it.
Denied(v) ==
    mustDeny[v] =>
        /\ visit[v].served = 0
        /\ visit[v].at \in Ended \/ (FirstDenies(v) /\ visit[v].rule = 1)

DenyInv == \A v \in Visits : Denied(v)

\* What a step of a request does to it.
Progress(v) ==
    /\ visit[v].at \notin Ended
    /\ visit[v].at = "idle" => visit'[v].at \in {"key"} \union Ended
    /\ (visit[v].at # "idle" /\ FirstDenies(v) /\ visit[v].rule = 1 /\ visit[v].served = 0) =>
          /\ visit'[v].served = 0
          /\ visit'[v].at \in Ended \/ visit'[v].rule = 1

LEMMA CheckedGoes ==
    ASSUME TypeInv, NEW v \in Visits, visit[v].at \in {"key", "rule", "parse"}, NEW how,
           NEW rule \in Nat, NEW served \in Nat, Checked(v, how, rule, served)
    PROVE  /\ visit'[v].at = how /\ visit'[v].served = served
           /\ how \in Ended \/ visit'[v].rule = rule
           /\ \A u \in Visits \ {v} : visit'[u] = visit[u]
BY FinishOK, OnwardOK DEF Checked

LEMMA OthersStay ==
    ASSUME TypeInv, NEW v \in Visits, VisitStep(v), NEW u \in Visits \ {v}
    PROVE  visit'[u] = visit[u]
<1>1. \A changes : To(v, changes) => visit'[u] = visit[u]
    BY VisitsType DEF To
<1>2. \A how, served : Finish(v, how, served) => visit'[u] = visit[u]
    BY VisitsType DEF Finish
<1>3. ASSUME NEW token \in Tokens, Arrive(v, token) PROVE visit'[u] = visit[u]
    BY <1>1, <1>2, <1>3 DEF Arrive
<1>4. ASSUME NEW o \in tokens, NEW app \in Apps, Token(v, o, app) PROVE visit'[u] = visit[u]
    BY <1>2, <1>4 DEF Token
<1>5. ASSUME CheckKey(v) PROVE visit'[u] = visit[u]
    BY <1>1, <1>2, <1>5 DEF CheckKey
<1>6. \A allowed : Judge(v, allowed) => visit'[u] = visit[u]
    BY <1>1, <1>2 DEF Judge, Allowed
<1>7. ASSUME IsAllowed(v) PROVE visit'[u] = visit[u]
    BY <1>1, <1>6, <1>7 DEF IsAllowed
<1>8. ASSUME Parse(v) PROVE visit'[u] = visit[u]
    BY <1>1, <1>2, <1>6, <1>8 DEF Parse, Skipped
<1> QED
    BY <1>3, <1>4, <1>5, <1>7, <1>8 DEF VisitStep

LEMMA StepProgress ==
    ASSUME TypeInv, NEW v \in Visits, VisitStep(v)
    PROVE  Progress(v)
<1>1. 0 \in Nat /\ 1 \in Nat /\ VisitOK(visit[v]) /\ visit \in [Visits -> VisitType]
    BY VisitsType
<1>2. ASSUME NEW token \in Tokens, Arrive(v, token) PROVE Progress(v)
    <2>1. visit[v].at = "idle"
        BY <1>2 DEF Arrive
    <2>2. visit'[v].at \in {"key"} \union Ended
        <3>1. CASE Finish(v, "done", 1) \/ Finish(v, "refused", 0)
            BY <1>1, <3>1, FinishOK DEF Ended
        <3>2. CASE To(v, [at |-> "key", key |-> token.key, claim |-> token.claim, guard |-> guard])
            BY <1>1, <3>2, ToIs
        <3> QED
            BY <1>2, <3>1, <3>2 DEF Arrive
    <2> QED
        BY <2>1, <2>2 DEF Progress, Ended
<1>3. ASSUME NEW o \in tokens, NEW app \in Apps, Token(v, o, app) PROVE Progress(v)
    <2>1. visit[v].at = "idle" /\ (Finish(v, "done", 1) \/ Finish(v, "refused", 0))
        BY <1>3 DEF Token
    <2>2. visit'[v].at \in Ended
        BY <1>1, <2>1, FinishOK DEF Ended
    <2> QED
        BY <2>1, <2>2 DEF Progress, Ended
<1>4. ASSUME CheckKey(v) PROVE Progress(v)
    <2>1. visit[v].at = "key"
        BY <1>4, CheckKeyIs
    <2>2. PICK how \in Ended \union {"rule"}, served \in Nat :
            Checked(v, how, 1, served) /\ (FirstDenies(v) => served = 0)
        <3>1. FirstDenies(v) => RulesOf(v) # <<>> /\ visit[v].key \in visit[v].guard.keys
            BY DEF FirstDenies
        <3> QED
            BY <1>1, <1>4, <3>1, CheckKeyIs DEF Ended
    <2>3. /\ visit'[v].at = how /\ visit'[v].served = served
          /\ how \in Ended \/ visit'[v].rule = 1
        BY <1>1, <2>1, <2>2, CheckedGoes
    <2> QED
        BY <2>1, <2>2, <2>3 DEF Progress, Ended
<1>5. ASSUME IsAllowed(v) PROVE Progress(v)
    <2>1. visit[v].at = "rule"
        BY <1>5, IsAllowedIs
    <2>2. PICK how \in Ended \union {"rule", "parse"}, rule \in Nat, served \in Nat :
            /\ Checked(v, how, rule, served)
            /\ how = "parse" => rule = visit[v].rule /\ served = visit[v].served
            /\ how # "parse" /\ ~ParsedAllows(RulesOf(v)[visit[v].rule])
                 => how = "denied" /\ served = visit[v].served
        BY <1>5, IsAllowedIs
    <2>3. /\ visit'[v].at = how /\ visit'[v].served = served
          /\ how \in Ended \/ visit'[v].rule = rule
        BY <2>1, <2>2, CheckedGoes
    <2>4. FirstDenies(v) /\ visit[v].rule = 1 => ~ParsedAllows(RulesOf(v)[visit[v].rule])
        BY DEF FirstDenies, ParsedAllows
    <2> QED
        BY <2>1, <2>2, <2>3, <2>4 DEF Progress, Ended
<1>6. ASSUME Parse(v) PROVE Progress(v)
    <2>1. visit[v].at = "parse"
        BY <1>6, ParseIs
    <2> DEFINE r == RulesOf(v)[visit[v].rule]
    <2>2. PICK how \in Ended \union {"rule"}, rule \in Nat, served \in Nat :
            /\ Checked(v, how, rule, served)
            /\ r.says[visit[v].claim] = "match" /\ ~r.allow
                 => how = "denied" /\ served = visit[v].served
        BY <1>6, ParseIs
    <2>3. /\ visit'[v].at = how /\ visit'[v].served = served
        BY <2>1, <2>2, CheckedGoes
    <2>4. FirstDenies(v) /\ visit[v].rule = 1
            => r.says[visit[v].claim] = "match" /\ ~r.allow
        BY DEF FirstDenies
    <2> HIDE DEF r
    <2> QED
        BY <2>1, <2>2, <2>3, <2>4 DEF Progress, Ended
<1> QED
    BY <1>2, <1>3, <1>4, <1>5, <1>6 DEF VisitStep

LEMMA DenyStep ==
    ASSUME TypeInv, TypeInv', Next, DenyInv
    PROVE  DenyInv'
<1> SUFFICES ASSUME NEW v \in Visits, mustDeny'[v] PROVE Denied(v)'
    BY DEF DenyInv, Denied
<1>1. mustDeny' = [u \in Visits |->
                     IF visit[u].at = "idle" THEN FirstDenies(u)'
                     ELSE mustDeny[u] /\ (visit'[u].at \in Ended \/ FirstDenies(u)')]
    BY DEF Next, History
<1>2. IF visit[v].at = "idle" THEN FirstDenies(v)'
      ELSE mustDeny[v] /\ (visit'[v].at \in Ended \/ FirstDenies(v)')
    BY <1>1
<1>3. Denied(v) /\ VisitOK(visit'[v])
    BY DEF DenyInv, TypeInv, VisitsOK, VisitOK, VisitType
<1>4. FirstDenies(v)' => visit'[v].at \notin Ended \union {"idle"}
    BY <1>3 DEF FirstDenies, VisitOK, NoRoute
<1>5. FirstDenies(v) => visit[v].at \notin Ended \union {"idle"}
    BY VisitsType DEF FirstDenies, VisitOK, NoRoute
<1>6. CASE visit'[v] = visit[v]
    <2>1. visit[v].at # "idle"
        BY <1>2, <1>4, <1>6
    <2>2. mustDeny[v] /\ (visit'[v].at \in Ended \/ FirstDenies(v)')
        BY <1>2, <2>1
    <2> QED
        BY <1>3, <1>5, <1>6, <2>2 DEF Denied
<1>7. CASE Progress(v)
    <2>1. CASE visit[v].at = "idle"
        <3>1. FirstDenies(v)'
            BY <1>2, <2>1
        <3>2. visit'[v].at = "key"
            BY <1>4, <1>7, <2>1, <3>1 DEF Progress
        <3> QED
            BY <1>3, <3>1, <3>2 DEF Denied, VisitOK
    <2>2. CASE visit[v].at # "idle"
        <3>1. mustDeny[v] /\ (visit'[v].at \in Ended \/ FirstDenies(v)')
            BY <1>2, <2>2
        <3>2. /\ visit'[v].served = 0
              /\ visit'[v].at \in Ended \/ visit'[v].rule = 1
            BY <1>3, <1>7, <2>2, <3>1 DEF Denied, Progress
        <3> QED
            BY <3>1, <3>2 DEF Denied
    <2> QED
        BY <2>1, <2>2
<1>8. visit'[v] = visit[v] \/ Progress(v)
    BY StepProgress, OthersStay DEF Next, HandlerStep, LoadStep
<1> QED
    BY <1>6, <1>7, <1>8

\* A request that the first rule denies reaches no upstream: not when another request has
\* parsed the rule first, not when a reload changes the routes, not when a PUT works on the
\* same rule (AccessRule.IsAllowed, NewRevokeRulesMiddleware).
THEOREM DenyCorrect == Spec => []DenyHolds
<1>1. Init => DenyInv
    BY DEF Init, DenyInv, Denied
<1>2. TypeInv /\ TypeInv' /\ DenyInv /\ [Next]_vars => DenyInv'
    <2> SUFFICES ASSUME TypeInv, TypeInv', DenyInv, [Next]_vars PROVE DenyInv'
        OBVIOUS
    <2>1. CASE Next
        BY <2>1, DenyStep
    <2>2. CASE UNCHANGED vars
        BY <2>2 DEF vars, routeVars, storeVars, history, DenyInv, Denied, FirstDenies, RulesOf
    <2> QED
        BY <2>1, <2>2
<1>3. TypeInv /\ DenyInv => DenyHolds
    BY DEF DenyInv, Denied, DenyHolds
<1> QED
    BY <1>1, <1>2, <1>3, InitOK, NextOK, PTL DEF Spec

----------------------------------------------------------------------------
(* A server that a POST stored.                                            *)

\* Until a POST has stored its server nobody else has it, and it is as it came.
Unshared(h) ==
    at[h] = "add" =>
        /\ obj[h] \notin Elems(servers)
        /\ \A g \in Handlers \ {h} : obj[g] # obj[h]
        /\ Row(heap[obj[h]]) = Row(req[h].body)

AloneInv == \A h \in Handlers : alone[h] => \A g \in Handlers \ {h} : ~Overlap(req[h], req[g])

\* The request may change the server of that name.
MayChange(q, n) ==
    q.op \in {"put", "delete"} \/ (backend = "cassandra" /\ q.op = "post" /\ q.body.name = n)

\* Nothing that is going on may change a server that a POST has stored.
PostedOK(n) ==
    posted[n] # NoServer =>
        /\ servers[n] # NoObj /\ Row(heap[servers[n]]) = posted[n]
        /\ \A g \in Handlers : ~MayChange(req[g], n)

PostInv == (\A h \in Handlers : Unshared(h)) /\ AloneInv /\ (\A n \in Names : PostedOK(n))

\* The servers are what they were, but for those in X.
Keeps(X) == \A o \in (Live \intersect Live') \ X : Row(heap'[o]) = Row(heap[o])

LEMMA CollectKeeps ==
    ASSUME NEW h, Collect(h), NEW X, \A o \in Live \ X : Row(h[o]) = Row(heap[o])
    PROVE  Keeps(X)
BY DEF Collect, Keeps

LEMMA WithKeeps ==
    ASSUME NEW o, NEW content, NEW X, o \notin Live \ X \/ content = heap[o],
           Collect(With(o, content))
    PROVE  Keeps(X)
<1>1. \A x \in Live \ X : With(o, content)[x] = heap[x]
    BY DEF With
<1> QED
    BY <1>1, CollectKeeps

LEMMA SameKeeps ==
    ASSUME UNCHANGED heap, NEW X
    PROVE  Keeps(X)
BY DEF Keeps

\* What the invariant speaks of is live.
PostTyped ==
    /\ servers \in [Names -> Objs \union {NoObj}] /\ obj \in [Handlers -> Objs \union {NoObj}]
    /\ \A n \in Names : servers[n] # NoObj => servers[n] \in Live
    /\ \A h \in Handlers : obj[h] # NoObj => obj[h] \in Live
    /\ \A h \in Handlers : at[h] = "add" => obj[h] # NoObj
    /\ DOMAIN heap = Live /\ (\A o \in Live : heap[o] \in Server)
    /\ posted \in [Names -> Server \union {NoServer}]
    /\ req \in [Handlers -> Requests \union {NoRequest}]
    /\ alone \in [Handlers -> BOOLEAN]
    /\ at \in [Handlers -> {"idle", "find", "decode", "decoding", "add", "save", "remove"}]

LEMMA PostTypes == TypeInv => PostTyped
BY Reached DEF PostTyped, TypeInv, StoreOK, HandlersOK, HistoryOK, HeapOK

LEMMA PostTypesNext == TypeInv' => PostTyped'
BY PostTypes, PTL

\* The load and the requests on the gateway.
LEMMA PostKept ==
    ASSUME TypeInv, TypeInv', PostInv, UNCHANGED <<backend, servers, handlerVars, posted>>,
           Keeps({})
    PROVE  PostInv'
<1>1. /\ UNCHANGED <<backend, servers, req, at, obj, alone, posted>>
      /\ \A o \in Live \intersect Live' : Row(heap'[o]) = Row(heap[o])
    BY DEF handlerVars, Keeps
<1>2. ASSUME NEW h \in Handlers PROVE Unshared(h)'
    <2>1. at[h] = "add" => obj[h] \in Live /\ obj[h] \in Live'
        BY <1>1, PostTypes, PostTypesNext DEF PostTyped
    <2> QED
        BY <1>1, <2>1 DEF PostInv, Unshared, Elems
<1>3. AloneInv'
    BY <1>1 DEF PostInv, AloneInv, Overlap
<1>4. ASSUME NEW n \in Names PROVE PostedOK(n)'
    <2>1. servers[n] # NoObj => servers[n] \in Live /\ servers[n] \in Live'
        BY <1>1, PostTypes, PostTypesNext DEF PostTyped
    <2> QED
        BY <1>1, <2>1 DEF PostInv, PostedOK, MayChange
<1> QED
    BY <1>2, <1>3, <1>4 DEF PostInv

LEMMA LoadKeeps ==
    ASSUME TypeInv, LoadStep
    PROVE  Keeps({})
<1>1. \A o \in Live : o # Fresh
    BY FreshIsFree
<1>2. ASSUME LoadApi PROVE Keeps({})
    <2> DEFINE o == servers[ApiServer]
    <2>1. \/ UNCHANGED heap \/ Collect(heap)
          \/ Collect(With(o, heap[o])) \/ Collect(With(Fresh, heap[o]))
        BY <1>2 DEF LoadApi
    <2> QED
        BY <1>1, <2>1, SameKeeps, WithKeeps, CollectKeeps
<1>3. ASSUME LoadServers PROVE Keeps({})
    <2> DEFINE found == {o \in Elems(servers) \ {NoObj} : Loadable(heap[o])}
               copies == CHOOSE f \in Injection(found, Objs \ Live) : TRUE
               source(x) == CHOOSE o \in found : copies[o] = x
               copied == [x \in Live \union Elems(copies) |->
                            IF x \in Elems(copies) THEN heap[source(x)] ELSE heap[x]]
    <2>1. UNCHANGED heap \/ Collect(heap) \/ Collect(copied)
        BY <1>3 DEF LoadServers
    <2>2. copies \in [found -> Objs \ Live]
        <3>1. found \subseteq Elems(servers) \ {NoObj}
            OBVIOUS
        <3> HIDE DEF found
        <3> QED
            BY <3>1, CopiesOK
    <2>3. \A x \in Live : copied[x] = heap[x]
        <3>1. \A x \in Elems(copies) : x \notin Live
            BY <2>2 DEF Elems
        <3> HIDE DEF copies, source
        <3> QED
            BY <3>1
    <2> HIDE DEF copied
    <2> QED
        BY <2>1, <2>3, SameKeeps, CollectKeeps
<1>4. ASSUME Reload PROVE Keeps({})
    BY <1>4, SameKeeps DEF Reload, storeVars
<1>5. ASSUME Swap PROVE Keeps({})
    BY <1>5, CollectKeeps DEF Swap
<1> QED
    BY <1>2, <1>3, <1>4, <1>5 DEF LoadStep

LEMMA VisitKeeps ==
    ASSUME TypeInv, NEW v \in Visits, VisitStep(v)
    PROVE  Keeps({}) /\ UNCHANGED servers
<1>1. ASSUME NEW token \in Tokens, Arrive(v, token) PROVE UNCHANGED <<servers, heap>>
    BY <1>1 DEF Arrive, storeVars
<1>2. ASSUME NEW o \in tokens, NEW app \in Apps, Token(v, o, app) PROVE UNCHANGED <<servers, heap>>
    BY <1>2 DEF Token, storeVars
<1>3. ASSUME CheckKey(v) \/ IsAllowed(v) PROVE Collect(heap) /\ UNCHANGED servers
    BY <1>3 DEF CheckKey, IsAllowed
<1>4. ASSUME Parse(v) PROVE Keeps({}) /\ UNCHANGED servers
    BY <1>4, ParseIs, ParsedOK, CollectKeeps
<1> QED
    BY <1>1, <1>2, <1>3, <1>4, SameKeeps, CollectKeeps DEF VisitStep

\* A step of h leaves the other handlers where they are.
Frame(h) ==
    /\ \A g \in Handlers \ {h} :
         req'[g] = req[g] /\ at'[g] = at[g] /\ obj'[g] = obj[g] /\ (alone'[g] => alone[g])
    /\ UNCHANGED backend

\* The request of h goes on or has been answered.
Proceeds(h) ==
    /\ req'[h] = req[h] \/ req'[h] = NoRequest
    /\ alone'[h] => alone[h]

LEMMA FrameOf ==
    ASSUME TypeInv, NEW h \in Handlers, UNCHANGED backend,
           \/ Answer(h)
           \/ \E next : GoOn(h, next) /\ (UNCHANGED obj \/ \E o : obj' = [obj EXCEPT ![h] = o])
    PROVE  Frame(h) /\ Proceeds(h)
<1>1. PostTyped
    BY PostTypes
<1>2. CASE Answer(h)
    BY <1>1, <1>2 DEF PostTyped, Answer, Frame, Proceeds
<1>3. ASSUME NEW next, GoOn(h, next), UNCHANGED obj \/ \E o : obj' = [obj EXCEPT ![h] = o]
      PROVE  Frame(h) /\ Proceeds(h)
    BY <1>1, <1>3 DEF PostTyped, GoOn, Frame, Proceeds
<1> QED
    BY <1>2, <1>3

\* What another handler has begun to add stays its own.
LEMMA OthersUnshared ==
    ASSUME TypeInv, TypeInv', PostInv, NEW h \in Handlers, Frame(h), Keeps({obj[h]}),
           Elems(servers') \subseteq Elems(servers) \union {Fresh, obj[h], NoObj},
           obj'[h] \in Elems(servers) \union {Fresh, obj[h], NoObj},
           NEW g \in Handlers \ {h}
    PROVE  Unshared(g)'
<1> SUFFICES ASSUME at'[g] = "add"
             PROVE  /\ obj'[g] \notin Elems(servers')
                    /\ \A f \in Handlers \ {g} : obj'[f] # obj'[g]
                    /\ Row(heap'[obj'[g]]) = Row(req'[g].body)
    BY DEF Unshared, Elems
<1>1. at[g] = "add" /\ obj'[g] = obj[g] /\ req'[g] = req[g]
    BY DEF Frame
<1>2. /\ obj[g] \notin Elems(servers) /\ obj[g] # obj[h]
      /\ \A f \in Handlers \ {g} : obj[f] # obj[g]
      /\ Row(heap[obj[g]]) = Row(req[g].body)
    BY <1>1 DEF PostInv, Unshared
<1>3. obj[g] # NoObj /\ obj[g] \in Live /\ obj[g] \in Live'
    BY <1>1, PostTypes, PostTypesNext DEF PostTyped
<1>4. obj[g] # Fresh
    BY <1>3, FreshIsFree
<1>5. obj'[g] \notin Elems(servers') /\ obj'[h] # obj'[g]
    BY <1>1, <1>2, <1>3, <1>4
<1>6. \A f \in Handlers \ {g} : obj'[f] # obj'[g]
    BY <1>1, <1>2, <1>5 DEF Frame
<1>7. Row(heap'[obj'[g]]) = Row(req'[g].body)
    BY <1>1, <1>2, <1>3 DEF Keeps
<1> QED
    BY <1>5, <1>6, <1>7

LEMMA AloneKept ==
    ASSUME TypeInv, PostInv, NEW h \in Handlers, Frame(h), Proceeds(h)
    PROVE  AloneInv'
<1> SUFFICES ASSUME NEW f \in Handlers, alone'[f], NEW g \in Handlers \ {f}
             PROVE  ~Overlap(req[f], req[g])'
    BY DEF AloneInv
<1>1. alone[f] /\ ~Overlap(req[f], req[g])
    BY DEF Frame, Proceeds, PostInv, AloneInv
<1>2. /\ req'[f] = req[f] \/ req'[f] = NoRequest
      /\ req'[g] = req[g] \/ req'[g] = NoRequest
    BY DEF Frame, Proceeds
<1>3. NoRequest.op = "none" /\ UNCHANGED backend
    BY DEF NoRequest, Frame
<1> QED
    BY <1>1, <1>2, <1>3 DEF Overlap

\* While a PUT or a DELETE is going on nothing counts as stored by a POST.
LEMMA ChangerSteps ==
    ASSUME TypeInv, TypeInv', PostInv, NEW h \in Handlers, Frame(h), Proceeds(h),
           Keeps({obj[h]}), UNCHANGED posted, at'[h] # "add", req[h].op \in {"put", "delete"},
           Elems(servers') \subseteq Elems(servers) \union {Fresh, obj[h], NoObj},
           obj'[h] \in Elems(servers) \union {Fresh, obj[h], NoObj}
    PROVE  PostInv'
<1>1. \A n \in Names : posted[n] = NoServer
    BY DEF PostInv, PostedOK, MayChange
<1>2. \A n \in Names : PostedOK(n)'
    BY <1>1 DEF PostedOK
<1>3. Unshared(h)'
    BY DEF Unshared
<1> QED
    BY <1>2, <1>3, OthersUnshared, AloneKept DEF PostInv

LEMMA PutFindKeeps ==
    ASSUME TypeInv, TypeInv', PostInv, Aside, NEW h \in Handlers, PutFind(h)
    PROVE  PostInv'
<1>1. /\ at[h] = "find" /\ UNCHANGED <<servers, posted>> /\ req[h] \in Requests
      /\ req[h].op = "put" /\ PostTyped
    BY PostTypes DEF PutFind, TypeInv, HandlersOK
<1> DEFINE o == servers[req[h].name]
<1>2. o \in Elems(servers)
    BY <1>1, RequestType DEF Elems, PostTyped
<1>3. \/ GoOn(h, "find") /\ UNCHANGED <<obj, heap>>
      \/ GoOn(h, "decode") /\ obj' = [obj EXCEPT ![h] = o] /\ UNCHANGED heap
      \/ GoOn(h, "decode") /\ obj' = [obj EXCEPT ![h] = Fresh] /\ Collect(With(Fresh, heap[o]))
      \/ Answer(h) /\ UNCHANGED heap
    BY DEF PutFind
<1> HIDE DEF o
<1>4. Frame(h) /\ Proceeds(h)
    BY <1>3, FrameOf DEF Aside
<1>5. Fresh \notin Live
    BY FreshIsFree
<1>6. Keeps({obj[h]})
    BY <1>3, <1>5, SameKeeps, WithKeeps
<1>7. at'[h] # "add" /\ obj'[h] \in Elems(servers) \union {Fresh, obj[h], NoObj}
    BY <1>1, <1>2, <1>3 DEF PostTyped, GoOn, Answer
<1>8. Elems(servers') = Elems(servers)
    BY <1>1
<1> QED
    BY <1>1, <1>4, <1>6, <1>7, <1>8, ChangerSteps

LEMMA PutDecodeKeeps ==
    ASSUME TypeInv, TypeInv', PostInv, Aside, NEW h \in Handlers, PutDecode(h)
    PROVE  PostInv'
<1>1. /\ UNCHANGED <<servers, obj, posted>> /\ req[h].op = "put" /\ PostTyped
      /\ GoOn(h, "decoding") /\ Collect(With(obj[h], Decoded(heap[obj[h]], req[h].body)))
    BY PostTypes DEF PutDecode, TypeInv, HandlersOK
<1>2. Frame(h) /\ Proceeds(h)
    BY <1>1, FrameOf DEF Aside
<1>3. Keeps({obj[h]})
    BY <1>1, WithKeeps
<1>4. at'[h] # "add"
    BY <1>1 DEF PostTyped, GoOn
<1>5. Elems(servers') = Elems(servers) /\ obj'[h] = obj[h]
    BY <1>1
<1> QED
    BY <1>1, <1>2, <1>3, <1>4, <1>5, ChangerSteps

LEMMA PutDecodedKeeps ==
    ASSUME TypeInv, TypeInv', PostInv, Aside, NEW h \in Handlers, PutDecoded(h)
    PROVE  PostInv'
<1>1. /\ UNCHANGED <<servers, posted>> /\ req[h].op = "put" /\ PostTyped /\ Collect(heap)
      /\ Answer(h) \/ (GoOn(h, "save") /\ UNCHANGED obj)
    BY PostTypes DEF PutDecoded, TypeInv, HandlersOK
<1>2. Frame(h) /\ Proceeds(h)
    BY <1>1, FrameOf DEF Aside
<1>3. Keeps({obj[h]})
    BY <1>1, CollectKeeps
<1>4. at'[h] # "add" /\ obj'[h] \in {obj[h], NoObj}
    BY <1>1 DEF PostTyped, GoOn, Answer
<1>5. Elems(servers') = Elems(servers)
    BY <1>1
<1> QED
    BY <1>1, <1>2, <1>3, <1>4, <1>5, ChangerSteps

\* A write keeps the servers that it does not write.
LEMMA WrittenKeeps ==
    ASSUME TypeInv, NEW h \in Handlers, Written(h)
    PROVE  /\ Keeps({})
           /\ Elems(servers') \subseteq Elems(servers) \union {Fresh, obj[h], NoObj}
<1>1. Fresh \notin Live
    BY FreshIsFree
<1> DEFINE name == heap[obj[h]].name
           content == Row(heap[obj[h]])
<1>2. /\ \/ UNCHANGED servers
         \/ servers' = [servers EXCEPT ![name] = Fresh]
         \/ servers' = [servers EXCEPT ![name] = obj[h]]
         \/ servers' = [servers EXCEPT ![req[h].name] = NoObj]
      /\ Collect(heap) \/ Collect(With(Fresh, content))
    BY DEF Written, NoWrite, Upsert, Delete, Store
<1> HIDE DEF name, content
<1>3. Keeps({})
    BY <1>1, <1>2, WithKeeps, CollectKeeps
<1>4. \A n, o : Elems([servers EXCEPT ![n] = o]) \subseteq Elems(servers) \union {o}
    BY ElemsExcept
<1>5. \/ Elems(servers') = Elems(servers)
      \/ Elems(servers') \subseteq Elems(servers) \union {Fresh}
      \/ Elems(servers') \subseteq Elems(servers) \union {obj[h]}
      \/ Elems(servers') \subseteq Elems(servers) \union {NoObj}
    BY <1>2, <1>4
<1> QED
    BY <1>3, <1>5

LEMMA KeepsMore ==
    ASSUME Keeps({}), NEW X
    PROVE  Keeps(X)
BY DEF Keeps

LEMMA PutSaveKeeps ==
    ASSUME TypeInv, TypeInv', PostInv, Aside, NEW h \in Handlers, PutSave(h)
    PROVE  PostInv'
<1>1. /\ UNCHANGED posted /\ req[h].op = "put" /\ PostTyped /\ obj[h] # NoObj /\ QueryTypeOK
      /\ Answer(h) \/ (GoOn(h, "save") /\ UNCHANGED obj)
      /\ \E result : Save(h, result)
    BY PostTypes DEF PutSave, TypeInv, HandlersOK, StoreOK
<1>2. Frame(h) /\ Proceeds(h)
    BY <1>1, FrameOf DEF Aside
<1>3. Written(h)
    BY <1>1, SaveEffect
<1>4. at'[h] # "add" /\ obj'[h] \in {obj[h], NoObj}
    BY <1>1 DEF PostTyped, GoOn, Answer
<1> QED
    BY <1>1, <1>2, <1>3, <1>4, WrittenKeeps, KeepsMore, ChangerSteps

LEMMA DeleteByKeeps ==
    ASSUME TypeInv, TypeInv', PostInv, Aside, NEW h \in Handlers, DeleteBy(h)
    PROVE  PostInv'
<1>1. /\ UNCHANGED posted /\ req[h].op = "delete" /\ PostTyped /\ QueryTypeOK
      /\ Answer(h) \/ (GoOn(h, "remove") /\ UNCHANGED obj)
      /\ \E result : Remove(h, result)
    BY PostTypes DEF DeleteBy, TypeInv, HandlersOK, StoreOK
<1>2. Frame(h) /\ Proceeds(h)
    BY <1>1, FrameOf DEF Aside
<1>3. Written(h)
    BY <1>1, RemoveEffect
<1>4. at'[h] # "add" /\ obj'[h] \in {obj[h], NoObj}
    BY <1>1 DEF PostTyped, GoOn, Answer
<1> QED
    BY <1>1, <1>2, <1>3, <1>4, WrittenKeeps, KeepsMore, ChangerSteps

\* What an attempt to add does: it succeeds only if it writes, and it writes over a server
\* of the same name only on cassandra.
AddWrites(h, result) ==
    \/ result # "ok" /\ NoWrite
    \/ Upsert(h) /\ (backend = "cassandra" \/ ~Taken(h))
    \/ result # "again" /\ Store(heap[obj[h]].name, obj[h]) /\ Collect(heap) /\ ~Taken(h)

LEMMA AddIs ==
    ASSUME NEW h \in Handlers, NEW result, Add(h, result)
    PROVE  AddWrites(h, result)
<1>1. ASSUME InMemoryAdd(h, result) PROVE AddWrites(h, result)
    <2>1. CASE Taken(h)
        BY <1>1, <2>1 DEF InMemoryAdd, AddWrites
    <2>2. CASE ~Taken(h)
        BY <1>1, <2>2 DEF InMemoryAdd, AddWrites
    <2> QED
        BY <2>1, <2>2
<1>2. ASSUME MongoAdd(h, result) PROVE AddWrites(h, result)
    BY <1>2 DEF MongoAdd, AddWrites
<1>3. ASSUME CassandraAdd(h, result), backend = "cassandra" PROVE AddWrites(h, result)
    BY <1>3 DEF CassandraAdd, AddWrites
<1> QED
    BY <1>1, <1>2, <1>3 DEF Add

LEMMA RowRow ==
    ASSUME NEW c \in Server
    PROVE  Row(Row(c)) = Row(c)
<1> DEFINE rules == [i \in DOMAIN c.rules |-> [c.rules[i] EXCEPT !.parsed = FALSE]]
           again == [i \in DOMAIN rules |-> [rules[i] EXCEPT !.parsed = FALSE]]
<1>1. \A i \in DOMAIN c.rules : [rules[i] EXCEPT !.parsed = FALSE] = rules[i]
    <2> TAKE i \in DOMAIN c.rules
    <2>1. c.rules[i] \in Rule
        BY DEF Server
    <2> QED
        BY <2>1, RuleParsed
<1>2. again = rules
    BY <1>1
<1>3. Row(c) = [c EXCEPT !.rules = rules] /\ Row(c).rules = rules
    BY DEF Row, Server
<1>4. Row(Row(c)) = [Row(c) EXCEPT !.rules = again]
    BY <1>3, RowType DEF Row, Server
<1> HIDE DEF rules, again
<1> QED
    BY <1>2, <1>3, <1>4 DEF Server

LEMMA PostKeeps ==
    ASSUME TypeInv, TypeInv', PostInv, Aside, NEW h \in Handlers, Post(h)
    PROVE  PostInv'
<1>1. /\ at[h] = "add" /\ req[h] \in Requests /\ req[h].op = "post" /\ PostTyped /\ PostTyped'
      /\ obj[h] # NoObj /\ QueryTypeOK
    BY PostTypes, PostTypesNext DEF Post, PostTyped, TypeInv, StoreOK, HandlersOK
<1>2. PICK result \in {"ok", "error", "again"} :
         /\ IF result = "again" THEN GoOn(h, "add") /\ UNCHANGED obj ELSE Answer(h)
         /\ posted' = IF result = "ok" /\ alone[h] /\ posted[req[h].body.name] = NoServer
                      THEN [posted EXCEPT ![req[h].body.name] = Row(req[h].body)]
                      ELSE posted
         /\ Add(h, result)
    BY DEF Post
<1> DEFINE o == obj[h]
           name == heap[o].name
<1>3. /\ o \in Live /\ heap[o] \in Server /\ name \in Names
      /\ Row(heap[o]) = Row(req[h].body) /\ req[h].body.name = name
      /\ o \notin Elems(servers) /\ (\A g \in Handlers \ {h} : obj[g] # o)
    <2>1. o \in Live /\ heap[o] \in Server /\ req[h].body \in Server
        BY <1>1, RequestType DEF PostTyped
    <2>2. /\ Row(heap[o]) = Row(req[h].body) /\ o \notin Elems(servers)
          /\ \A g \in Handlers \ {h} : obj[g] # o
        BY <1>1 DEF PostInv, Unshared
    <2>3. Row(heap[o]).name = name /\ Row(req[h].body).name = req[h].body.name
        BY <2>1, RowType
    <2> QED
        BY <2>1, <2>2, <2>3 DEF Server
<1>4. Frame(h) /\ Proceeds(h)
    BY <1>2, FrameOf DEF Aside
<1>5. Keeps({}) /\ Elems(servers') \subseteq Elems(servers) \union {Fresh, o, NoObj}
    <2>1. Written(h)
        BY <1>1, <1>2, AddEffect
    <2> QED
        BY <2>1, WrittenKeeps
<1>6. AddWrites(h, result)
    BY <1>2, AddIs
<1>7. Fresh \notin Live /\ Fresh # NoObj
    BY FreshIsFree
<1>8. obj'[h] \in {o, NoObj}
    BY <1>1, <1>2 DEF PostTyped, Answer
<1>9. \A g \in Handlers \ {h} : Unshared(g)'
    BY <1>4, <1>5, <1>8, KeepsMore, OthersUnshared
<1>10. Unshared(h)'
    <2> SUFFICES ASSUME at'[h] = "add"
                 PROVE  /\ obj'[h] \notin Elems(servers')
                        /\ \A g \in Handlers \ {h} : obj'[g] # obj'[h]
                        /\ Row(heap'[obj'[h]]) = Row(req'[h].body)
        BY DEF Unshared, Elems
    <2>1. result = "again"
        BY <1>1, <1>2 DEF PostTyped, Answer
    <2>2. obj' = obj /\ req' = req
        BY <1>2, <2>1 DEF GoOn
    <2>3. NoWrite \/ Upsert(h)
        BY <1>6, <2>1 DEF AddWrites
    <2>4. Elems(servers') \subseteq Elems(servers) \union {Fresh}
        <3>1. \A n, x : Elems([servers EXCEPT ![n] = x]) \subseteq Elems(servers) \union {x}
            BY ElemsExcept
        <3> QED
            BY <2>3, <3>1 DEF NoWrite, Upsert, Store
    <2>5. o \notin Elems(servers')
        BY <1>3, <1>7, <2>4
    <2>6. o \in Live'
        BY <1>1, <2>2 DEF PostTyped
    <2> HIDE DEF o
    <2>7. Row(heap'[o]) = Row(heap[o])
        BY <1>3, <1>5, <2>6 DEF Keeps
    <2> QED
        BY <1>3, <2>2, <2>5, <2>7 DEF o
<1>11. ASSUME NEW n \in Names PROVE PostedOK(n)'
    <2> SUFFICES ASSUME posted'[n] # NoServer
                 PROVE  /\ servers'[n] # NoObj /\ Row(heap'[servers'[n]]) = posted'[n]
                        /\ \A g \in Handlers : ~MayChange(req'[g], n)
        BY DEF PostedOK, MayChange, Aside
    <2>1. CASE posted'[n] = posted[n]
        <3>1. /\ servers[n] # NoObj /\ Row(heap[servers[n]]) = posted[n]
              /\ \A g \in Handlers : ~MayChange(req[g], n)
            BY <2>1 DEF PostInv, PostedOK
        <3>2. \A g \in Handlers : req'[g] = req[g] \/ req'[g] = NoRequest
            BY <1>4 DEF Frame, Proceeds
        <3>3. \A g \in Handlers : ~MayChange(req'[g], n)
            BY <3>1, <3>2 DEF MayChange, NoRequest
        <3>4. backend = "cassandra" => name # n
            BY <1>1, <1>3, <3>1 DEF MayChange
        <3>5. servers'[n] = servers[n]
            <4>1. ~Taken(h) => name # n
                BY <3>1 DEF Taken
            <4>2. UNCHANGED servers \/ (name # n /\ \E x : servers' = [servers EXCEPT ![name] = x])
                BY <1>6, <3>4, <4>1 DEF AddWrites, NoWrite, Upsert, Store
            <4> HIDE DEF name
            <4> QED
                BY <1>1, <4>2 DEF PostTyped
        <3>6. servers[n] \in Live /\ servers[n] \in Live'
            BY <1>1, <3>1, <3>5 DEF PostTyped
        <3>7. Row(heap'[servers[n]]) = Row(heap[servers[n]])
            BY <1>5, <3>6 DEF Keeps
        <3> QED
            BY <2>1, <3>1, <3>3, <3>5, <3>7
    <2>2. CASE posted'[n] # posted[n]
        <3>1. /\ result = "ok" /\ alone[h] /\ n = name /\ posted'[n] = Row(heap[o])
            <4>1. posted \in [Names -> Server \union {NoServer}]
                BY <1>1 DEF PostTyped
            <4> HIDE DEF name, o
            <4> QED
                BY <1>2, <1>3, <2>2, <4>1
        <3>2. req'[h] = NoRequest
            BY <1>1, <1>2, <3>1 DEF Answer, PostTyped
        <3>3. \A g \in Handlers \ {h} : req'[g] = req[g] /\ ~Overlap(req[h], req[g])
            BY <1>4, <3>1 DEF Frame, PostInv, AloneInv
        <3>4. ASSUME NEW g \in Handlers PROVE ~MayChange(req'[g], n)
            <4>1. CASE g = h
                BY <3>2, <4>1 DEF MayChange, NoRequest
            <4>2. CASE g # h
                BY <1>1, <1>3, <3>1, <3>3, <4>2 DEF MayChange, Overlap
            <4> QED
                BY <4>1, <4>2
        <3>5. /\ servers'[n] # NoObj
              /\ Row(heap'[servers'[n]]) = Row(heap[o])
            <4>1. CASE Upsert(h)
                <5>1. servers'[n] = Fresh
                    BY <1>1, <3>1, <4>1 DEF Upsert, Store, PostTyped
                <5>2. Fresh \in Live'
                    BY <1>1, <1>7, <5>1 DEF PostTyped
                <5>3. heap'[Fresh] = Row(heap[o])
                    BY <4>1, <5>2 DEF Upsert, Collect, With
                <5> QED
                    BY <1>3, <1>7, <5>1, <5>3, RowRow
            <4>2. CASE Store(name, o) /\ Collect(heap)
                <5>1. servers'[n] = o
                    BY <1>1, <3>1, <4>2 DEF Store, PostTyped
                <5>2. o \in Live'
                    BY <1>1, <5>1 DEF PostTyped
                <5> HIDE DEF o
                <5>3. heap'[o] = heap[o]
                    BY <4>2, <5>2 DEF Collect
                <5> QED
                    BY <1>1, <5>1, <5>3 DEF o
            <4> QED
                BY <1>6, <3>1, <4>1, <4>2 DEF AddWrites
        <3> QED
            BY <3>1, <3>4, <3>5
    <2> QED
        BY <2>1, <2>2
<1> QED
    BY <1>4, <1>9, <1>10, <1>11, AloneKept DEF PostInv

LEMMA OverlapBoth ==
    ASSUME NEW p, NEW q
    PROVE  Overlap(p, q) <=> Overlap(q, p)
BY DEF Overlap

LEMMA BeginKeeps ==
    ASSUME TypeInv, TypeInv', PostInv, Aside, NEW h \in Handlers, NEW q \in Requests, Begin(h, q)
    PROVE  PostInv'
<1>1. /\ at[h] = "idle" /\ PostTyped /\ PostTyped' /\ UNCHANGED <<servers, backend>>
      /\ req' = [req EXCEPT ![h] = q] /\ (at'[h] = "add" => q.op = "post")
      /\ \A g \in Handlers \ {h} : at'[g] = at[g]
    <2>1. PostTyped /\ PostTyped'
        BY PostTypes, PostTypesNext
    <2> QED
        BY <2>1, RequestType DEF Begin, Aside, PostTyped
<1>2. alone' = [g \in Handlers |->
                  IF g = h THEN \A f \in Handlers \ {h} : ~Overlap(q, req[f])
                  ELSE alone[g] /\ ~Overlap(q, req[g])]
    BY DEF Begin
<1>3. posted' = [n \in Names |->
                   IF q.op # "post" \/ (backend = "cassandra" /\ q.body.name = n) THEN NoServer
                   ELSE posted[n]]
    BY DEF Begin
<1>4. \/ q.op = "post" /\ obj' = [obj EXCEPT ![h] = Fresh] /\ Collect(With(Fresh, q.body))
      \/ q.op # "post" /\ UNCHANGED <<obj, heap>>
    BY DEF Begin
<1>5. Fresh \notin Live /\ Fresh # NoObj
    BY FreshIsFree
<1>6. Keeps({})
    BY <1>4, <1>5, SameKeeps, WithKeeps
<1>7. Frame(h) /\ Elems(servers') = Elems(servers)
    <2>1. \A g \in Handlers \ {h} : alone'[g] => alone[g]
        BY <1>2
    <2>2. \A g \in Handlers \ {h} : req'[g] = req[g] /\ obj'[g] = obj[g]
        BY <1>1, <1>4 DEF PostTyped
    <2> QED
        BY <1>1, <2>1, <2>2 DEF Frame
<1>8. obj'[h] \in {Fresh, obj[h]}
    BY <1>1, <1>4 DEF PostTyped
<1>9. \A g \in Handlers \ {h} : Unshared(g)'
    BY <1>6, <1>7, <1>8, KeepsMore, OthersUnshared
<1>10. Unshared(h)'
    <2> SUFFICES ASSUME at'[h] = "add"
                 PROVE  /\ obj'[h] \notin Elems(servers')
                        /\ \A g \in Handlers \ {h} : obj'[g] # obj'[h]
                        /\ Row(heap'[obj'[h]]) = Row(req'[h].body)
        BY DEF Unshared, Elems
    <2>1. obj'[h] = Fresh /\ Collect(With(Fresh, q.body)) /\ req'[h] = q
        BY <1>1, <1>4 DEF PostTyped
    <2>2. Fresh \notin Elems(servers')
        BY <1>1, <1>5, <1>7 DEF PostTyped, Elems
    <2>3. \A g \in Handlers \ {h} : obj'[g] # Fresh
        BY <1>1, <1>5, <1>7 DEF PostTyped, Frame
    <2>4. heap'[Fresh] = q.body
        <3>1. Fresh \in Live'
            BY <1>1, <1>5, <2>1 DEF PostTyped
        <3> QED
            BY <2>1, <3>1 DEF Collect, With
    <2> QED
        BY <2>1, <2>2, <2>3, <2>4
<1>11. AloneInv'
    <2> SUFFICES ASSUME NEW f \in Handlers, alone'[f], NEW g \in Handlers \ {f}
                 PROVE  ~Overlap(req'[f], req'[g])
        BY <1>1 DEF AloneInv, Overlap
    <2>1. CASE f = h
        <3>1. ~Overlap(q, req[g]) /\ req'[f] = q /\ req'[g] = req[g]
            BY <1>1, <1>2, <2>1 DEF PostTyped
        <3> QED
            BY <3>1
    <2>2. CASE g = h
        <3>1. ~Overlap(q, req[f]) /\ req'[g] = q /\ req'[f] = req[f]
            BY <1>1, <1>2, <2>2 DEF PostTyped
        <3> QED
            BY <3>1, OverlapBoth
    <2>3. CASE f # h /\ g # h
        <3>1. alone[f] /\ req'[f] = req[f] /\ req'[g] = req[g]
            BY <1>7, <2>3 DEF Frame
        <3> QED
            BY <3>1 DEF PostInv, AloneInv
    <2> QED
        BY <2>1, <2>2, <2>3
<1>12. ASSUME NEW n \in Names PROVE PostedOK(n)'
    <2> SUFFICES ASSUME posted'[n] # NoServer
                 PROVE  /\ servers'[n] # NoObj /\ Row(heap'[servers'[n]]) = posted'[n]
                        /\ \A g \in Handlers : ~MayChange(req'[g], n)
        BY <1>1 DEF PostedOK, MayChange
    <2>1. /\ posted'[n] = posted[n] /\ posted[n] # NoServer
          /\ q.op = "post" /\ ~(backend = "cassandra" /\ q.body.name = n)
        BY <1>3
    <2>2. /\ servers[n] # NoObj /\ Row(heap[servers[n]]) = posted[n]
          /\ \A g \in Handlers : ~MayChange(req[g], n)
        BY <2>1 DEF PostInv, PostedOK
    <2>3. \A g \in Handlers : ~MayChange(req'[g], n)
        <3>1. \A g \in Handlers : req'[g] = req[g] \/ req'[g] = q
            BY <1>1 DEF PostTyped
        <3> QED
            BY <2>1, <2>2, <3>1 DEF MayChange
    <2>4. servers[n] \in Live /\ servers[n] \in Live'
        BY <1>1, <2>2 DEF PostTyped
    <2>5. Row(heap'[servers[n]]) = Row(heap[servers[n]])
        BY <1>6, <2>4 DEF Keeps
    <2> QED
        BY <1>1, <2>1, <2>2, <2>3, <2>5
<1> QED
    BY <1>9, <1>10, <1>11, <1>12 DEF PostInv

LEMMA PostStep ==
    ASSUME TypeInv, TypeInv', PostInv, Next
    PROVE  PostInv'
<1>1. ASSUME NEW h \in Handlers, HandlerStep(h) PROVE PostInv'
    <2>1. Aside
        BY <1>1 DEF HandlerStep, routeVars, Aside, Next
    <2> QED
        BY <1>1, <2>1, PostKeeps, PutFindKeeps, PutDecodeKeeps, PutDecodedKeeps, PutSaveKeeps,
           DeleteByKeeps, BeginKeeps DEF HandlerStep
<1>2. ASSUME LoadStep PROVE PostInv'
    <2>1. UNCHANGED <<backend, servers, handlerVars, posted>>
        BY <1>2 DEF LoadStep, Reload, LoadApi, LoadServers, Swap, storeVars, Next
    <2> QED
        BY <1>2, <2>1, LoadKeeps, PostKept
<1>3. ASSUME NEW v \in Visits, VisitStep(v) PROVE PostInv'
    <2>1. UNCHANGED <<backend, handlerVars, posted>>
        BY <1>3 DEF VisitStep, Next
    <2> QED
        BY <1>3, <2>1, VisitKeeps, PostKept
<1> QED
    BY <1>1, <1>2, <1>3 DEF Next

\* A server that a POST stored stays, as it came, until a PUT or a DELETE begins: the check of
\* the name keeps other POSTs away from it, and on cassandra, which upserts, those of its name
\* count as changes (Controller.Post, Repository.Add, PutBy).
THEOREM PostedCorrect == Spec => []PostedStays
<1>1. Init => PostInv
    BY DEF Init, PostInv, Unshared, AloneInv, PostedOK
<1>2. TypeInv /\ TypeInv' /\ PostInv /\ [Next]_vars => PostInv'
    <2> SUFFICES ASSUME TypeInv, TypeInv', PostInv, [Next]_vars PROVE PostInv'
        OBVIOUS
    <2>1. CASE Next
        BY <2>1, PostStep
    <2>2. CASE UNCHANGED vars
        <3>1. UNCHANGED <<backend, servers, handlerVars, posted>> /\ UNCHANGED heap
            BY <2>2 DEF vars, storeVars, history
        <3> QED
            BY <3>1, SameKeeps, PostKept
    <2> QED
        BY <2>1, <2>2
<1>3. PostInv => PostedStays
    BY DEF PostInv, PostedOK, PostedStays
<1> QED
    BY <1>1, <1>2, <1>3, InitOK, NextOK, PTL DEF Spec

----------------------------------------------------------------------------
(* The routes and the datastore.                                           *)

Routed == tokens \union load.tokens \union ServerOf(guard) \union ServerOf(load.guard)

\* The servers whose token endpoints there should be.
Wanted == {StoreView[n] : n \in {m \in Names : servers[m] # NoObj /\ Builds(heap[servers[m]])}}

\* Token endpoints and a guard that a load has made, and what they share with the datastore.
TokensFit(T) ==
    /\ {Row(heap[o]) : o \in T} = Wanted
    /\ backend = "memory" => T \subseteq Elems(servers)

GuardFits(g) ==
    LET c == StoreView[ApiServer] IN
    /\ IF c = NoServer \/ (c # NoServer /\ ~Guards(c)) THEN g = Open
       ELSE /\ g.route = "guarded"
            /\ g.manager = c.strategy
            /\ g.keys = SigningKeys(c)
            /\ Row(heap[g.server]) = c
    /\ backend = "memory" => ServerOf(g) \subseteq Elems(servers)

\* In every phase of a load that nothing has overtaken, what is loaded is right.
RoutesFit ==
    quiet =>
        /\ load.at \in {"start apis", "idle"} => TokensFit(tokens)
        /\ load.at = "swap" => TokensFit(load.tokens)
        /\ load.at \in {"servers", "swap"} /\ lookedUp => GuardFits(load.guard)
        /\ load.at = "idle" /\ lookedUp => GuardFits(guard)

\* A handler works on no server of the routes, but in memory.
CopiesApart == backend # "memory" => Routed \intersect Elems(obj) = {}

LEMMA RowFields ==
    ASSUME NEW c \in Server
    PROVE  /\ Row(c).strategy = c.strategy /\ Row(c).settings = c.settings /\ Row(c).key = c.key
           /\ Row(c) # NoServer
           /\ Builds(Row(c)) <=> Builds(c)
           /\ Guards(Row(c)) <=> Guards(c)
           /\ SigningKeys(Row(c)) = SigningKeys(c)
<1>1. Row(c).strategy = c.strategy /\ Row(c).settings = c.settings /\ Row(c).key = c.key
    BY DEF Row, Server
<1>2. DOMAIN Row(c) = {"name", "strategy", "settings", "key", "secrets", "rules"}
    BY RowType DEF Server
<1>3. Row(c) # NoServer
    <2>1. DOMAIN NoServer = {"name"}
        BY DEF NoServer
    <2> QED
        BY <1>2, <2>1
<1>4. Builds(Row(c)) <=> Builds(c)
    BY <1>1 DEF Builds, Known, MethodsFail
<1>5. Guards(Row(c)) <=> Guards(c)
    BY <1>1, <1>4 DEF Guards, MethodsFail
<1> QED
    BY <1>1, <1>3, <1>4, <1>5 DEF SigningKeys

\* The token endpoints that there should be depend on the view of the datastore alone.
Views ==
    /\ Wanted = {StoreView[n] : n \in {m \in Names : StoreView[m] # NoServer /\ Builds(StoreView[m])}}
    /\ \A n \in Names : servers[n] # NoObj => StoreView[n] = Row(heap[servers[n]])

LEMMA ViewsHold == TypeInv => Views
<1> SUFFICES ASSUME TypeInv PROVE Views
    OBVIOUS
<1>1. PostTyped
    BY PostTypes
<1>2. \A n \in Names : StoreView[n] = IF servers[n] = NoObj THEN NoServer
                                      ELSE Row(heap[servers[n]])
    BY DEF StoreView
<1>3. ASSUME NEW n \in Names
      PROVE  servers[n] # NoObj /\ Builds(heap[servers[n]])
               <=> StoreView[n] # NoServer /\ Builds(StoreView[n])
    <2>1. servers[n] # NoObj => heap[servers[n]] \in Server
        BY <1>1 DEF PostTyped
    <2> QED
        BY <1>2, <2>1, RowFields
<1> QED
    BY <1>2, <1>3 DEF Views, Wanted

LEMMA ViewsNext == TypeInv' => Views'
BY ViewsHold, PTL

LEMMA WantedSame ==
    ASSUME TypeInv, TypeInv', StoreView' = StoreView
    PROVE  Wanted' = Wanted
BY ViewsHold, ViewsNext DEF Views

RoutesLive == Routed \subseteq Live /\ NoObj \notin Live

LEMMA RoutedLive == TypeInv => RoutesLive
BY RoutesReached DEF RoutesLive, Routed, Live

LEMMA RoutedLiveNext == TypeInv' => RoutesLive'
BY RoutedLive, PTL

\* What the routes have stays as long as the datastore stays.
LEMMA RowsKept ==
    ASSUME TypeInv, TypeInv', UNCHANGED backend, StoreView' = StoreView,
           backend = "memory" => servers' = servers, NEW X, Keeps(X), NEW o \in Live, o \in Live',
           IF backend = "memory" THEN o \in Elems(servers) ELSE o \notin X
    PROVE  Row(heap'[o]) = Row(heap[o])
<1>1. CASE backend # "memory"
    BY <1>1 DEF Keeps
<1>2. CASE backend = "memory"
    <2>1. PICK n \in Names : o = servers[n]
        BY <1>2, PostTypes DEF PostTyped, Elems
    <2>2. o # NoObj /\ servers' = servers
        BY <1>2, RoutedLive DEF RoutesLive
    <2>3. StoreView[n] = Row(heap[o]) /\ StoreView'[n] = Row(heap'[o])
        BY <2>1, <2>2, ViewsHold, ViewsNext DEF Views
    <2> QED
        BY <2>3
<1> QED
    BY <1>1, <1>2

LEMMA TokensKept ==
    ASSUME TypeInv, TypeInv', UNCHANGED backend, StoreView' = StoreView,
           backend = "memory" => servers' = servers, NEW X, Keeps(X),
           NEW T, T \subseteq Live, T \subseteq Live', backend # "memory" => T \intersect X = {},
           TokensFit(T)
    PROVE  /\ {Row(heap'[o]) : o \in T} = Wanted'
           /\ backend' = "memory" => T \subseteq Elems(servers')
<1>1. \A o \in T : Row(heap'[o]) = Row(heap[o])
    <2> TAKE o \in T
    <2>1. o \in Live /\ o \in Live' /\ IF backend = "memory" THEN o \in Elems(servers) ELSE o \notin X
        BY DEF TokensFit
    <2> QED
        BY <2>1, RowsKept
<1> QED
    BY <1>1, WantedSame DEF TokensFit

LEMMA GuardKept ==
    ASSUME TypeInv, TypeInv', UNCHANGED backend, StoreView' = StoreView,
           backend = "memory" => servers' = servers, NEW X, Keeps(X),
           NEW g, ServerOf(g) \subseteq Live, ServerOf(g) \subseteq Live',
           backend # "memory" => ServerOf(g) \intersect X = {}, GuardFits(g)
    PROVE  LET c == StoreView'[ApiServer] IN
           /\ IF c = NoServer \/ (c # NoServer /\ ~Guards(c)) THEN g = Open
              ELSE /\ g.route = "guarded"
                   /\ g.manager = c.strategy
                   /\ g.keys = SigningKeys(c)
                   /\ Row(heap'[g.server]) = c
           /\ backend' = "memory" => ServerOf(g) \subseteq Elems(servers')
<1>1. g.route = "guarded" => Row(heap'[g.server]) = Row(heap[g.server])
    <2> SUFFICES ASSUME g.route = "guarded" PROVE Row(heap'[g.server]) = Row(heap[g.server])
        OBVIOUS
    <2> DEFINE o == g.server
    <2>1. o \in ServerOf(g)
        BY DEF ServerOf
    <2>2. /\ o \in Live /\ o \in Live'
          /\ IF backend = "memory" THEN o \in Elems(servers) ELSE o \notin X
        BY <2>1 DEF GuardFits
    <2> QED
        BY <2>2, RowsKept
<1> QED
    BY <1>1 DEF GuardFits

\* A step that changes no route, and of the servers that the routes have only those in X.
LEMMA FitKept ==
    ASSUME TypeInv, TypeInv', History, UNCHANGED <<backend, routeVars>>, RoutesFit,
           NEW X, Keeps(X), backend # "memory" => Routed \intersect X = {}
    PROVE  RoutesFit'
<1> SUFFICES ASSUME quiet'
             PROVE  /\ load'.at \in {"start apis", "idle"} => TokensFit(tokens)'
                    /\ load'.at = "swap" => TokensFit(load.tokens)'
                    /\ load'.at \in {"servers", "swap"} /\ lookedUp' => GuardFits(load.guard)'
                    /\ load'.at = "idle" /\ lookedUp' => GuardFits(guard)'
    BY DEF RoutesFit
<1>1. UNCHANGED <<load, loads, tokens, guard, lookedUp>>
    BY DEF routeVars
<1>2. quiet /\ StoreView' = StoreView /\ (backend = "memory" => servers' = servers)
    BY <1>1 DEF History, Changed
<1>3. Routed \subseteq Live /\ Routed \subseteq Live'
    <2>1. Routed' = Routed
        BY <1>1 DEF Routed, ServerOf
    <2> QED
        BY <2>1, RoutedLive, RoutedLiveNext DEF RoutesLive
<1>4. ASSUME NEW T, T \subseteq Routed, TokensFit(T)
      PROVE  /\ {Row(heap'[o]) : o \in T} = Wanted'
             /\ backend' = "memory" => T \subseteq Elems(servers')
    BY <1>2, <1>3, <1>4, TokensKept
<1>5. tokens \subseteq Routed /\ load.tokens \subseteq Routed /\ ServerOf(guard) \subseteq Routed
      /\ ServerOf(load.guard) \subseteq Routed
    BY DEF Routed
<1>6. /\ TokensFit(tokens) => TokensFit(tokens)'
      /\ TokensFit(load.tokens) => TokensFit(load.tokens)'
    BY <1>1, <1>4, <1>5 DEF TokensFit, Elems
<1>7. /\ GuardFits(guard) => GuardFits(guard)'
      /\ GuardFits(load.guard) => GuardFits(load.guard)'
    <2> DEFINE fits(g) == LET c == StoreView'[ApiServer] IN
           /\ IF c = NoServer \/ (c # NoServer /\ ~Guards(c)) THEN g = Open
              ELSE /\ g.route = "guarded"
                   /\ g.manager = c.strategy
                   /\ g.keys = SigningKeys(c)
                   /\ Row(heap'[g.server]) = c
           /\ backend' = "memory" => ServerOf(g) \subseteq Elems(servers')
    <2>1. ASSUME NEW g, ServerOf(g) \subseteq Routed, GuardFits(g) PROVE fits(g)
        BY <1>2, <1>3, <2>1, GuardKept
    <2>2. fits(guard) => GuardFits(guard)'
        BY <1>1 DEF GuardFits, Elems, ServerOf
    <2>3. fits(load.guard) => GuardFits(load.guard)'
        BY <1>1 DEF GuardFits, Elems, ServerOf
    <2> HIDE DEF fits
    <2> QED
        BY <1>5, <2>1, <2>2, <2>3
<1> QED
    BY <1>1, <1>2, <1>6, <1>7 DEF RoutesFit

\* What a handler changes: the server it works on; and the one it takes is new, but in memory.
LEMMA HandlerKeeps ==
    ASSUME TypeInv, NEW h \in Handlers, HandlerStep(h)
    PROVE  /\ Keeps({obj[h]})
           /\ backend # "memory" => Elems(obj') \subseteq Elems(obj) \union {Fresh, NoObj}
<1>1. Fresh \notin Live /\ QueryTypeOK /\ PostTyped
    BY FreshIsFree, PostTypes DEF TypeInv, StoreOK
<1>2. \A g, x : Elems([obj EXCEPT ![g] = x]) \subseteq Elems(obj) \union {x}
    BY ElemsExcept
<1>3. Answer(h) \/ UNCHANGED obj => Elems(obj') \subseteq Elems(obj) \union {NoObj}
    BY <1>2 DEF Answer
<1>4. Written(h) => Keeps({obj[h]})
    BY WrittenKeeps, KeepsMore
<1>5. ASSUME Post(h)
      PROVE  Keeps({obj[h]}) /\ Elems(obj') \subseteq Elems(obj) \union {NoObj}
    <2>1. obj[h] # NoObj /\ (\E result : Add(h, result)) /\ (Answer(h) \/ UNCHANGED obj)
        BY <1>1, <1>5 DEF Post, PostTyped
    <2> QED
        BY <1>1, <1>3, <1>4, <2>1, AddEffect
<1>6. ASSUME PutSave(h)
      PROVE  Keeps({obj[h]}) /\ Elems(obj') \subseteq Elems(obj) \union {NoObj}
    <2>1. obj[h] # NoObj /\ (\E result : Save(h, result)) /\ (Answer(h) \/ UNCHANGED obj)
        BY <1>1, <1>6 DEF PutSave, TypeInv, HandlersOK
    <2> QED
        BY <1>1, <1>3, <1>4, <2>1, SaveEffect
<1>7. ASSUME DeleteBy(h)
      PROVE  Keeps({obj[h]}) /\ Elems(obj') \subseteq Elems(obj) \union {NoObj}
    <2>1. req[h].op = "delete" /\ (\E result : Remove(h, result)) /\ (Answer(h) \/ UNCHANGED obj)
        BY <1>1, <1>7 DEF DeleteBy, TypeInv, HandlersOK
    <2> QED
        BY <1>1, <1>3, <1>4, <2>1, RemoveEffect
<1>8. ASSUME PutFind(h)
      PROVE  /\ Keeps({obj[h]})
             /\ backend # "memory" => Elems(obj') \subseteq Elems(obj) \union {Fresh, NoObj}
    <2>1. UNCHANGED heap \/ \E content : Collect(With(Fresh, content))
        BY <1>8 DEF PutFind
    <2>2. \/ Answer(h) \/ UNCHANGED obj \/ backend = "memory"
          \/ obj' = [obj EXCEPT ![h] = Fresh]
        BY <1>8 DEF PutFind
    <2>3. Keeps({obj[h]})
        BY <1>1, <2>1, SameKeeps, WithKeeps
    <2> QED
        BY <1>2, <1>3, <2>2, <2>3
<1>9. ASSUME PutDecode(h)
      PROVE  Keeps({obj[h]}) /\ Elems(obj') \subseteq Elems(obj) \union {NoObj}
    BY <1>3, <1>9, WithKeeps DEF PutDecode
<1>10. ASSUME PutDecoded(h)
       PROVE  Keeps({obj[h]}) /\ Elems(obj') \subseteq Elems(obj) \union {NoObj}
    BY <1>3, <1>10, CollectKeeps DEF PutDecoded
<1>11. ASSUME NEW q \in Requests, Begin(h, q)
       PROVE  Keeps({obj[h]}) /\ Elems(obj') \subseteq Elems(obj) \union {Fresh}
    <2>1. \/ UNCHANGED <<obj, heap>>
          \/ obj' = [obj EXCEPT ![h] = Fresh] /\ Collect(With(Fresh, q.body))
        BY <1>11 DEF Begin
    <2>2. Keeps({obj[h]})
        BY <1>1, <2>1, SameKeeps, WithKeeps
    <2>3. Elems(obj') \subseteq Elems(obj) \union {Fresh}
        BY <1>2, <2>1
    <2> QED
        BY <2>2, <2>3
<1> QED
    BY <1>5, <1>6, <1>7, <1>8, <1>9, <1>10, <1>11 DEF HandlerStep

FitInv == CopiesApart /\ RoutesFit

LEMMA HandlerFits ==
    ASSUME TypeInv, TypeInv', FitInv, NEW h \in Handlers, HandlerStep(h), UNCHANGED backend, History
    PROVE  FitInv'
<1>1. UNCHANGED routeVars /\ Routed' = Routed
    BY DEF HandlerStep, routeVars, Routed, ServerOf
<1>2. Routed \subseteq Live /\ NoObj \notin Live /\ Fresh \notin Live
    BY RoutedLive, FreshIsFree DEF RoutesLive
<1>3. obj[h] \in Elems(obj)
    BY PostTypes DEF PostTyped, Elems
<1>4. backend # "memory" => Routed \intersect Elems(obj') = {}
    BY <1>2, HandlerKeeps DEF FitInv, CopiesApart
<1>5. CopiesApart'
    BY <1>1, <1>4 DEF CopiesApart, Elems
<1>6. RoutesFit'
    BY <1>1, <1>3, HandlerKeeps, FitKept DEF FitInv, CopiesApart
<1> QED
    BY <1>5, <1>6 DEF FitInv

LEMMA VisitFits ==
    ASSUME TypeInv, TypeInv', FitInv, NEW v \in Visits, VisitStep(v), UNCHANGED backend, History
    PROVE  FitInv'
<1>1. UNCHANGED routeVars /\ Routed' = Routed /\ obj' = obj
    BY DEF VisitStep, routeVars, handlerVars, Routed, ServerOf
<1>2. CopiesApart'
    BY <1>1 DEF FitInv, CopiesApart, Elems
<1>3. Keeps({})
    BY VisitKeeps
<1>4. RoutesFit'
    BY <1>1, <1>3, FitKept DEF FitInv
<1> QED
    BY <1>2, <1>4 DEF FitInv

\* A load changes no server, and the datastore stays what it is.
LEMMA LoadFrame ==
    ASSUME TypeInv, TypeInv', LoadStep, UNCHANGED backend, History
    PROVE  /\ UNCHANGED <<servers, obj>> /\ Keeps({}) /\ StoreView' = StoreView
           /\ quiet' /\ loads' = loads => quiet
           /\ \A o \in Live \intersect Live' : Row(heap'[o]) = Row(heap[o])
<1>1. UNCHANGED <<servers, obj>>
    BY DEF LoadStep, Reload, LoadApi, LoadServers, Swap, storeVars, handlerVars
<1>2. Keeps({}) /\ \A o \in Live \intersect Live' : Row(heap'[o]) = Row(heap[o])
    BY LoadKeeps DEF Keeps
<1>3. \A n \in Names : servers[n] # NoObj => servers[n] \in Live /\ servers[n] \in Live'
    BY <1>1, PostTypes, PostTypesNext DEF PostTyped
<1>4. StoreView' = StoreView
    BY <1>1, <1>2, <1>3 DEF StoreView
<1>5. quiet' /\ loads' = loads => quiet
    BY DEF History
<1> QED
    BY <1>1, <1>2, <1>4, <1>5

\* New routes are copies, but in memory.
LEMMA LoadApart ==
    ASSUME TypeInv, TypeInv', CopiesApart, LoadStep, UNCHANGED backend, History,
           NEW X, backend # "memory" => X \intersect Live = {},
           Routed' \subseteq Routed \union X
    PROVE  CopiesApart'
<1>1. UNCHANGED <<obj, backend>>
    BY LoadFrame
<1>2. Routed' \subseteq Live' /\ NoObj \notin Live'
    BY RoutedLiveNext DEF RoutesLive
<1>3. \A o \in Elems(obj) : o = NoObj \/ o \in Live
    BY PostTypes DEF PostTyped, Elems
<1>4. backend # "memory" => Routed' \intersect Elems(obj) = {}
    BY <1>2, <1>3 DEF CopiesApart
<1> QED
    BY <1>1, <1>4 DEF CopiesApart, Elems

LEMMA LoadApartSame ==
    ASSUME TypeInv, TypeInv', CopiesApart, LoadStep, UNCHANGED backend, History,
           Routed' \subseteq Routed
    PROVE  CopiesApart'
<1> DEFINE none == {}
<1>1. none \intersect Live = {} /\ Routed' \subseteq Routed \union none
    OBVIOUS
<1> HIDE DEF none
<1> QED
    BY <1>1, LoadApart

LEMMA ReloadFits ==
    ASSUME TypeInv, TypeInv', FitInv, LoadStep, Reload, UNCHANGED backend, History
    PROVE  FitInv'
<1>1. load' = [at |-> "apis", guard |-> NoRoute, tokens |-> {}] /\ UNCHANGED <<guard, tokens>>
    BY DEF Reload, NoLoad
<1>2. load'.at = "apis"
    BY <1>1
<1>3. RoutesFit'
    BY <1>2 DEF RoutesFit
<1>4. Routed' \subseteq Routed
    <2>1. load'.tokens = {} /\ ServerOf(load'.guard) = {} /\ ServerOf(guard') = ServerOf(guard)
        BY <1>1, GuardType
    <2>2. Routed' = tokens' \union load'.tokens \union ServerOf(guard') \union ServerOf(load'.guard)
        BY DEF Routed, ServerOf
    <2> QED
        BY <1>1, <2>1, <2>2 DEF Routed
<1>5. CopiesApart'
    BY <1>4, LoadApartSame DEF FitInv
<1> QED
    BY <1>3, <1>5 DEF FitInv

\* Where routes go to, they are as good as where they come from.
LEMMA FitMoves ==
    ASSUME TypeInv, TypeInv', LoadStep, UNCHANGED backend, History
    PROVE  /\ \A T : T \subseteq Live /\ T \subseteq Live' /\ TokensFit(T) =>
                /\ {Row(heap'[o]) : o \in T} = Wanted'
                /\ backend' = "memory" => T \subseteq Elems(servers')
           /\ \A g : ServerOf(g) \subseteq Live /\ ServerOf(g) \subseteq Live' /\ GuardFits(g) =>
                LET c == StoreView'[ApiServer] IN
                /\ IF c = NoServer \/ (c # NoServer /\ ~Guards(c)) THEN g = Open
                   ELSE /\ g.route = "guarded"
                        /\ g.manager = c.strategy
                        /\ g.keys = SigningKeys(c)
                        /\ Row(heap'[g.server]) = c
                /\ backend' = "memory" => ServerOf(g) \subseteq Elems(servers')
<1>1. UNCHANGED servers /\ Keeps({}) /\ StoreView' = StoreView
    BY LoadFrame
<1>2. \A T : T \intersect {} = {}
    OBVIOUS
<1> QED
    BY <1>1, <1>2, TokensKept, GuardKept

LEMMA SwapFits ==
    ASSUME TypeInv, TypeInv', FitInv, LoadStep, Swap, UNCHANGED backend, History
    PROVE  FitInv'
<1>1. /\ load.at = "swap" /\ guard' = load.guard /\ tokens' = load.tokens
      /\ load' = [at |-> "idle", guard |-> NoRoute, tokens |-> {}]
      /\ loads' = loads /\ lookedUp' = lookedUp
    BY DEF Swap, NoLoad
<1>2. load'.at = "idle" /\ load'.tokens = {} /\ load'.guard = NoRoute
    BY <1>1
<1>3. Routed' \subseteq Routed
    <2>1. Routed' = tokens' \union load'.tokens \union ServerOf(guard') \union ServerOf(load'.guard)
        BY DEF Routed, ServerOf
    <2> QED
        BY <1>1, <1>2, <2>1, GuardType DEF Routed
<1>4. CopiesApart'
    BY <1>3, LoadApartSame DEF FitInv
<1>5. /\ load.tokens \subseteq Live /\ load.tokens \subseteq Live'
      /\ ServerOf(load.guard) \subseteq Live /\ ServerOf(load.guard) \subseteq Live'
    <2>1. tokens' \subseteq Routed' /\ ServerOf(guard') \subseteq Routed'
        BY DEF Routed, ServerOf
    <2> QED
        BY <1>1, <2>1, RoutedLive, RoutedLiveNext DEF Routed, RoutesLive
<1>6. ASSUME quiet'
      PROVE  TokensFit(tokens)' /\ (lookedUp' => GuardFits(guard)')
    <2>1. TokensFit(load.tokens) /\ (lookedUp => GuardFits(load.guard))
        BY <1>1, <1>6, LoadFrame DEF FitInv, RoutesFit
    <2>2. TokensFit(tokens)'
        BY <1>1, <1>5, <2>1, FitMoves DEF TokensFit, Elems
    <2>3. lookedUp' => GuardFits(guard)'
        BY <1>1, <1>5, <2>1, FitMoves DEF GuardFits, Elems, ServerOf
    <2> QED
        BY <2>2, <2>3
<1>7. RoutesFit'
    BY <1>2, <1>6 DEF RoutesFit
<1> QED
    BY <1>4, <1>7 DEF FitInv

LEMMA LoadApiFits ==
    ASSUME TypeInv, TypeInv', FitInv, LoadStep, LoadApi, UNCHANGED backend, History
    PROVE  FitInv'
<1>1. load.at \in {"apis", "start apis"} /\ UNCHANGED <<loads, tokens>>
    BY DEF LoadApi
<1>2. /\ UNCHANGED <<servers, obj, backend>> /\ StoreView' = StoreView /\ (quiet' => quiet)
      /\ \A x \in Live \intersect Live' : Row(heap'[x]) = Row(heap[x])
    BY <1>1, LoadFrame
<1> DEFINE o == servers[ApiServer]
           copy == IF backend = "memory" THEN o ELSE Fresh
           route(r) == IF r = "found" THEN GuardOf(copy, heap[o]) ELSE Open
<1>3. PICK result \in {"found", "not found", "error", "again"} :
         /\ FindByName(Loader, ApiServer, result)
         /\ IF result = "again"
            THEN UNCHANGED <<load, guard, lookedUp, heap>>
            ELSE /\ lookedUp' = (result = "found" \/ o = NoObj)
                 /\ IF load.at = "apis"
                    THEN /\ load' = [load EXCEPT !.at = "servers", !.guard = route(result)]
                         /\ UNCHANGED guard
                    ELSE load' = NoLoad /\ guard' = route(result)
                 /\ Collect(IF ServerOf(route(result)) = {} THEN heap ELSE With(copy, heap[o]))
    BY DEF LoadApi
<1>4. /\ ApiServer \in Names /\ QueryTypeOK /\ Loader \in Callers
      /\ servers \in [Names -> Objs \union {NoObj}]
    BY SetsAssumption, HandlersQuery, LoadTypes
<1>5. result = "found" => o # NoObj
    BY <1>3, <1>4, FindEffect
<1>6. o # NoObj => /\ o \in Live /\ heap[o] \in Server /\ o \in Elems(servers)
                   /\ StoreView[ApiServer] = Row(heap[o])
    BY <1>4, PostTypes, ViewsHold DEF PostTyped, Views, Elems
<1>7. o = NoObj => StoreView[ApiServer] = NoServer
    BY <1>4 DEF StoreView
<1>8. CASE result = "again"
    <2>1. UNCHANGED <<load, guard, lookedUp, heap, tokens>>
        BY <1>1, <1>3, <1>8
    <2>2. Keeps({}) /\ UNCHANGED routeVars
        BY <1>1, <2>1, LoadFrame DEF routeVars
    <2>3. RoutesFit'
        BY <1>2, <2>2, FitKept DEF FitInv
    <2>4. Routed' = Routed
        BY <2>1 DEF Routed, ServerOf
    <2> QED
        BY <2>3, <2>4, LoadApartSame DEF FitInv
<1>9. CASE result # "again"
    <2>1. PICK g : g = route(result)
        OBVIOUS
    <2>2. /\ lookedUp' = (result = "found" \/ o = NoObj)
          /\ IF load.at = "apis"
             THEN load' = [load EXCEPT !.at = "servers", !.guard = g] /\ UNCHANGED guard
             ELSE load' = NoLoad /\ guard' = g
          /\ Collect(IF ServerOf(g) = {} THEN heap ELSE With(copy, heap[o]))
        BY <1>3, <1>9, <2>1
    <2>3. load.tokens = {} /\ load.guard = NoRoute
        BY <1>1 DEF TypeInv, RoutesOK
    <2>4. /\ load.at = "apis" => /\ load'.at = "servers" /\ load'.tokens = {}
                                 /\ load'.guard = g /\ guard' = guard
          /\ load.at # "apis" => /\ load'.at = "idle" /\ load'.tokens = {}
                                 /\ load'.guard = NoRoute /\ guard' = g
        <3>1. load \in [at : {"idle", "start servers", "start apis", "apis", "servers", "swap"},
                        guard : Guard, tokens : SUBSET Objs]
            BY LoadTypes DEF RoutesOK
        <3>2. NoLoad.at = "idle" /\ NoLoad.tokens = {} /\ NoLoad.guard = NoRoute
            BY DEF NoLoad
        <3> QED
            BY <2>2, <2>3, <3>1, <3>2
    <2>5. /\ g = Open \/ (o # NoObj /\ Guards(heap[o]) /\ g = GuardOf(copy, heap[o]))
          /\ result = "found" /\ Guards(heap[o]) => g = GuardOf(copy, heap[o])
        BY <1>5, <2>1 DEF GuardOf
    <2>6. ServerOf(g) \subseteq {copy} /\ ServerOf(Open) = {} /\ ServerOf(NoRoute) = {}
        <3>1. ServerOf(Open) = {} /\ ServerOf(NoRoute) = {}
            BY GuardType
        <3>2. Guards(heap[o]) => ServerOf(GuardOf(copy, heap[o])) \subseteq {copy}
            BY DEF GuardOf, ServerOf
        <3> QED
            BY <2>5, <3>1, <3>2
    <2>7. Routed' = tokens' \union load'.tokens \union ServerOf(guard') \union ServerOf(load'.guard)
        BY DEF Routed, ServerOf
    <2>8. CopiesApart'
        <3> DEFINE new == {copy}
        <3>1. backend # "memory" => new \intersect Live = {}
            BY FreshIsFree
        <3>2. Routed' \subseteq Routed \union new
            BY <1>1, <2>4, <2>6, <2>7 DEF Routed
        <3> HIDE DEF new
        <3> QED
            BY <3>1, <3>2, LoadApart DEF FitInv
    <2>9. ServerOf(g) \subseteq Live'
        BY <2>4, <2>7, RoutedLiveNext DEF RoutesLive
    <2>10. ASSUME lookedUp'
           PROVE  LET c == StoreView'[ApiServer] IN
                  /\ IF c = NoServer \/ (c # NoServer /\ ~Guards(c)) THEN g = Open
                     ELSE /\ g.route = "guarded"
                          /\ g.manager = c.strategy
                          /\ g.keys = SigningKeys(c)
                          /\ Row(heap'[g.server]) = c
                  /\ backend' = "memory" => ServerOf(g) \subseteq Elems(servers')
        <3>1. CASE o = NoObj
            BY <1>2, <1>7, <2>5, <2>6, <3>1
        <3>2. CASE o # NoObj /\ ~Guards(heap[o])
            <4>1. g = Open /\ ServerOf(g) = {}
                BY <2>5, <2>6, <3>2
            <4>2. StoreView'[ApiServer] = Row(heap[o]) /\ heap[o] \in Server
                BY <1>2, <1>6, <3>2
            <4>3. Row(heap[o]) # NoServer /\ ~Guards(Row(heap[o]))
                BY <3>2, <4>2, RowFields
            <4> HIDE DEF o, copy
            <4> QED
                BY <4>1, <4>2, <4>3
        <3>3. CASE o # NoObj /\ Guards(heap[o])
            <4>1. g = GuardOf(copy, heap[o])
                BY <2>2, <2>5, <2>10, <3>3
            <4>2. /\ g.route = "guarded" /\ g.manager = heap[o].strategy
                  /\ g.keys = SigningKeys(heap[o]) /\ g.server = copy /\ ServerOf(g) = {copy}
                BY <3>3, <4>1 DEF GuardOf, ServerOf
            <4>3. copy \in Live' /\ Collect(With(copy, heap[o]))
                BY <2>2, <2>9, <4>2
            <4>4. heap'[copy] = heap[o]
                <5> DEFINE content == heap[o]
                <5>1. copy \in Live' /\ Collect(With(copy, content))
                    BY <4>3
                <5> HIDE DEF content, copy
                <5>2. heap'[copy] = content
                    BY <5>1 DEF Collect, With
                <5> QED
                    BY <5>2 DEF content
            <4>5. /\ StoreView'[ApiServer] = Row(heap[o]) /\ heap[o] \in Server
                  /\ backend' = "memory" => ServerOf(g) \subseteq Elems(servers')
                BY <1>2, <1>6, <3>3, <4>2
            <4>6. /\ Row(heap[o]) # NoServer /\ Guards(Row(heap[o]))
                  /\ Row(heap[o]).strategy = heap[o].strategy
                  /\ SigningKeys(Row(heap[o])) = SigningKeys(heap[o])
                BY <3>3, <4>5, RowFields
            <4>7. Row(heap'[g.server]) = Row(heap[o])
                BY <4>2, <4>4
            <4> HIDE DEF o, copy
            <4> QED
                BY <4>2, <4>5, <4>6, <4>7
        <3> QED
            BY <3>1, <3>2, <3>3
    <2>11. RoutesFit'
        <3>1. CASE load.at = "apis"
            <4>1. lookedUp' => GuardFits(load.guard)'
                BY <2>4, <2>10, <3>1 DEF GuardFits, Elems, ServerOf
            <4> QED
                BY <2>4, <3>1, <4>1 DEF RoutesFit
        <3>2. CASE load.at = "start apis"
            <4>1. lookedUp' => GuardFits(guard)'
                BY <2>4, <2>10, <3>2 DEF GuardFits, Elems, ServerOf
            <4>2. quiet' => TokensFit(tokens)'
                <5>1. quiet' => TokensFit(tokens)
                    BY <1>2, <3>2 DEF FitInv, RoutesFit
                <5>2. tokens \subseteq Live /\ tokens \subseteq Live' /\ tokens' = tokens
                    BY <1>1, <2>7, RoutedLive, RoutedLiveNext DEF Routed, RoutesLive
                <5> QED
                    BY <5>1, <5>2, FitMoves DEF TokensFit, Elems
            <4> QED
                BY <2>4, <3>2, <4>1, <4>2 DEF RoutesFit
        <3> QED
            BY <1>1, <3>1, <3>2
    <2> QED
        BY <2>8, <2>11 DEF FitInv
<1> QED
    BY <1>8, <1>9

LEMMA LoadServersFits ==
    ASSUME TypeInv, TypeInv', FitInv, LoadStep, LoadServers, UNCHANGED backend, History
    PROVE  FitInv'
<1>1. /\ load.at \in {"servers", "start servers"} /\ UNCHANGED <<loads, guard, lookedUp, servers>>
    BY DEF LoadServers
<1>2. /\ UNCHANGED <<obj, backend>> /\ StoreView' = StoreView /\ (quiet' => quiet)
      /\ \A x \in Live \intersect Live' : Row(heap'[x]) = Row(heap[x])
    BY <1>1, LoadFrame
<1> DEFINE found == {o \in Elems(servers) \ {NoObj} : Loadable(heap[o])}
           copies == CHOOSE f \in Injection(found, Objs \ Live) : TRUE
           source(x) == CHOOSE o \in found : copies[o] = x
           copied == [x \in Live \union Elems(copies) |->
                        IF x \in Elems(copies) THEN heap[source(x)] ELSE heap[x]]
<1>3. \/ UNCHANGED <<load, tokens, heap>>
      \/ backend = "memory" /\ Loaded(found) /\ Collect(heap)
      \/ backend # "memory" /\ Loaded(Elems(copies)) /\ Collect(copied)
    BY DEF LoadServers
<1>4. {Row(heap[o]) : o \in found} = Wanted' /\ found \subseteq Elems(servers) \ {NoObj}
      /\ found \subseteq Live
    <2>1. \A o : o \in found <=> \E n \in Names : /\ servers[n] # NoObj
                                                  /\ Builds(heap[servers[n]]) /\ o = servers[n]
        BY PostTypes DEF PostTyped, Elems, Loadable
    <2>2. \A n \in Names : servers[n] # NoObj => StoreView[n] = Row(heap[servers[n]])
        BY ViewsHold DEF Views
    <2> HIDE DEF found
    <2>3. {Row(heap[o]) : o \in found} = Wanted
        BY <2>1, <2>2 DEF Wanted
    <2>4. found \subseteq Elems(servers) \ {NoObj} /\ found \subseteq Live
        BY <2>1, PostTypes DEF PostTyped, Elems
    <2> QED
        BY <1>2, <2>3, <2>4, WantedSame
<1> HIDE DEF found
<1>5. /\ copies \in [found -> Objs \ Live]
      /\ \A a, b \in found : copies[a] = copies[b] => a = b
    BY <1>4, CopiesOK
<1>6. Routed' = tokens' \union load'.tokens \union ServerOf(guard') \union ServerOf(load'.guard)
    BY DEF Routed, ServerOf
<1>7. CASE UNCHANGED <<load, tokens, heap>>
    <2>1. Keeps({}) /\ UNCHANGED routeVars /\ Routed' = Routed
        BY <1>1, <1>6, <1>7, LoadFrame DEF routeVars, Routed
    <2> QED
        BY <1>2, <2>1, FitKept, LoadApartSame DEF FitInv
<1>8. ASSUME NEW T, Loaded(T), backend # "memory" => T \intersect Live = {},
             T \subseteq Live' =>
               /\ {Row(heap'[o]) : o \in T} = Wanted'
               /\ backend' = "memory" => T \subseteq Elems(servers')
      PROVE  FitInv'
    <2>1. load \in [at : {"idle", "start servers", "start apis", "apis", "servers", "swap"},
                    guard : Guard, tokens : SUBSET Objs]
        BY LoadTypes DEF RoutesOK
    <2>2. /\ load.at = "servers" => /\ load'.at = "swap" /\ load'.tokens = T /\ tokens' = tokens
                                    /\ load'.guard = load.guard
          /\ load.at # "servers" => /\ load'.at = "start apis" /\ load'.tokens = load.tokens
                                    /\ tokens' = T /\ load'.guard = load.guard
        BY <1>8, <2>1 DEF Loaded
    <2>3. CopiesApart'
        <3>1. Routed' \subseteq Routed \union T
            BY <1>1, <1>6, <2>2 DEF Routed
        <3> QED
            BY <1>8, <3>1, LoadApart DEF FitInv
    <2>4. T \subseteq Live'
        BY <1>1, <1>6, <2>2, RoutedLiveNext DEF RoutesLive
    <2>5. RoutesFit'
        <3>1. CASE load.at = "servers"
            <4>1. TokensFit(load.tokens)'
                BY <1>8, <2>2, <2>4, <3>1 DEF TokensFit, Elems
            <4>2. quiet' /\ lookedUp' => GuardFits(load.guard)'
                <5>1. quiet' /\ lookedUp' => GuardFits(load.guard)
                    BY <1>1, <1>2, <3>1 DEF FitInv, RoutesFit
                <5>2. ServerOf(load.guard) \subseteq Live /\ ServerOf(load.guard) \subseteq Live'
                    BY <1>6, <2>2, RoutedLive, RoutedLiveNext DEF Routed, RoutesLive
                <5>3. load'.guard = load.guard
                    BY <2>2, <3>1
                <5> QED
                    BY <5>1, <5>2, <5>3, FitMoves DEF GuardFits, Elems, ServerOf
            <4> QED
                BY <2>2, <3>1, <4>1, <4>2 DEF RoutesFit
        <3>2. CASE load.at = "start servers"
            <4>1. TokensFit(tokens)'
                BY <1>8, <2>2, <2>4, <3>2 DEF TokensFit, Elems
            <4> QED
                BY <2>2, <3>2, <4>1 DEF RoutesFit
        <3> QED
            BY <1>1, <3>1, <3>2
    <2> QED
        BY <2>3, <2>5 DEF FitInv
<1>9. CASE backend = "memory" /\ Loaded(found) /\ Collect(heap)
    <2>1. ASSUME found \subseteq Live'
          PROVE  /\ {Row(heap'[o]) : o \in found} = Wanted'
                 /\ backend' = "memory" => found \subseteq Elems(servers')
        <3>1. \A o \in found : Row(heap'[o]) = Row(heap[o])
            BY <1>2, <1>4, <2>1
        <3> QED
            BY <1>1, <1>4, <3>1
    <2> QED
        BY <1>8, <1>9, <2>1
<1>10. CASE backend # "memory" /\ Loaded(Elems(copies)) /\ Collect(copied)
    <2>1. Elems(copies) \intersect Live = {}
        BY <1>5 DEF Elems
    <2>2. \A o \in found : copies[o] \in Elems(copies) /\ source(copies[o]) = o
        BY <1>5 DEF Elems
    <2>3. \A x \in Elems(copies) : \E o \in found : x = copies[o]
        BY <1>5 DEF Elems
    <2> HIDE DEF copies, source
    <2>4. ASSUME Elems(copies) \subseteq Live'
          PROVE  {Row(heap'[x]) : x \in Elems(copies)} = Wanted'
        <3>1. \A x \in Elems(copies) : heap'[x] = heap[source(x)]
            BY <1>10, <2>4 DEF Collect
        <3>2. \A o \in found : heap'[copies[o]] = heap[o]
            BY <2>2, <3>1
        <3>3. {Row(heap'[x]) : x \in Elems(copies)} = {Row(heap[o]) : o \in found}
            BY <2>2, <2>3, <3>2
        <3> QED
            BY <1>4, <3>3
    <2> QED
        BY <1>2, <1>8, <1>10, <2>1, <2>4
<1> QED
    BY <1>3, <1>7, <1>9, <1>10

LEMMA FitStep ==
    ASSUME TypeInv, TypeInv', FitInv, Next
    PROVE  FitInv'
<1>1. UNCHANGED backend /\ History
    BY DEF Next
<1>2. ASSUME LoadStep PROVE FitInv'
    <2>1. Reload \/ LoadApi \/ LoadServers \/ Swap
        BY <1>2 DEF LoadStep
    <2> QED
        BY <1>1, <1>2, <2>1, ReloadFits, LoadApiFits, LoadServersFits, SwapFits
<1> QED
    BY <1>1, <1>2, HandlerFits, VisitFits DEF Next

\* After a load that nothing has overtaken the API has the guard that its server calls for, and
\* the token endpoints are those of the well configured servers: requests that parse rules,
\* answers that were repeated and bodies that are being decoded do not change that (onReload,
\* setupOAuth2, LoadDefinitions).
THEOREM RoutesCorrect == Spec => []RoutesFollowStore
<1>1. Init => FitInv
    <2> SUFFICES ASSUME Init PROVE FitInv
        OBVIOUS
    <2>1. load = [at |-> "start servers", guard |-> NoRoute, tokens |-> {}]
          /\ tokens = {} /\ guard = NoRoute
        BY DEF Init, NoLoad
    <2>2. load.at = "start servers" /\ load.tokens = {} /\ load.guard = NoRoute
        BY <2>1
    <2>3. Routed = {}
        BY <2>1, <2>2, GuardType DEF Routed
    <2> QED
        BY <2>2, <2>3 DEF FitInv, RoutesFit, CopiesApart
<1>2. TypeInv /\ TypeInv' /\ FitInv /\ [Next]_vars => FitInv'
    <2> SUFFICES ASSUME TypeInv, TypeInv', FitInv, [Next]_vars PROVE FitInv'
        OBVIOUS
    <2>1. CASE Next
        BY <2>1, FitStep
    <2>2. CASE UNCHANGED vars
        <3>1. UNCHANGED <<backend, servers, heap, obj, guard, tokens, load, quiet, lookedUp>>
            BY <2>2 DEF vars, storeVars, handlerVars, routeVars, history
        <3>2. StoreView' = StoreView
            BY <2>2 DEF vars, storeVars, handlerVars, routeVars, history, StoreView
        <3>3. Wanted' = Wanted
            BY <3>1, <3>2 DEF Wanted
        <3>4. \A T : {Row(heap'[o]) : o \in T} = {Row(heap[o]) : o \in T}
            BY <3>1
        <3>5. /\ TokensFit(tokens)' = TokensFit(tokens)
              /\ TokensFit(load.tokens)' = TokensFit(load.tokens)
            BY <3>1, <3>3, <3>4 DEF TokensFit, Elems
        <3>6. GuardFits(guard)' = GuardFits(guard) /\ GuardFits(load.guard)' = GuardFits(load.guard)
            BY <3>1, <3>2 DEF GuardFits, Elems, ServerOf
        <3>7. RoutesFit'
            BY <3>1, <3>5, <3>6 DEF FitInv, RoutesFit
        <3>8. CopiesApart'
            BY <3>1 DEF FitInv, CopiesApart, Routed, ServerOf, Elems
        <3> QED
            BY <3>7, <3>8 DEF FitInv
    <2> QED
        BY <2>1, <2>2
<1>3. FitInv => RoutesFollowStore
    BY DEF FitInv, RoutesFit, TokensFit, GuardFits, Wanted, RoutesFollowStore
<1> QED
    BY <1>1, <1>2, <1>3, InitOK, NextOK, PTL DEF Spec

=============================================================================
