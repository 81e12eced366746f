---------------------------- MODULE AccountsProofs ----------------------------
(***************************************************************************)
(* Proofs about Accounts for every number of users, handlers and requests, *)
(* and for all the failures and retries of the datastore.                  *)
(***************************************************************************)
EXTENDS Accounts, CassandraProofs, FiniteSetTheorems

----------------------------------------------------------------------------
(* The requests on the route.                                              *)

\* What is known of a client's request: its configuration is looked up last.
ConfigLast ==
    /\ auth = [c \in Clients |-> auth[c]]
    /\ \A c \in Clients :
         /\ {"at", "list", "org", "config"} \subseteq DOMAIN auth[c]
         /\ auth[c].at \notin {"header", "forwarded"} => auth[c].config = NoOrg
         /\ auth[c].config # NoOrg => auth[c].config = auth[c].org

\* A step changes the fields it names.
LEMMA StepFields ==
    ASSUME ConfigLast, NEW c \in Clients, NEW changes, Step(c, changes)
    PROVE  /\ auth' = [d \in Clients |-> auth'[d]]
           /\ DOMAIN auth'[c] = DOMAIN auth[c]
           /\ \A d \in Clients \ {c} : auth'[d] = auth[d]
           /\ \A f \in {"at", "list", "org", "config"} :
                auth'[c][f] = IF f \in DOMAIN changes THEN changes[f] ELSE auth[c][f]
<1>1. auth'[c] = [f \in DOMAIN auth[c] |->
                    IF f \in DOMAIN changes THEN changes[f] ELSE auth[c][f]]
  BY DEF Step, ConfigLast
<1>2. /\ auth' = [d \in Clients |-> auth'[d]]
      /\ \A d \in Clients \ {c} : auth'[d] = auth[d]
  BY DEF Step, ConfigLast
<1> QED BY <1>1, <1>2 DEF ConfigLast

\* A request without a configuration that gets none.
LEMMA NoConfigYet ==
    ASSUME ConfigLast, NEW c \in Clients, NEW changes, Step(c, changes),
           "config" \notin DOMAIN changes,
           auth[c].at \notin {"header", "forwarded"}
    PROVE  ConfigLast'
<1>1. auth'[c].config = NoOrg
  BY StepFields DEF ConfigLast
<1>2. /\ auth' = [d \in Clients |-> auth'[d]]
      /\ DOMAIN auth'[c] = DOMAIN auth[c]
      /\ \A d \in Clients \ {c} : auth'[d] = auth[d]
  BY StepFields
<1> QED BY <1>1, <1>2 DEF ConfigLast

LEMMA StopConfig ==
    ASSUME ConfigLast, NEW c \in Clients, NEW end, Stop(c, end),
           auth[c].at \notin {"header", "forwarded"}
    PROVE  ConfigLast'
BY NoConfigYet DEF Stop

LEMMA LetInConfig ==
    ASSUME ConfigLast, NEW c \in Clients, NEW o, LetIn(c, o),
           auth[c].at \notin {"header", "forwarded"}
    PROVE  ConfigLast'
<1>1. CASE Stop(c, "forwarded")
  BY <1>1, StopConfig
<1>2. CASE Step(c, [at |-> "findOrg", list |-> {}, named |-> NoObj, org |-> heap[o].org])
  BY <1>2, NoConfigYet
<1> QED BY <1>1, <1>2 DEF LetIn

LEMMA JudgeConfig ==
    ASSUME ConfigLast, NEW c \in Clients, NEW users, Judge(c, users),
           auth[c].at \notin {"header", "forwarded"}
    PROVE  ConfigLast'
BY LetInConfig, StopConfig DEF Judge

LEMMA ClientConfig ==
    ASSUME ConfigLast, NEW c \in Clients, ClientStep(c)
    PROVE  ConfigLast'
<1>1. CASE FindAll(c)
  <2>1. auth[c].at = "list"
    BY <1>1 DEF FindAll
  <2>2. CASE InMemoryFindAll(c)
    <3> DEFINE changes == [at |-> "compare", list |-> Elems(store) \ {NoObj}]
    <3>1. Step(c, changes)
      BY <2>2 DEF InMemoryFindAll
    <3>2. "config" \notin DOMAIN changes
      OBVIOUS
    <3> HIDE DEF changes
    <3> QED BY <2>1, <3>1, <3>2, NoConfigYet
  <2>3. CASE MongoFindAll(c)
    BY <2>1, <2>3, JudgeConfig, StopConfig DEF MongoFindAll
  <2>4. CASE CassandraFindAll(c)
    <3>1. CASE UNCHANGED clientVars
      BY <3>1 DEF clientVars, ConfigLast
    <3> QED BY <2>1, <2>4, <3>1, JudgeConfig, StopConfig DEF CassandraFindAll
  <2> QED BY <1>1, <2>2, <2>3, <2>4 DEF FindAll
<1>2. CASE CompareName(c)
  <2>1. CASE \E o : Step(c, [at |-> "password", named |-> o])
    BY <1>2, <2>1, NoConfigYet DEF CompareName
  <2>2. CASE \E l : Step(c, [list |-> l])
    BY <1>2, <2>2, NoConfigYet DEF CompareName
  <2> QED BY <1>2, <2>1, <2>2, StopConfig DEF CompareName
<1>5. CASE ComparePassword(c)
  <2>1. CASE \E l : Step(c, [at |-> "compare", list |-> l, named |-> NoObj])
    BY <1>5, <2>1, NoConfigYet DEF ComparePassword
  <2> QED BY <1>5, <2>1, LetInConfig DEF ComparePassword
<1>3. CASE AuthFindOrg(c)
  <2>1. auth[c].at = "findOrg"
    BY <1>3 DEF AuthFindOrg
  <2>2. CASE UNCHANGED auth
    BY <2>2 DEF ConfigLast
  <2>3. CASE Step(c, [at |-> "header", config |-> ConfigOwner(c)])
    <3>1. auth'[c].config = auth[c].org /\ auth'[c].org = auth[c].org /\ auth'[c].at = "header"
      BY <2>3, StepFields DEF ConfigOwner
    <3>2. /\ auth' = [d \in Clients |-> auth'[d]]
          /\ DOMAIN auth'[c] = DOMAIN auth[c]
          /\ \A d \in Clients \ {c} : auth'[d] = auth[d]
      BY <2>3, StepFields
    <3> QED BY <3>1, <3>2 DEF ConfigLast
  <2>4. CASE Stop(c, "refused")
    BY <2>1, <2>4, StopConfig
  <2> QED BY <1>3, <2>2, <2>3, <2>4 DEF AuthFindOrg
<1>4. CASE Forward(c)
  <2> DEFINE changes == [at |-> "forwarded", header |-> shared]
  <2>1. Step(c, changes) /\ "org" \notin DOMAIN changes /\ "config" \notin DOMAIN changes
    BY <1>4 DEF Forward
  <2>2. changes.at = "forwarded" /\ "at" \in DOMAIN changes
    OBVIOUS
  <2> HIDE DEF changes
  <2>3. /\ auth'[c].config = auth[c].config /\ auth'[c].org = auth[c].org
        /\ auth'[c].at = "forwarded"
    BY <2>1, <2>2, StepFields
  <2>4. /\ auth' = [d \in Clients |-> auth'[d]]
        /\ DOMAIN auth'[c] = DOMAIN auth[c]
        /\ \A d \in Clients \ {c} : auth'[d] = auth[d]
    BY <2>1, StepFields
  <2> QED BY <2>3, <2>4 DEF ConfigLast
<1> QED BY <1>1, <1>2, <1>3, <1>4, <1>5 DEF ClientStep

LEMMA ArriveConfig ==
    ASSUME ConfigLast, NEW c \in Clients, NEW login, Arrive(c, login)
    PROVE  ConfigLast'
<1> DEFINE changes == [at |-> IF Installed THEN "list" ELSE "forwarded",
                       name |-> login.name, pass |-> login.pass]
<1>1. Step(c, changes) /\ auth[c].at = "idle"
  BY DEF Arrive
<1>2. "config" \notin DOMAIN changes
  OBVIOUS
<1> HIDE DEF changes
<1> QED BY <1>1, <1>2, NoConfigYet

LEMMA HandlersLeaveRequests ==
    ASSUME NEW h \in Handlers, HandlerStep(h) \/ \E q \in Requests[plugin] : Begin(h, q)
    PROVE  UNCHANGED clientVars
BY DEF HandlerStep, Begin, CreateFind, UpdateFind, UpdateDecode, Save, OrgCreateAdd, OrgFind,
       OrgAdd, DeleteUser

LEMMA NextConfig == ConfigLast /\ [Next]_vars => ConfigLast'
<1> SUFFICES ASSUME ConfigLast, [Next]_vars PROVE ConfigLast'
  OBVIOUS
<1>1. CASE UNCHANGED clientVars
  BY <1>1 DEF clientVars, ConfigLast
<1>2. ASSUME NEW c \in Clients, ClientStep(c) PROVE ConfigLast'
  BY <1>2, ClientConfig
<1>3. ASSUME NEW c \in Clients, NEW login, Arrive(c, login) PROVE ConfigLast'
  BY <1>3, ArriveConfig
<1>4. UNCHANGED vars => UNCHANGED clientVars
  BY DEF vars, clientVars
<1> QED BY <1>1, <1>2, <1>3, <1>4, HandlersLeaveRequests DEF Next

\* A request that is proxied carries the configuration of the organization of the user that
\* let it in, however many requests share the variable of the middleware.  (NewOrganization.)
THEOREM OwnConfigHolds == Spec => []OwnConfig
<1>1. Init => ConfigLast
  BY DEF Init, Idle, ConfigLast
<1>2. ConfigLast => OwnConfig
  BY DEF ConfigLast, OwnConfig
<1> QED BY <1>1, <1>2, NextConfig, PTL DEF Spec

----------------------------------------------------------------------------
(* The users in the tables of mongodb and cassandra.                       *)

HasPass(content) ==
    /\ "pass" \in DOMAIN content
    /\ {"text", "rounds"} \subseteq DOMAIN content.pass
    /\ content.pass.rounds \in Nat

\* The rows are hashed, and no handler holds the object of a row.
Rows ==
    /\ store \in [Users -> Objs \union {NoObj}]
    /\ user \in [Handlers -> Objs \union {NoObj}]
    /\ \A o \in Live : HasPass(heap[o])
    /\ \A h \in Handlers : user[h] # NoObj => user[h] \notin Elems(store)
    /\ \A u \in Users : store[u] # NoObj => heap[store[u]].pass.rounds > 0

\* The repositories copy the rows: no client holds one.
NoLists == \A c \in Clients : auth[c].list = {}

\* A handler that decodes or adds has a user, and a PUT names one.
HasUser ==
    /\ at = [h \in Handlers |-> at[h]] /\ req = [h \in Handlers |-> req[h]]
    /\ \A h \in Handlers : at[h] \in {"decode", "add"} => user[h] # NoObj
    /\ \A h \in Handlers : req[h].op = "update" => req[h].name \in Users

TableInv == NoLists /\ HasUser /\ Rows

LEMMA LiveWithoutLists ==
    ASSUME NoLists
    PROVE  Live = (Elems(store) \union Elems(user)) \ {NoObj}
<1>1. UNION {auth[c].list : c \in Clients} = {}
  BY DEF NoLists
<1> QED BY <1>1 DEF Live

LEMMA LiveWithoutListsNext ==
    ASSUME NoLists'
    PROVE  Live' = (Elems(store)' \union Elems(user)') \ {NoObj}
<1>1. UNION {auth'[c].list : c \in Clients} = {}
  BY DEF NoLists
<1> QED BY <1>1 DEF Live, Elems

LEMMA ElemsFinite ==
    ASSUME NEW S, IsFiniteSet(S), NEW T, NEW f \in [S -> T]
    PROVE  IsFiniteSet(Elems(f)) /\ Cardinality(Elems(f)) <= Cardinality(S)
<1>1. f \in Surjection(S, Elems(f))
  BY DEF Surjection, Elems
<1> QED BY <1>1, FS_Surjection

\* There is an object for one more user.
LEMMA FreshIsFree ==
    ASSUME NoLists, Rows
    PROVE  Fresh \in Objs /\ Fresh \notin Live /\ Fresh # NoObj
<1> DEFINE users == Cardinality(Users)
           handlers == Cardinality(Handlers)
           clients == Cardinality(Clients)
           n == users * (1 + clients) + handlers + 1
           held == Elems(store) \union Elems(user)
<1>1. users \in Nat /\ handlers \in Nat /\ clients \in Nat
  BY SetsAssumption, FS_CardinalityType
<1>2. n \in Nat /\ n > users + handlers
  <2>1. users * clients \in Nat /\ users * (1 + clients) = users + users * clients
    BY <1>1
  <2> QED BY <1>1, <2>1
<1>3. IsFiniteSet(Objs) /\ Cardinality(Objs) = n
  <2>1. Objs = 1 .. n
    BY DEF Objs
  <2> QED BY <1>2, <2>1, FS_Interval
<1>4. /\ IsFiniteSet(Elems(store)) /\ Cardinality(Elems(store)) <= users
      /\ IsFiniteSet(Elems(user)) /\ Cardinality(Elems(user)) <= handlers
  BY SetsAssumption, ElemsFinite DEF Rows
<1>5. IsFiniteSet(held) /\ Cardinality(held) <= users + handlers
  <2>1. IsFiniteSet(held) /\ Cardinality(held) = Cardinality(Elems(store))
          + Cardinality(Elems(user)) - Cardinality(Elems(store) \intersect Elems(user))
    BY <1>4, FS_Union
  <2>2. IsFiniteSet(Elems(store) \intersect Elems(user))
    BY <1>4, FS_Intersection
  <2>3. /\ Cardinality(Elems(store)) \in Nat /\ Cardinality(Elems(user)) \in Nat
        /\ Cardinality(Elems(store) \intersect Elems(user)) \in Nat
    BY <1>4, <2>2, FS_CardinalityType
  <2> QED BY <1>1, <1>4, <2>1, <2>3
<1>6. ~(Objs \subseteq held)
  <2>1. ASSUME Objs \subseteq held PROVE FALSE
    <3>1. Cardinality(Objs) <= Cardinality(held)
      BY <1>5, <2>1, FS_Subset
    <3>2. Cardinality(held) \in Nat
      BY <1>5, FS_CardinalityType
    <3> QED BY <1>1, <1>2, <1>3, <1>5, <3>1, <3>2
  <2> QED BY <2>1
<1>7. \E o \in Objs : o \notin Live
  BY <1>6, LiveWithoutLists
<1>8. NoObj \notin Objs
  BY DEF Objs, NoObj
<1> QED BY <1>7, <1>8 DEF Fresh

\* Users that are let go of, and rows that are deleted.
LEMMA FewerRows ==
    ASSUME NoLists, NoLists', Rows,
           store' \in [Users -> Objs \union {NoObj}],
           \A u \in Users : store'[u] \in {store[u], NoObj},
           user' \in [Handlers -> Objs \union {NoObj}],
           \A h \in Handlers : user'[h] \in {user[h], NoObj},
           Collect(heap) \/ UNCHANGED heap
    PROVE  Rows'
<1>1. Live' \subseteq Live
  BY LiveWithoutLists, LiveWithoutListsNext DEF Rows, Elems
<1>2. \A o \in Live' : heap'[o] = heap[o]
  BY DEF Collect
<1>3. \A h \in Handlers : user'[h] # NoObj => user'[h] \notin Elems(store)'
  BY DEF Rows, Elems
<1>4. \A u \in Users : store'[u] # NoObj => store'[u] \in Live' /\ store'[u] = store[u]
  BY LiveWithoutListsNext DEF Elems
<1> QED BY <1>1, <1>2, <1>3, <1>4 DEF Rows

LEMMA UpsertRows ==
    ASSUME NoLists, NoLists', Rows, NEW h \in Handlers, user[h] # NoObj, Upsert(h),
           user' \in [Handlers -> Objs \union {NoObj}],
           \A g \in Handlers : user'[g] \in {user[g], NoObj}
    PROVE  Rows'
<1> DEFINE name == heap[user[h]].name
<1>1. Fresh \in Objs /\ Fresh \notin Live /\ Fresh # NoObj
  BY FreshIsFree
<1>2. store' = [store EXCEPT ![name] = Fresh] /\ Collect(With(Fresh, Hashed(user[h])))
  BY DEF Upsert
<1>3. store' \in [Users -> Objs \union {NoObj}]
  BY <1>1, <1>2 DEF Rows
<1>4. Live' \subseteq Live \union {Fresh}
  BY <1>2, <1>3, LiveWithoutLists, LiveWithoutListsNext DEF Rows, Elems
<1>5. \A o \in Live' : heap'[o] = IF o = Fresh THEN Hashed(user[h]) ELSE heap[o]
  BY <1>2, <1>4 DEF Collect, With
<1>6. HasPass(Hashed(user[h])) /\ Hashed(user[h]).pass.rounds > 0
  <2>1. user[h] \in Live
    BY LiveWithoutLists DEF Rows, Elems
  <2>2. HasPass(heap[user[h]])
    BY <2>1 DEF Rows
  <2> QED BY <2>2 DEF HasPass, Hashed, Generate
<1>7. \A g \in Handlers : user'[g] # NoObj => user'[g] \notin Elems(store)'
  <2> TAKE g \in Handlers
  <2> HAVE user'[g] # NoObj
  <2>1. user'[g] = user[g] /\ user[g] \notin Elems(store) /\ user[g] \in Live
    BY LiveWithoutLists DEF Rows, Elems
  <2>2. Elems(store)' \subseteq Elems(store) \union {Fresh}
    BY <1>2, <1>3 DEF Rows, Elems
  <2> QED BY <1>1, <2>1, <2>2
<1>8. \A u \in Users : store'[u] # NoObj =>
        /\ store'[u] \in Live'
        /\ store'[u] = Fresh \/ (store'[u] = store[u] /\ store[u] # Fresh)
  BY <1>1, <1>2, <1>3, LiveWithoutLists, LiveWithoutListsNext DEF Rows, Elems
<1>9. \A u \in Users : store'[u] # NoObj => heap'[store'[u]].pass.rounds > 0
  BY <1>5, <1>6, <1>8 DEF Rows
<1>10. \A o \in Live' : HasPass(heap'[o])
  BY <1>4, <1>5, <1>6 DEF Rows
<1> QED BY <1>3, <1>7, <1>9, <1>10 DEF Rows

\* A handler takes a new object, for a new user or for a copy of a row.
LEMMA TakeRows ==
    ASSUME NoLists, NoLists', Rows, NEW h \in Handlers, NEW content, HasPass(content),
           UNCHANGED store, user' = [user EXCEPT ![h] = Fresh],
           Collect(With(Fresh, content))
    PROVE  Rows'
<1>1. Fresh \in Objs /\ Fresh \notin Live /\ Fresh # NoObj
  BY FreshIsFree
<1>2. user' \in [Handlers -> Objs \union {NoObj}]
  BY <1>1 DEF Rows
<1>3. Live' \subseteq Live \union {Fresh}
  BY <1>2, LiveWithoutLists, LiveWithoutListsNext DEF Rows, Elems
<1>4. \A o \in Live' : heap'[o] = IF o = Fresh THEN content ELSE heap[o]
  BY <1>3 DEF Collect, With
<1>5. Elems(store) \ {NoObj} \subseteq Live /\ Elems(store)' = Elems(store)
  BY LiveWithoutLists DEF Elems
<1>6. \A g \in Handlers : user'[g] # NoObj => user'[g] \notin Elems(store)'
  BY <1>1, <1>5 DEF Rows
<1>7. \A u \in Users : store[u] # NoObj => store[u] \in Live' /\ store[u] # Fresh
  BY <1>1, <1>5, LiveWithoutLists, LiveWithoutListsNext DEF Rows, Elems
<1> QED BY <1>2, <1>3, <1>4, <1>6, <1>7 DEF Rows

\* A handler changes the object it holds, and may let go of it.
LEMMA DecodeRows ==
    ASSUME NoLists, NoLists', Rows, NEW h \in Handlers, user[h] # NoObj,
           NEW content, HasPass(content),
           UNCHANGED store,
           user' \in [Handlers -> Objs \union {NoObj}],
           \A g \in Handlers : user'[g] \in {user[g], NoObj},
           Collect(With(user[h], content))
    PROVE  Rows'
<1>1. Live' \subseteq Live
  BY LiveWithoutLists, LiveWithoutListsNext DEF Rows, Elems
<1>2. \A o \in Live' : heap'[o] = IF o = user[h] THEN content ELSE heap[o]
  BY <1>1 DEF Collect, With
<1>3. \A u \in Users : store[u] # NoObj => store[u] \in Live' /\ store[u] # user[h]
  BY LiveWithoutListsNext DEF Rows, Elems
<1>4. \A g \in Handlers : user'[g] # NoObj => user'[g] \notin Elems(store)'
  BY DEF Rows, Elems
<1> QED BY <1>1, <1>2, <1>3, <1>4 DEF Rows

----------------------------------------------------------------------------
(* The steps.                                                              *)

\* A step of a client's request that lists nothing.
LEMMA ListsNothing ==
    ASSUME ConfigLast, NoLists, NEW c \in Clients, NEW changes, Step(c, changes),
           "list" \in DOMAIN changes => changes.list = {}
    PROVE  NoLists'
<1>1. auth'[c].list = {}
  BY StepFields DEF NoLists
<1>2. \A d \in Clients \ {c} : auth'[d] = auth[d]
  BY StepFields
<1> QED BY <1>1, <1>2 DEF NoLists

LEMMA JudgeLists ==
    ASSUME ConfigLast, NoLists, NEW c \in Clients, NEW users, Judge(c, users)
    PROVE  NoLists'
<1>1. ASSUME NEW o, LetIn(c, o) PROVE NoLists'
  BY <1>1, ListsNothing DEF LetIn, Stop
<1>2. CASE Stop(c, "refused")
  BY <1>2, ListsNothing DEF Stop
<1> QED BY <1>1, <1>2 DEF Judge

LEMMA ClientLists ==
    ASSUME ConfigLast, NoLists, backend # "memory", NEW c \in Clients,
           ClientStep(c) \/ \E login \in Logins[plugin][c] : Arrive(c, login)
    PROVE  NoLists'
<1>1. CASE FindAll(c)
  <2>1. CASE MongoFindAll(c)
    BY <2>1, JudgeLists, ListsNothing DEF MongoFindAll, Stop
  <2>2. CASE CassandraFindAll(c)
    <3>1. CASE UNCHANGED clientVars
      BY <3>1 DEF clientVars, NoLists
    <3> QED BY <2>2, <3>1, JudgeLists, ListsNothing DEF CassandraFindAll, Stop
  <2> QED BY <1>1, <2>1, <2>2 DEF FindAll, InMemoryFindAll
<1>2. CASE CompareName(c)
  BY <1>2, ListsNothing DEF CompareName, NoLists, Stop
<1>6. CASE ComparePassword(c)
  <2>1. CASE Step(c, [at |-> "compare", list |-> auth[c].list \ {auth[c].named},
                      named |-> NoObj])
    BY <2>1, ListsNothing DEF NoLists
  <2>2. CASE LetIn(c, auth[c].named)
    BY <2>2, ListsNothing DEF LetIn, Stop
  <2> QED BY <1>6, <2>1, <2>2 DEF ComparePassword
<1>3. CASE AuthFindOrg(c)
  <2>1. CASE UNCHANGED auth
    BY <2>1 DEF NoLists
  <2>2. CASE Step(c, [at |-> "header", config |-> ConfigOwner(c)])
    <3> DEFINE changes == [at |-> "header", config |-> ConfigOwner(c)]
    <3>1. "list" \notin DOMAIN changes /\ Step(c, changes)
      BY <2>2
    <3> HIDE DEF changes
    <3> QED BY <3>1, ListsNothing
  <2>3. CASE Stop(c, "refused")
    BY <2>3, ListsNothing DEF Stop
  <2> QED BY <1>3, <2>1, <2>2, <2>3 DEF AuthFindOrg
<1>4. CASE Forward(c)
  <2> DEFINE changes == [at |-> "forwarded", header |-> shared]
  <2>1. "list" \notin DOMAIN changes /\ Step(c, changes)
    BY <1>4 DEF Forward
  <2> HIDE DEF changes
  <2> QED BY <2>1, ListsNothing
<1>5. ASSUME NEW login, Arrive(c, login) PROVE NoLists'
  <2> DEFINE changes == [at |-> IF Installed THEN "list" ELSE "forwarded",
                         name |-> login.name, pass |-> login.pass]
  <2>1. "list" \notin DOMAIN changes /\ Step(c, changes)
    BY <1>5 DEF Arrive
  <2> HIDE DEF changes
  <2> QED BY <2>1, ListsNothing
<1> QED BY <1>1, <1>2, <1>3, <1>4, <1>5, <1>6 DEF ClientStep

\* A client's request reads the rows.
LEMMA ClientTables ==
    ASSUME ConfigLast, TableInv, backend # "memory", NEW c \in Clients,
           ClientStep(c) \/ \E login \in Logins[plugin][c] : Arrive(c, login)
    PROVE  TableInv'
<1>1. NoLists'
  BY ClientLists DEF TableInv
<1>2. UNCHANGED <<store, handlerVars>> /\ (Collect(heap) \/ UNCHANGED heap)
  BY DEF ClientStep, FindAll, CompareName, ComparePassword, AuthFindOrg, Forward, Arrive,
         storeVars
<1>3. UNCHANGED <<store, user, at, req>>
  BY <1>2 DEF handlerVars
<1>4. Rows'
  BY <1>1, <1>2, <1>3, FewerRows DEF TableInv, Rows
<1> QED BY <1>1, <1>3, <1>4 DEF TableInv, HasUser

LEMMA AddEffect ==
    ASSUME backend # "memory", NEW h \in Handlers, NEW result, Add(h, result)
    PROVE  Upsert(h) \/ NoWrite
BY DEF Add, OrganizationAdd, MongoAdd, CassandraAdd

LEMMA RemoveEffect ==
    ASSUME backend # "memory", NEW h \in Handlers, NEW result, Remove(h, result)
    PROVE  Delete(h) \/ NoWrite
BY DEF Remove, OrganizationRemove, MongoRemove, InMemoryRemove, CassandraRemove

\* The handler goes on, keeps its user, or answers and lets go of it.
LetsGo(h) ==
    /\ user' \in [Handlers -> Objs \union {NoObj}]
    /\ \A g \in Handlers : user'[g] \in {user[g], NoObj}

LEMMA AnswerFacts ==
    ASSUME TableInv, NEW h \in Handlers, Answer(h)
    PROVE  HasUser' /\ LetsGo(h)
BY DEF TableInv, HasUser, Rows, Answer, LetsGo, NoRequest

LEMMA GoOnFacts ==
    ASSUME TableInv, NEW h \in Handlers, NEW call, GoOn(h, call),
           UNCHANGED user \/ user' = [user EXCEPT ![h] = NoObj],
           call \in {"decode", "add"} => user[h] # NoObj /\ UNCHANGED user
    PROVE  HasUser' /\ LetsGo(h)
BY DEF TableInv, HasUser, Rows, GoOn, LetsGo

LEMMA WriteRows ==
    ASSUME TableInv, NoLists', NEW h \in Handlers, user[h] # NoObj, Upsert(h) \/ NoWrite,
           LetsGo(h)
    PROVE  Rows'
<1>1. CASE Upsert(h)
  BY <1>1, UpsertRows DEF TableInv, LetsGo
<1>2. CASE NoWrite
  BY <1>2, FewerRows DEF TableInv, LetsGo, NoWrite, Rows
<1> QED BY <1>1, <1>2

LEMMA KeepRows ==
    ASSUME TableInv, NoLists', NEW h \in Handlers, LetsGo(h),
           UNCHANGED store, Collect(heap) \/ UNCHANGED heap
    PROVE  Rows'
BY FewerRows DEF TableInv, LetsGo, Rows

LEMMA NewHasPass ==
    ASSUME NEW name, NEW org, NEW pass
    PROVE  HasPass([name |-> name, org |-> org, pass |-> Plain(pass)])
BY DEF HasPass, Plain

LEMMA CreateTables ==
    ASSUME TableInv, NoLists', NEW h \in Handlers, CreateFind(h)
    PROVE  HasUser' /\ Rows'
<1> DEFINE content == [name |-> req[h].name, org |-> req[h].org, pass |-> Plain(req[h].pass)]
<1>1. CASE GoOn(h, "find") /\ UNCHANGED <<user, heap>>
  BY <1>1, GoOnFacts, KeepRows DEF CreateFind
<1>2. CASE GoOn(h, "add") /\ user' = [user EXCEPT ![h] = Fresh]
             /\ Collect(With(Fresh, content))
  <2>1. UNCHANGED store
    BY DEF CreateFind
  <2>2. HasPass(content)
    BY NewHasPass
  <2> HIDE DEF content
  <2>3. Rows'
    BY <1>2, <2>1, <2>2, TakeRows DEF TableInv
  <2>4. Fresh # NoObj
    BY FreshIsFree DEF TableInv
  <2> QED BY <1>2, <2>3, <2>4 DEF TableInv, HasUser, GoOn, Rows
<1>3. CASE Answer(h) /\ UNCHANGED heap
  BY <1>3, AnswerFacts, KeepRows DEF CreateFind
<1> QED BY <1>1, <1>2, <1>3 DEF CreateFind

LEMMA UpdateFindTables ==
    ASSUME TableInv, NoLists', backend # "memory", NEW h \in Handlers, UpdateFind(h)
    PROVE  HasUser' /\ Rows'
<1> DEFINE o == store[req[h].name]
<1>1. CASE GoOn(h, "find") /\ UNCHANGED <<user, heap>>
  BY <1>1, GoOnFacts, KeepRows DEF UpdateFind
<1>2. CASE FindByUsername(h, "found") /\ GoOn(h, "decode")
             /\ user' = [user EXCEPT ![h] = Fresh] /\ Collect(With(Fresh, heap[o]))
  <2>1. o # NoObj
    BY <1>2 DEF FindByUsername, OrganizationFind, MongoFind, InMemoryFind, CassandraFind, Scan,
                Stored
  <2>2. HasPass(heap[o])
    <3>1. req[h].name \in Users
      BY DEF UpdateFind, TableInv, HasUser
    <3>2. o \in Live
      BY <2>1, <3>1, LiveWithoutLists DEF TableInv, Rows, Elems
    <3> QED BY <3>2 DEF TableInv, Rows
  <2>3. UNCHANGED store
    BY DEF UpdateFind
  <2>4. Rows'
    BY <1>2, <2>2, <2>3, TakeRows DEF TableInv
  <2>5. Fresh # NoObj
    BY FreshIsFree DEF TableInv
  <2> QED BY <1>2, <2>4, <2>5 DEF TableInv, HasUser, GoOn, Rows
<1>3. CASE Answer(h) /\ UNCHANGED heap
  BY <1>3, AnswerFacts, KeepRows DEF UpdateFind
<1> QED BY <1>1, <1>2, <1>3 DEF UpdateFind

LEMMA DecodeTables ==
    ASSUME TableInv, NoLists', NEW h \in Handlers, UpdateDecode(h)
    PROVE  HasUser' /\ Rows'
<1>1. user[h] # NoObj /\ UNCHANGED store /\ Collect(With(user[h], Decoded(h)))
  BY DEF UpdateDecode, TableInv, HasUser
<1>2. HasUser' /\ LetsGo(h)
  BY <1>1, AnswerFacts, GoOnFacts DEF UpdateDecode
<1>3. HasPass(Decoded(h))
  <2>1. user[h] \in Live
    BY <1>1, LiveWithoutLists DEF TableInv, Rows, Elems
  <2>2. HasPass(heap[user[h]])
    BY <2>1 DEF TableInv, Rows
  <2> QED BY <2>2 DEF HasPass, Decoded, Plain
<1> QED BY <1>1, <1>2, <1>3, DecodeRows DEF TableInv, LetsGo

LEMMA SaveTables ==
    ASSUME TableInv, NoLists', backend # "memory", NEW h \in Handlers,
           Save(h) \/ OrgCreateAdd(h)
    PROVE  HasUser' /\ Rows'
<1>1. at[h] = "add" /\ user[h] # NoObj
  BY DEF Save, OrgCreateAdd, TableInv, HasUser
<1>2. Upsert(h) \/ NoWrite
  BY AddEffect DEF Save, OrgCreateAdd
<1>3. HasUser' /\ LetsGo(h)
  <2>1. CASE Answer(h)
    BY <2>1, AnswerFacts
  <2>2. CASE GoOn(h, "add") /\ UNCHANGED user
    BY <1>1, <2>2, GoOnFacts
  <2>3. CASE GoOn(h, "findOrg") /\ user' = [user EXCEPT ![h] = NoObj]
    BY <2>3, GoOnFacts
  <2> QED BY <2>1, <2>2, <2>3 DEF Save, OrgCreateAdd
<1> QED BY <1>1, <1>2, <1>3, WriteRows

LEMMA OrganizationTables ==
    ASSUME TableInv, NoLists', NEW h \in Handlers, OrgFind(h) \/ OrgAdd(h)
    PROVE  HasUser' /\ Rows'
<1>1. UNCHANGED <<store, heap>>
  BY DEF OrgFind, OrgAdd, storeVars
<1>2. HasUser' /\ LetsGo(h)
  BY AnswerFacts, GoOnFacts DEF OrgFind, OrgAdd
<1> QED BY <1>1, <1>2, KeepRows

LEMMA DeleteTables ==
    ASSUME TableInv, NoLists', backend # "memory", NEW h \in Handlers, DeleteUser(h)
    PROVE  HasUser' /\ Rows'
<1>1. HasUser' /\ LetsGo(h)
  BY AnswerFacts, GoOnFacts DEF DeleteUser
<1>2. CASE Delete(h)
  <2>1. store' = [store EXCEPT ![req[h].name] = NoObj] /\ Collect(heap)
    BY <1>2 DEF Delete
  <2>2. /\ store' \in [Users -> Objs \union {NoObj}]
        /\ \A u \in Users : store'[u] \in {store[u], NoObj}
    BY <2>1 DEF TableInv, Rows
  <2> QED BY <1>1, <2>1, <2>2, FewerRows DEF TableInv, LetsGo
<1>3. CASE NoWrite
  BY <1>1, <1>3, KeepRows DEF NoWrite
<1> QED BY <1>1, <1>2, <1>3, RemoveEffect DEF DeleteUser

Configured == \E s \in Setups : plugin = s.plugin

LEMMA BeginTables ==
    ASSUME TableInv, NoLists', Configured, NEW h \in Handlers,
           NEW q \in Requests[plugin], Begin(h, q)
    PROVE  HasUser' /\ Rows'
<1>1. UNCHANGED <<store, heap, user>>
  BY DEF Begin, storeVars
<1>2. Rows'
  BY <1>1, KeepRows DEF LetsGo, TableInv, Rows
<1>3. q.op = "update" => q.name \in Users
  BY RequestsAssumption DEF Configured
<1>4. CASE UNCHANGED <<req, at>>
  BY <1>1, <1>2, <1>4 DEF TableInv, HasUser
<1>5. CASE ~UNCHANGED <<req, at>>
  <2>1. /\ req' = [req EXCEPT ![h] = q]
        /\ at' = [at EXCEPT ![h] = IF q.op \in {"create", "update"} THEN "find"
                                   ELSE IF q.op = "delete" THEN "remove" ELSE "findOrg"]
    BY <1>5 DEF Begin
  <2>2. at'[h] \notin {"decode", "add"} /\ \A g \in Handlers \ {h} : at'[g] = at[g]
    BY <2>1 DEF TableInv, HasUser
  <2>3. \A g \in Handlers : req'[g] = IF g = h THEN q ELSE req[g]
    BY <2>1 DEF TableInv, HasUser
  <2>4. at' = [g \in Handlers |-> at'[g]] /\ req' = [g \in Handlers |-> req'[g]]
    BY <2>1 DEF TableInv, HasUser
  <2> QED BY <1>1, <1>2, <1>3, <2>2, <2>3, <2>4 DEF TableInv, HasUser
<1> QED BY <1>4, <1>5

----------------------------------------------------------------------------

IInv ==
    /\ ConfigLast /\ Configured
    /\ backend # "memory" => TableInv

LEMMA InitIInv == Init => IInv
<1> SUFFICES ASSUME Init PROVE IInv
  OBVIOUS
<1>1. ConfigLast /\ Configured
  BY DEF Init, Idle, ConfigLast, Configured
<1>2. NoLists /\ HasUser
  BY DEF Init, Idle, NoLists, HasUser, NoRequest
<1>3. Live = {}
  BY <1>2, LiveWithoutLists DEF Init, Elems
<1>4. Rows
  BY <1>3 DEF Init, Rows
<1> QED BY <1>1, <1>2, <1>4 DEF IInv, TableInv

LEMMA NextIInv == IInv /\ [Next]_vars => IInv'
<1> SUFFICES ASSUME IInv, [Next]_vars PROVE IInv'
  OBVIOUS
<1>1. ConfigLast'
  BY NextConfig DEF IInv
<1>2. UNCHANGED <<plugin, backend>>
  BY DEF Next, vars
<1>3. Configured'
  BY <1>2 DEF IInv, Configured
<1>4. ASSUME backend # "memory" PROVE TableInv'
  <2> USE <1>4
  <2>1. ConfigLast /\ TableInv
    BY DEF IInv
  <2>2. ASSUME NEW c \in Clients,
               ClientStep(c) \/ \E login \in Logins[plugin][c] : Arrive(c, login)
        PROVE  TableInv'
    BY <2>1, <2>2, ClientTables
  <2>3. ASSUME NEW h \in Handlers, HandlerStep(h) \/ \E q \in Requests[plugin] : Begin(h, q)
        PROVE  TableInv'
    <3>1. NoLists'
      BY <2>1, <2>3, HandlersLeaveRequests DEF TableInv, NoLists, clientVars
    <3>2. HasUser' /\ Rows'
      BY <2>1, <2>3, <3>1, CreateTables, UpdateFindTables, DecodeTables, SaveTables,
         OrganizationTables, DeleteTables, BeginTables DEF HandlerStep, IInv
    <3> QED BY <3>1, <3>2 DEF TableInv
  <2>4. CASE UNCHANGED vars
    <3>1. UNCHANGED <<store, heap, user, at, req, auth>>
      BY <2>4 DEF vars, storeVars, handlerVars, clientVars
    <3>2. NoLists' /\ HasUser'
      BY <2>1, <3>1 DEF TableInv, NoLists, HasUser
    <3>3. Rows'
      BY <2>1, <3>1, <3>2, FewerRows DEF TableInv, Rows
    <3> QED BY <3>2, <3>3 DEF TableInv
  <2> QED BY <2>2, <2>3, <2>4 DEF Next
<1> QED BY <1>1, <1>2, <1>3, <1>4 DEF IInv

\* No order of requests, failures and retries puts a password in clear text into a table of
\* mongodb or cassandra.  (Add of their repositories.)
THEOREM HashedAtRestHolds == Spec => []HashedAtRest
<1>1. IInv => HashedAtRest
  BY DEF IInv, TableInv, Rows, HashedAtRest
<1> QED BY <1>1, InitIInv, NextIInv, PTL DEF Spec

----------------------------------------------------------------------------
(* Types, for every repository.                                            *)

Content ==
    [name : Users, org : Orgs \union {NoOrg}, pass : [text : Passwords, rounds : Nat]]

StoreOK ==
    /\ [plugin |-> plugin, backend |-> backend] \in Setups
    /\ store \in [Users -> Objs \union {NoObj}]
    /\ orgs \in [Orgs -> Configs \union {NoConfig}]

HeapOK == DOMAIN heap = Live /\ \A o \in Live : heap[o] \in Content

\* What a handler has in hand in each of its phases.
PhaseOK(h) ==
    /\ at[h] # "idle" => req[h] \in Requests[plugin] /\ Installed
    /\ user[h] # NoObj <=> at[h] \in {"decode", "add"}
    /\ at[h] \in {"find", "add"} => req[h].op \in {"create", "update"}
    /\ at[h] = "decode" => req[h].op = "update"
    /\ at[h] = "remove" => req[h].op = "delete"
    /\ at[h] \in {"findOrg", "addOrg"} => req[h].op \in {"create", "createOrg", "updateOrg"}

HandlersOK ==
    /\ req \in [Handlers -> Requests[plugin] \union {NoRequest}]
    /\ at \in [Handlers -> {"idle", "find", "decode", "add", "remove", "findOrg", "addOrg"}]
    /\ user \in [Handlers -> Objs \union {NoObj}]
    /\ ops \in 0 .. MaxOps[backend]
    /\ promised \in [Users -> Passwords \union {Omitted}]
    /\ alone \in [Handlers -> BOOLEAN]
    /\ \A h \in Handlers : PhaseOK(h)

AuthType ==
    [at : {"idle", "list", "compare", "password", "findOrg", "header", "forwarded", "refused"},
     name : Users \union {Omitted}, pass : Passwords \union {Omitted},
     list : SUBSET Objs, named : Objs \union {NoObj}, org : Orgs \union {NoOrg},
     header : Orgs \union {NoOrg}, config : Orgs \union {NoOrg}]

\* A list of the users has at most one object for each name.
IsListing(s) == \E f \in [Users -> Objs \union {NoObj}] : s = Elems(f) \ {NoObj}

\* A request has a list while it goes through it, and a user whose name was right.
ListOK(a) ==
    /\ IsListing(a.list)
    /\ a.at \notin {"compare", "password"} => a.list = {}
    /\ IF a.at = "password" THEN a.named \in a.list ELSE a.named = NoObj

ClientsOK ==
    /\ auth \in [Clients -> AuthType]
    /\ shared \in Orgs \union {NoOrg}
    /\ \A c \in Clients : ListOK(auth[c])

\* The requests that may still hash a password, less those that were counted when they
\* began; with mongodb and cassandra a request hashes its own copy, however often it tries.
Pending ==
    {h \in Handlers : at[h] \in IF backend = "memory" THEN {"find", "decode", "add"} ELSE {"find"}}

Spent == ops - Cardinality(Pending)

RoundsOK ==
    /\ Cardinality(Pending) <= ops
    /\ \A o \in Live : heap[o].pass.rounds <= Spent
    /\ backend # "memory" =>
         \A h \in Handlers : user[h] # NoObj => heap[user[h]].pass.rounds < Spent

TypeInv ==
    /\ StoreOK /\ HeapOK /\ HandlersOK /\ ClientsOK /\ RoundsOK /\ QueryTypeOK

HistoryOK == gone \in SUBSET Users /\ barred \in [Clients -> BOOLEAN]

LEMMA TypeInvIsType == TypeInv /\ HistoryOK => TypeOK
<1> SUFFICES ASSUME TypeInv, HistoryOK PROVE TypeOK
  OBVIOUS
<1>1. ops \in Nat /\ ops <= MaxOps[backend] /\ MaxOps[backend] \in Nat
  BY SetsAssumption DEF TypeInv, StoreOK, HandlersOK
<1>2. Cardinality(Pending) \in Nat
  <2>1. IsFiniteSet(Pending)
    BY SetsAssumption, FS_Subset DEF Pending
  <2> QED BY <2>1, FS_CardinalityType
<1>3. ASSUME NEW o \in Live
      PROVE  heap[o] \in [name : Users, org : Orgs \union {NoOrg},
                          pass : [text : Passwords, rounds : 0 .. MaxOps[backend]]]
  <2>1. heap[o] \in Content /\ heap[o].pass.rounds <= Spent
    BY DEF TypeInv, HeapOK, RoundsOK
  <2>2. heap[o].pass.rounds \in 0 .. MaxOps[backend]
    BY <1>1, <1>2, <2>1 DEF Content, Spent
  <2> QED BY <2>1, <2>2 DEF Content
<1> QED BY <1>3 DEF TypeInv, StoreOK, HeapOK, HandlersOK, ClientsOK, AuthType, HistoryOK, TypeOK

----------------------------------------------------------------------------
(* There is an object for one more user.                                   *)

LEMMA ListsSmall ==
    ASSUME ClientsOK
    PROVE  LET lists == UNION {auth[c].list : c \in Clients}
           IN  /\ IsFiniteSet(lists)
               /\ Cardinality(lists) <= Cardinality(Clients) * Cardinality(Users)
<1> DEFINE lists == UNION {auth[c].list : c \in Clients}
           listing(c) == CHOOSE f \in [Users -> Objs \union {NoObj}] :
                           auth[c].list = Elems(f) \ {NoObj}
           pairs == Clients \X Users
           all == [p \in pairs |-> listing(p[1])[p[2]]]
<1>1. \A c \in Clients : /\ listing(c) \in [Users -> Objs \union {NoObj}]
                         /\ auth[c].list = Elems(listing(c)) \ {NoObj}
  BY DEF ClientsOK, ListOK, IsListing
<1>2. IsFiniteSet(pairs) /\ Cardinality(pairs) = Cardinality(Clients) * Cardinality(Users)
  BY SetsAssumption, FS_Product
<1> HIDE DEF listing
<1>3. all \in [pairs -> Objs \union {NoObj}]
  BY <1>1
<1>4. lists \subseteq Elems(all)
  <2> SUFFICES ASSUME NEW c \in Clients, NEW o \in auth[c].list PROVE o \in Elems(all)
    OBVIOUS
  <2>1. PICK u \in Users : o = listing(c)[u]
    BY <1>1 DEF Elems
  <2>2. <<c, u>> \in pairs /\ all[<<c, u>>] = o
    BY <2>1
  <2> QED BY <2>2 DEF Elems
<1>5. IsFiniteSet(Elems(all)) /\ Cardinality(Elems(all)) <= Cardinality(pairs)
  <2> HIDE DEF all, pairs
  <2> QED BY <1>2, <1>3, ElemsFinite
<1>6. IsFiniteSet(lists) /\ Cardinality(lists) <= Cardinality(Elems(all))
  BY <1>4, <1>5, FS_Subset
<1>7. /\ Cardinality(lists) \in Nat /\ Cardinality(Elems(all)) \in Nat
      /\ Cardinality(pairs) \in Nat
  BY <1>2, <1>5, <1>6, FS_CardinalityType
<1>8. Cardinality(lists) <= Cardinality(pairs)
  <2> HIDE DEF lists, all, pairs
  <2> QED BY <1>5, <1>6, <1>7
<1> QED BY <1>2, <1>6, <1>8

LEMMA UnionSmall ==
    ASSUME NEW S, NEW T, IsFiniteSet(S), IsFiniteSet(T)
    PROVE  IsFiniteSet(S \union T) /\ Cardinality(S \union T) <= Cardinality(S) + Cardinality(T)
<1>1. IsFiniteSet(S \intersect T)
  BY FS_Intersection
<1>2. /\ Cardinality(S) \in Nat /\ Cardinality(T) \in Nat
      /\ Cardinality(S \intersect T) \in Nat
  BY <1>1, FS_CardinalityType
<1>3. /\ IsFiniteSet(S \union T)
      /\ Cardinality(S \union T) = Cardinality(S) + Cardinality(T) - Cardinality(S \intersect T)
  BY FS_Union
<1> QED BY <1>2, <1>3

LEMMA SpareObject ==
    ASSUME StoreOK, HandlersOK, ClientsOK
    PROVE  Fresh \in Objs /\ Fresh \notin Live /\ Fresh # NoObj
<1> DEFINE users == Cardinality(Users)
           handlers == Cardinality(Handlers)
           clients == Cardinality(Clients)
           n == users * (1 + clients) + handlers + 1
           lists == UNION {auth[c].list : c \in Clients}
           taken == Elems(store) \union Elems(user)
           held == taken \union lists
<1>1. users \in Nat /\ handlers \in Nat /\ clients \in Nat
  BY SetsAssumption, FS_CardinalityType
<1>2. n \in Nat /\ n > users + handlers + clients * users
  <2>1. /\ clients * users \in Nat
        /\ users * (1 + clients) = users + clients * users
    BY <1>1
  <2> QED BY <1>1, <2>1
<1>3. IsFiniteSet(Objs) /\ Cardinality(Objs) = n
  <2>1. Objs = 1 .. n
    BY DEF Objs
  <2> QED BY <1>2, <2>1, FS_Interval
<1>4. /\ IsFiniteSet(Elems(store)) /\ Cardinality(Elems(store)) <= users
      /\ IsFiniteSet(Elems(user)) /\ Cardinality(Elems(user)) <= handlers
  BY SetsAssumption, ElemsFinite DEF StoreOK, HandlersOK
<1>5. IsFiniteSet(lists) /\ Cardinality(lists) <= clients * users
  BY ListsSmall
<1>6. IsFiniteSet(taken)
      /\ Cardinality(taken) <= Cardinality(Elems(store)) + Cardinality(Elems(user))
  BY <1>4, UnionSmall
<1>7. IsFiniteSet(held) /\ Cardinality(held) <= Cardinality(taken) + Cardinality(lists)
  BY <1>5, <1>6, UnionSmall
<1>8. Cardinality(held) < n /\ Cardinality(held) \in Nat
  <2>1. /\ Cardinality(Elems(store)) \in Nat /\ Cardinality(Elems(user)) \in Nat
        /\ Cardinality(taken) \in Nat /\ Cardinality(lists) \in Nat /\ Cardinality(held) \in Nat
    BY <1>4, <1>5, <1>6, <1>7, FS_CardinalityType
  <2>2. clients * users \in Nat
    BY <1>1
  <2> HIDE DEF users, handlers, clients, n, lists, taken, held
  <2> QED BY <1>1, <1>2, <1>4, <1>5, <1>6, <1>7, <2>1, <2>2
<1>9. ~(Objs \subseteq held)
  <2> SUFFICES ASSUME Objs \subseteq held PROVE FALSE
    OBVIOUS
  <2>1. Cardinality(Objs) <= Cardinality(held)
    BY <1>7, FS_Subset
  <2> HIDE DEF n, held
  <2> QED BY <1>2, <1>3, <1>8, <2>1
<1>10. \E o \in Objs : o \notin Live
  BY <1>9 DEF Live
<1>11. NoObj \notin Objs
  BY DEF Objs, NoObj
<1> QED BY <1>10, <1>11 DEF Fresh

----------------------------------------------------------------------------
(* What a step of a handler changes.                                       *)

\* The names in S get the object x, and the handler gets y.
Puts(h, S, x, y) ==
    /\ UNCHANGED auth
    /\ store' = [u \in Users |-> IF u \in S THEN x ELSE store[u]]
    /\ user' = [g \in Handlers |-> IF g = h THEN y ELSE user[g]]

\* And the object z has a new content.
Change(h, S, x, y, z, content) ==
    /\ Puts(h, S, x, y)
    /\ Live' \subseteq Live \union {z}
    /\ DOMAIN heap' = Live'
    /\ \A o \in Live' : heap'[o] = IF o = z THEN content ELSE heap[o]

\* No user changes, and the handler gets y.
Quiet(h, y) == Change(h, {}, NoObj, y, NoObj, NoObj)

LEMMA LiveGrows ==
    ASSUME TypeInv, NEW h \in Handlers, NEW S, NEW x, NEW y, NEW z, Puts(h, S, x, y),
           S = {} \/ x \in Live \union {z, NoObj}, y \in Live \union {z, NoObj}
    PROVE  Live' \subseteq Live \union {z}
<1> DEFINE lists == UNION {auth[c].list : c \in Clients}
<1>1. Elems(store') \subseteq Live \union {z, NoObj}
  BY DEF Puts, TypeInv, StoreOK, Elems, Live
<1>2. Elems(user') \subseteq Live \union {z, NoObj}
  BY DEF Puts, TypeInv, HandlersOK, Elems, Live
<1>3. Live' = (Elems(store') \union Elems(user') \union lists) \ {NoObj}
  BY DEF Puts, Live, Elems
<1>4. lists \ {NoObj} \subseteq Live
  BY DEF Live
<1> HIDE DEF lists
<1> QED BY <1>1, <1>2, <1>3, <1>4

LEMMA LiveSame ==
    ASSUME UNCHANGED auth, Elems(store') \union Elems(user') \union {NoObj}
                             = Elems(store) \union Elems(user) \union {NoObj}
    PROVE  Live' = Live
<1> DEFINE lists == UNION {auth[c].list : c \in Clients}
<1>1. Live' = (Elems(store') \union Elems(user') \union lists) \ {NoObj}
  BY DEF Live, Elems
<1>2. Live = (Elems(store) \union Elems(user) \union lists) \ {NoObj}
  BY DEF Live
<1> HIDE DEF lists
<1> QED BY <1>1, <1>2

LEMMA WriteChange ==
    ASSUME TypeInv, NEW h \in Handlers, NEW S, NEW x, NEW y, NEW z, NEW content,
           Puts(h, S, x, y),
           S = {} \/ x \in Live \union {z, NoObj}, y \in Live \union {z, NoObj},
           Collect(With(z, content))
    PROVE  Change(h, S, x, y, z, content)
<1>1. Live' \subseteq Live \union {z}
  BY LiveGrows
<1>2. DOMAIN heap' = Live' /\ \A o \in Live' : heap'[o] = IF o = z THEN content ELSE heap[o]
  BY <1>1 DEF Collect, With
<1> QED BY <1>1, <1>2 DEF Change

LEMMA DropChange ==
    ASSUME TypeInv, NEW h \in Handlers, NEW S, NEW y, Puts(h, S, NoObj, y),
           y \in Live \union {NoObj},
           Collect(heap)
    PROVE  Change(h, S, NoObj, y, NoObj, NoObj)
<1>1. Live' \subseteq Live \union {NoObj}
  BY LiveGrows
<1>2. NoObj \notin Live'
  BY DEF Live
<1>3. DOMAIN heap' = Live' /\ \A o \in Live' : heap'[o] = heap[o]
  BY DEF Collect
<1> QED BY <1>1, <1>2, <1>3 DEF Change

\* The handler waits, or it takes an object that is stored.
LEMMA QuietChange ==
    ASSUME TypeInv, UNCHANGED <<auth, store, heap>>, NEW h \in Handlers, NEW y,
           user' = [g \in Handlers |-> IF g = h THEN y ELSE user[g]],
           y = user[h] \/ (user[h] = NoObj /\ y \in Elems(store))
    PROVE  Quiet(h, y)
<1>1. store' = [u \in Users |-> IF u \in {} THEN NoObj ELSE store[u]]
  BY DEF TypeInv, StoreOK
<1>2. Elems(store') = Elems(store)
  BY DEF Elems
<1>3. Live' = Live
  <2>1. CASE y = user[h]
    <3>1. user' = user
      BY <2>1 DEF TypeInv, HandlersOK
    <3> QED BY <1>2, <3>1, LiveSame
  <2>2. CASE user[h] = NoObj /\ y \in Elems(store)
    <3>1. \A g \in Handlers : user'[g] = IF g = h THEN y ELSE user[g]
      OBVIOUS
    <3>2. DOMAIN user' = Handlers /\ DOMAIN user = Handlers
      BY DEF TypeInv, HandlersOK
    <3>3. Elems(user') \subseteq Elems(user) \union Elems(store)
      BY <2>2, <3>1, <3>2 DEF Elems
    <3>4. Elems(user) \subseteq Elems(user') \union {NoObj}
      BY <2>2, <3>1, <3>2 DEF Elems
    <3> QED BY <1>2, <3>3, <3>4, LiveSame
  <2> QED BY <2>1, <2>2
<1>4. NoObj \notin Live
  BY DEF Live
<1> QED BY <1>1, <1>3, <1>4 DEF Quiet, Change, Puts, TypeInv, HeapOK

\* The objects that stay keep types when the new content has one.
LEMMA ChangeTypes ==
    ASSUME TypeInv, NEW h \in Handlers, NEW S, NEW x, NEW y, NEW z, NEW content,
           Change(h, S, x, y, z, content),
           S = {} \/ x \in Objs \union {NoObj}, y \in Objs \union {NoObj},
           z = NoObj \/ content \in Content
    PROVE  /\ store' \in [Users -> Objs \union {NoObj}]
           /\ user' \in [Handlers -> Objs \union {NoObj}]
           /\ HeapOK'
<1>1. store' \in [Users -> Objs \union {NoObj}]
  BY DEF Change, Puts, TypeInv, StoreOK
<1>2. user' \in [Handlers -> Objs \union {NoObj}]
  BY DEF Change, Puts, TypeInv, HandlersOK
<1>3. NoObj \notin Live'
  BY DEF Live
<1>4. HeapOK'
  BY <1>3 DEF Change, TypeInv, HeapOK
<1> QED BY <1>1, <1>2, <1>4

----------------------------------------------------------------------------
(* The steps of a handler, as changes.                                     *)

LEMMA FindAnswers ==
    ASSUME NEW h \in Handlers, NEW result, FindByUsername(h, result)
    PROVE  /\ result = "found" => store[req[h].name] # NoObj
           /\ result = "not found" => store[req[h].name] = NoObj
BY DEF FindByUsername, OrganizationFind, InMemoryFind, MongoFind, CassandraFind, Scan, Stored

LEMMA StaysFree ==
    ASSUME TypeInv, NEW h \in Handlers, user[h] = NoObj, UNCHANGED <<auth, store, heap>>,
           UNCHANGED user \/ Answer(h)
    PROVE  Quiet(h, NoObj)
<1>1. user' = [g \in Handlers |-> IF g = h THEN NoObj ELSE user[g]]
  BY DEF TypeInv, HandlersOK, Answer
<1> QED BY <1>1, QuietChange

NewUser(h) == [name |-> req[h].name, org |-> req[h].org, pass |-> Plain(req[h].pass)]

LEMMA CreateMoves ==
    ASSUME TypeInv, NEW h \in Handlers, CreateFind(h)
    PROVE  \/ (GoOn(h, "find") \/ Answer(h)) /\ Quiet(h, NoObj)
           \/ /\ GoOn(h, "add") /\ store[req[h].name] = NoObj
              /\ Change(h, {}, NoObj, Fresh, Fresh, NewUser(h))
<1>1. UNCHANGED <<auth, store>> /\ user[h] = NoObj
  BY DEF CreateFind, clientVars, TypeInv, HandlersOK, PhaseOK
<1>2. CASE GoOn(h, "find") /\ UNCHANGED <<user, heap>>
  BY <1>1, <1>2, StaysFree
<1>3. CASE Answer(h) /\ UNCHANGED heap
  BY <1>1, <1>3, StaysFree
<1>4. CASE /\ FindByUsername(h, "not found") /\ GoOn(h, "add")
           /\ user' = [user EXCEPT ![h] = Fresh] /\ Collect(With(Fresh, NewUser(h)))
  <2>1. Puts(h, {}, NoObj, Fresh)
    BY <1>1, <1>4 DEF Puts, TypeInv, StoreOK, HandlersOK
  <2>2. Change(h, {}, NoObj, Fresh, Fresh, NewUser(h))
    BY <1>4, <2>1, WriteChange
  <2> QED BY <1>4, <2>2, FindAnswers
<1> QED BY <1>2, <1>3, <1>4 DEF CreateFind, NewUser

LEMMA UpdateMoves ==
    ASSUME TypeInv, NEW h \in Handlers, UpdateFind(h)
    PROVE  LET o == store[req[h].name] IN
           \/ (GoOn(h, "find") \/ Answer(h)) /\ Quiet(h, NoObj)
           \/ /\ GoOn(h, "decode") /\ o # NoObj
              /\ \/ backend = "memory" /\ Quiet(h, o)
                 \/ backend # "memory" /\ Change(h, {}, NoObj, Fresh, Fresh, heap[o])
<1> DEFINE o == store[req[h].name]
<1>1. UNCHANGED <<auth, store>> /\ user[h] = NoObj
  BY DEF UpdateFind, clientVars, TypeInv, HandlersOK, PhaseOK
<1>2. req[h].name \in Users
  BY RequestsAssumption DEF UpdateFind, TypeInv, StoreOK, HandlersOK, PhaseOK
<1>3. CASE GoOn(h, "find") /\ UNCHANGED <<user, heap>>
  BY <1>1, <1>3, StaysFree
<1>4. CASE Answer(h) /\ UNCHANGED heap
  BY <1>1, <1>4, StaysFree
<1>5. CASE /\ FindByUsername(h, "found") /\ GoOn(h, "decode") /\ backend = "memory"
           /\ user' = [user EXCEPT ![h] = o] /\ UNCHANGED heap
  <2>1. o \in Elems(store)
    BY <1>2 DEF Elems, TypeInv, StoreOK
  <2>2. user' = [g \in Handlers |-> IF g = h THEN o ELSE user[g]]
    BY <1>5 DEF TypeInv, HandlersOK
  <2>3. Quiet(h, o)
    BY <1>1, <1>5, <2>1, <2>2, QuietChange
  <2> QED BY <1>5, <2>3, FindAnswers
<1>6. CASE /\ FindByUsername(h, "found") /\ GoOn(h, "decode") /\ backend # "memory"
           /\ user' = [user EXCEPT ![h] = Fresh] /\ Collect(With(Fresh, heap[o]))
  <2>1. Puts(h, {}, NoObj, Fresh)
    BY <1>1, <1>6 DEF Puts, TypeInv, StoreOK, HandlersOK
  <2>2. Change(h, {}, NoObj, Fresh, Fresh, heap[o])
    BY <1>6, <2>1, WriteChange
  <2> QED BY <1>6, <2>2, FindAnswers
<1> QED BY <1>3, <1>4, <1>5, <1>6 DEF UpdateFind

LEMMA HoldsLive ==
    ASSUME TypeInv, NEW h \in Handlers, user[h] # NoObj
    PROVE  user[h] \in Live /\ user[h] \in Objs /\ heap[user[h]] \in Content
<1>1. user[h] \in Elems(user) /\ user[h] \in Objs
  BY DEF TypeInv, HandlersOK, Elems
<1> QED BY <1>1 DEF Live, TypeInv, HeapOK

LEMMA DecodeMoves ==
    ASSUME TypeInv, NEW h \in Handlers, UpdateDecode(h)
    PROVE  /\ user[h] # NoObj
           /\ \/ Answer(h) /\ Change(h, {}, NoObj, NoObj, user[h], Decoded(h))
              \/ GoOn(h, "add") /\ Change(h, {}, NoObj, user[h], user[h], Decoded(h))
<1>1. UNCHANGED <<auth, store>> /\ user[h] # NoObj /\ Collect(With(user[h], Decoded(h)))
  BY DEF UpdateDecode, clientVars, TypeInv, HandlersOK, PhaseOK
<1>2. CASE Answer(h)
  <2>1. Puts(h, {}, NoObj, NoObj)
    BY <1>1, <1>2 DEF Answer, Puts, TypeInv, StoreOK, HandlersOK
  <2> QED BY <1>1, <1>2, <2>1, WriteChange
<1>3. CASE GoOn(h, "add") /\ UNCHANGED user
  <2>1. Puts(h, {}, NoObj, user[h])
    BY <1>1, <1>3 DEF Puts, TypeInv, StoreOK, HandlersOK
  <2> QED BY <1>1, <1>3, <2>1, WriteChange
<1> QED BY <1>2, <1>3 DEF UpdateDecode

\* The user is in the datastore, under the name it has.
Saved(h, y) ==
    \/ backend # "memory" /\ Change(h, {heap[user[h]].name}, Fresh, y, Fresh, Hashed(user[h]))
    \/ backend = "memory" /\ Change(h, {heap[user[h]].name}, user[h], y, user[h], Hashed(user[h]))

LEMMA AddMoves ==
    ASSUME TypeInv, NEW h \in Handlers, at[h] = "add", NEW result, Add(h, result),
           UNCHANGED auth, NEW y \in {user[h], NoObj},
           user' = [g \in Handlers |-> IF g = h THEN y ELSE user[g]]
    PROVE  /\ result = "ok" => Saved(h, y)
           /\ result = "again" => backend # "memory"
           /\ Saved(h, y) \/ Quiet(h, y)
<1>1. /\ user[h] # NoObj /\ Installed
      /\ store \in [Users -> Objs \union {NoObj}]
  BY DEF TypeInv, StoreOK, HandlersOK, PhaseOK
<1>2. user[h] \in Live /\ heap[user[h]].name \in Users
  BY <1>1, HoldsLive DEF Content
<1>3. y \in Live \union {NoObj}
  BY <1>2
<1>4. CASE Upsert(h) /\ backend # "memory"
  <2>1. Puts(h, {heap[user[h]].name}, Fresh, y)
    BY <1>1, <1>2, <1>4 DEF Puts, Upsert
  <2> QED BY <1>3, <1>4, <2>1, WriteChange DEF Upsert, Saved
<1>5. CASE NoWrite /\ result # "ok" /\ backend # "memory"
  <2>1. Puts(h, {}, NoObj, y)
    BY <1>1, <1>5 DEF Puts, NoWrite
  <2> QED BY <1>3, <1>5, <2>1, DropChange DEF NoWrite, Quiet
<1>6. CASE InMemoryAdd(h, result) /\ backend = "memory"
  <2>1. Puts(h, {heap[user[h]].name}, user[h], y)
    BY <1>1, <1>2, <1>6 DEF Puts, InMemoryAdd
  <2>2. result = "ok" /\ Collect(With(user[h], Hashed(user[h])))
    BY <1>6 DEF InMemoryAdd, Hashed
  <2>3. Change(h, {heap[user[h]].name}, user[h], y, user[h], Hashed(user[h]))
    BY <1>2, <1>3, <2>1, <2>2, WriteChange
  <2> QED BY <1>6, <2>2, <2>3 DEF Saved
<1>7. plugin = "organization" => backend # "memory"
  BY <1>1 DEF Installed, OrganizationInstalled, TypeInv, StoreOK
<1> QED BY <1>4, <1>5, <1>6, <1>7 DEF Add, OrganizationAdd, MongoAdd, CassandraAdd

LEMMA SaveMoves ==
    ASSUME TypeInv, NEW h \in Handlers, Save(h) \/ OrgCreateAdd(h)
    PROVE  /\ at[h] = "add" /\ user[h] # NoObj
           /\ \/ /\ GoOn(h, "add") /\ UNCHANGED promised /\ backend # "memory"
                 /\ Saved(h, user[h]) \/ Quiet(h, user[h])
              \/ /\ Answer(h) /\ UNCHANGED promised
                 /\ Saved(h, NoObj) \/ Quiet(h, NoObj)
              \/ /\ Answer(h) \/ (GoOn(h, "findOrg") /\ req[h].op = "create")
                 /\ Promise(h)
                 /\ Saved(h, NoObj)
<1>1. at[h] = "add" /\ user[h] # NoObj /\ UNCHANGED auth
  BY DEF Save, OrgCreateAdd, clientVars, TypeInv, HandlersOK, PhaseOK
<1>2. CASE GoOn(h, "add") /\ UNCHANGED <<user, promised>> /\ Add(h, "again")
  <2>1. user' = [g \in Handlers |-> IF g = h THEN user[h] ELSE user[g]]
    BY <1>2 DEF TypeInv, HandlersOK
  <2> QED BY <1>1, <1>2, <2>1, AddMoves
<1>3. CASE Answer(h) /\ UNCHANGED promised /\ Add(h, "error")
  <2>1. user' = [g \in Handlers |-> IF g = h THEN NoObj ELSE user[g]]
    BY <1>3 DEF Answer, TypeInv, HandlersOK
  <2> QED BY <1>1, <1>3, <2>1, AddMoves
<1>4. CASE Answer(h) /\ Promise(h) /\ Add(h, "ok")
  <2>1. user' = [g \in Handlers |-> IF g = h THEN NoObj ELSE user[g]]
    BY <1>4 DEF Answer, TypeInv, HandlersOK
  <2> QED BY <1>1, <1>4, <2>1, AddMoves
<1>5. CASE /\ GoOn(h, "findOrg") /\ Promise(h) /\ Add(h, "ok")
           /\ user' = [user EXCEPT ![h] = NoObj] /\ req[h].op = "create"
  <2>1. user' = [g \in Handlers |-> IF g = h THEN NoObj ELSE user[g]]
    BY <1>5 DEF TypeInv, HandlersOK
  <2> QED BY <1>1, <1>5, <2>1, AddMoves
<1> QED BY <1>1, <1>2, <1>3, <1>4, <1>5 DEF Save, OrgCreateAdd

LEMMA OrgMoves ==
    ASSUME TypeInv, NEW h \in Handlers, OrgFind(h) \/ OrgAdd(h)
    PROVE  /\ at[h] \in {"findOrg", "addOrg"}
           /\ GoOn(h, "findOrg") \/ GoOn(h, "addOrg") \/ Answer(h)
           /\ Quiet(h, NoObj)
<1>1. /\ at[h] \in {"findOrg", "addOrg"} /\ user[h] = NoObj /\ UNCHANGED <<auth, store, heap>>
      /\ UNCHANGED user \/ Answer(h)
  BY DEF OrgFind, OrgAdd, clientVars, storeVars, TypeInv, HandlersOK, PhaseOK
<1> QED BY <1>1, StaysFree DEF OrgFind, OrgAdd

LEMMA DeleteMoves ==
    ASSUME TypeInv, NEW h \in Handlers, DeleteUser(h)
    PROVE  /\ at[h] = "remove"
           /\ GoOn(h, "remove") \/ Answer(h)
           /\ Change(h, {req[h].name}, NoObj, NoObj, NoObj, NoObj) \/ Quiet(h, NoObj)
<1>1. /\ at[h] = "remove" /\ user[h] = NoObj /\ UNCHANGED auth
      /\ (GoOn(h, "remove") /\ UNCHANGED user) \/ Answer(h)
      /\ store \in [Users -> Objs \union {NoObj}]
  BY DEF DeleteUser, clientVars, TypeInv, StoreOK, HandlersOK, PhaseOK
<1>2. user' = [g \in Handlers |-> IF g = h THEN NoObj ELSE user[g]]
  BY <1>1 DEF Answer, TypeInv, HandlersOK
<1>3. CASE Delete(h)
  <2>1. Puts(h, {req[h].name}, NoObj, NoObj)
    BY <1>1, <1>2, <1>3 DEF Puts, Delete
  <2> QED BY <1>1, <1>3, <2>1, DropChange DEF Delete
<1>4. CASE NoWrite
  <2>1. Puts(h, {}, NoObj, NoObj)
    BY <1>1, <1>2, <1>4 DEF Puts, NoWrite
  <2> QED BY <1>1, <1>4, <2>1, DropChange DEF NoWrite, Quiet
<1> QED BY <1>1, <1>3, <1>4 DEF DeleteUser, Remove, OrganizationRemove, InMemoryRemove,
                                MongoRemove, CassandraRemove

LEMMA BeginMoves ==
    ASSUME TypeInv, NEW h \in Handlers, NEW q, Begin(h, q)
    PROVE  Quiet(h, NoObj) /\ UNCHANGED user
<1>1. user[h] = NoObj /\ UNCHANGED <<auth, store, heap, user>>
  BY DEF Begin, clientVars, storeVars, TypeInv, HandlersOK, PhaseOK
<1> QED BY <1>1, StaysFree

----------------------------------------------------------------------------
(* How often a password is hashed.                                         *)

LEMMA PendingFinite ==
    ASSUME HandlersOK
    PROVE  /\ IsFiniteSet(Pending) /\ Cardinality(Pending) \in Nat
           /\ \A P \in SUBSET Pending : IsFiniteSet(P) /\ Cardinality(P) <= Cardinality(Pending)
                                        /\ Cardinality(P) \in Nat
<1>1. IsFiniteSet(Pending)
  BY SetsAssumption, FS_Subset DEF Pending
<1>2. \A P \in SUBSET Pending : IsFiniteSet(P) /\ Cardinality(P) <= Cardinality(Pending)
  BY <1>1, FS_Subset
<1> QED BY <1>1, <1>2, FS_CardinalityType

LEMMA SpentNumbers ==
    ASSUME TypeInv
    PROVE  ops \in Nat /\ Cardinality(Pending) \in Nat /\ Spent \in Nat
<1>1. ops \in Nat
  BY SetsAssumption DEF TypeInv, StoreOK, HandlersOK
<1>2. Cardinality(Pending) \in Nat /\ Cardinality(Pending) <= ops
  BY PendingFinite DEF TypeInv, RoundsOK
<1> QED BY <1>1, <1>2 DEF Spent

\* Less is pending.
LEMMA SpentGrows ==
    ASSUME TypeInv, UNCHANGED ops, Pending' \subseteq Pending
    PROVE  /\ Cardinality(Pending') <= ops' /\ Spent <= Spent' /\ Spent' \in Nat
           /\ \A h \in Pending \ Pending' : Spent + 1 <= Spent'
<1>1. ops \in Nat /\ Cardinality(Pending) \in Nat /\ Cardinality(Pending) <= ops
  BY SpentNumbers DEF TypeInv, RoundsOK
<1>2. Cardinality(Pending') \in Nat /\ Cardinality(Pending') <= Cardinality(Pending)
  BY PendingFinite DEF TypeInv
<1>3. Spent = ops - Cardinality(Pending) /\ Spent' = ops - Cardinality(Pending')
  BY DEF Spent
<1>4. ASSUME NEW h \in Pending \ Pending' PROVE Cardinality(Pending') + 1 <= Cardinality(Pending)
  <2>1. IsFiniteSet(Pending) /\ Pending' \subseteq Pending \ {h}
    BY <1>4, PendingFinite DEF TypeInv
  <2>2. IsFiniteSet(Pending \ {h}) /\ Cardinality(Pending \ {h}) = Cardinality(Pending) - 1
    BY <1>4, <2>1, FS_RemoveElement
  <2>3. Cardinality(Pending') <= Cardinality(Pending \ {h})
    BY <2>1, <2>2, FS_Subset
  <2> QED BY <1>1, <1>2, <2>2, <2>3
<1> HIDE DEF Pending, Spent
<1> QED BY <1>1, <1>2, <1>3, <1>4

LEMMA RoundsChange ==
    ASSUME TypeInv, UNCHANGED backend, NEW h \in Handlers, NEW S, NEW x, NEW y, NEW z, NEW content,
           Change(h, S, x, y, z, content),
           Cardinality(Pending') <= ops', Spent <= Spent', Spent' \in Nat,
           z = NoObj \/ (content \in Content /\ content.pass.rounds <= Spent'),
           y \in {NoObj, user[h], z},
           backend # "memory" =>
             \/ z = NoObj
             \/ content.pass.rounds < Spent'
             \/ z \notin Live /\ y # z
    PROVE  RoundsOK'
<1>1. Spent \in Nat
  BY SpentNumbers
<1>2. NoObj \notin Live' /\ \A o \in Live : heap[o].pass.rounds \in Nat
  BY DEF Live, TypeInv, HeapOK, Content
<1>3. \A o \in Live' \ {z} : o \in Live /\ heap'[o] = heap[o]
  BY DEF Change
<1>4. z \in Live' => heap'[z] = content
  BY DEF Change
<1>5. ASSUME NEW o \in Live' PROVE heap'[o].pass.rounds <= Spent'
  <2>1. CASE o = z
    BY <1>2, <1>4, <1>5, <2>1
  <2>2. CASE o # z
    <3>1. heap'[o] = heap[o] /\ heap[o].pass.rounds <= Spent /\ heap[o].pass.rounds \in Nat
      BY <1>2, <1>3, <1>5, <2>2 DEF TypeInv, RoundsOK
    <3> QED BY <1>1, <3>1
  <2> QED BY <2>1, <2>2
<1>6. ASSUME backend # "memory", NEW g \in Handlers, user'[g] # NoObj
      PROVE  heap'[user'[g]].pass.rounds < Spent'
  <2>1. user'[g] = IF g = h THEN y ELSE user[g]
    BY DEF Change, Puts
  <2>2. user'[g] \in Live'
    <3>1. user'[g] \in Elems(user')
      BY DEF Change, Puts, Elems
    <3> QED BY <1>6, <3>1 DEF Live, Elems
  <2>3. CASE user'[g] = z
    <3>1. z # NoObj
      BY <1>6, <2>3
    <3>2. z \in Live \/ y = z
      <4>1. user[g] # NoObj => user[g] \in Live
        BY HoldsLive
      <4> QED BY <1>6, <2>1, <2>3, <4>1
    <3> QED BY <1>4, <1>6, <2>2, <2>3, <3>1, <3>2
  <2>4. CASE user'[g] # z
    <3>1. user'[g] = user[g]
      BY <1>6, <2>1, <2>4
    <3>2. /\ heap'[user[g]] = heap[user[g]] /\ user[g] \in Live
          /\ heap[user[g]].pass.rounds < Spent
      BY <1>3, <1>6, <2>2, <2>4, <3>1 DEF TypeInv, RoundsOK
    <3> QED BY <1>1, <1>2, <3>1, <3>2
  <2> QED BY <2>3, <2>4
<1> QED BY <1>5, <1>6 DEF RoundsOK

----------------------------------------------------------------------------
(* The phases of a handler.                                                *)

OpFits(op, call) ==
    /\ call \in {"find", "add"} => op \in {"create", "update"}
    /\ call = "decode" => op = "update"
    /\ call = "remove" => op = "delete"
    /\ call \in {"findOrg", "addOrg"} => op \in {"create", "createOrg", "updateOrg"}

Calls == {"find", "decode", "add", "remove", "findOrg", "addOrg"}

LEMMA AnswerPhase ==
    ASSUME TypeInv, UNCHANGED <<plugin, backend, ops>>, NEW h \in Handlers, Answer(h),
           promised' \in [Users -> Passwords \union {Omitted}]
    PROVE  HandlersOK' /\ Pending' \subseteq Pending
<1>1. Installed' = Installed
  BY DEF Installed, BasicInstalled, OrganizationInstalled
<1>2. /\ req' \in [Handlers -> Requests[plugin] \union {NoRequest}]
      /\ at' \in [Handlers -> Calls \union {"idle"}]
      /\ user' \in [Handlers -> Objs \union {NoObj}]
      /\ alone' \in [Handlers -> BOOLEAN]
  BY DEF Answer, TypeInv, HandlersOK, Calls
<1>3. at'[h] = "idle" /\ user'[h] = NoObj
  BY DEF Answer, TypeInv, HandlersOK
<1>4. \A g \in Handlers \ {h} : req'[g] = req[g] /\ at'[g] = at[g] /\ user'[g] = user[g]
  BY DEF Answer, TypeInv, HandlersOK
<1>5. ASSUME NEW g \in Handlers PROVE PhaseOK(g)'
  <2>1. CASE g = h
    BY <1>3, <2>1 DEF PhaseOK
  <2>2. CASE g # h
    BY <1>1, <1>4, <2>2 DEF PhaseOK, TypeInv, HandlersOK
  <2> QED BY <2>1, <2>2
<1>6. HandlersOK'
  BY <1>2, <1>5 DEF HandlersOK, Calls, TypeInv
<1>7. Pending' \subseteq Pending
  BY <1>3, <1>4 DEF Pending
<1> QED BY <1>6, <1>7

LEMMA GoOnPhase ==
    ASSUME TypeInv, UNCHANGED <<plugin, backend, ops>>, NEW h \in Handlers,
           NEW call \in Calls, GoOn(h, call), at[h] # "idle", OpFits(req[h].op, call),
           NEW S, NEW x, NEW y \in Objs \union {NoObj}, Puts(h, S, x, y),
           y # NoObj <=> call \in {"decode", "add"},
           promised' \in [Users -> Passwords \union {Omitted}]
    PROVE  /\ HandlersOK'
           /\ (call \notin {"find", "decode", "add"} \/ h \in Pending) => Pending' \subseteq Pending
           /\ call # "find" /\ backend # "memory" => Pending' \subseteq Pending \ {h}
<1>1. Installed' = Installed
  BY DEF Installed, BasicInstalled, OrganizationInstalled
<1>2. /\ req' \in [Handlers -> Requests[plugin] \union {NoRequest}]
      /\ at' \in [Handlers -> Calls \union {"idle"}]
      /\ alone' \in [Handlers -> BOOLEAN]
  BY DEF GoOn, TypeInv, HandlersOK, Calls
<1>3. user' \in [Handlers -> Objs \union {NoObj}]
  BY DEF Puts, TypeInv, HandlersOK
<1>4. at'[h] = call /\ user'[h] = y /\ req'[h] = req[h]
  BY DEF GoOn, Puts, TypeInv, HandlersOK
<1>5. \A g \in Handlers \ {h} : req'[g] = req[g] /\ at'[g] = at[g] /\ user'[g] = user[g]
  BY DEF GoOn, Puts, TypeInv, HandlersOK
<1>6. ASSUME NEW g \in Handlers PROVE PhaseOK(g)'
  <2>1. CASE g = h
    <3>1. req[h] \in Requests[plugin] /\ Installed
      BY DEF PhaseOK, TypeInv, HandlersOK
    <3> QED BY <1>1, <1>4, <2>1, <3>1 DEF PhaseOK, OpFits
  <2>2. CASE g # h
    BY <1>1, <1>5, <2>2 DEF PhaseOK, TypeInv, HandlersOK
  <2> QED BY <2>1, <2>2
<1>7. HandlersOK'
  BY <1>2, <1>3, <1>6 DEF HandlersOK, Calls, TypeInv
<1>8. (call \notin {"find", "decode", "add"} \/ h \in Pending) => Pending' \subseteq Pending
  BY <1>4, <1>5 DEF Pending
<1>9. call # "find" /\ backend # "memory" => Pending' \subseteq Pending \ {h}
  BY <1>4, <1>5 DEF Pending
<1> QED BY <1>7, <1>8, <1>9

----------------------------------------------------------------------------
(* The steps keep the types.                                               *)

LEMMA QuerySteps ==
    ASSUME TypeInv, NEW h \in Handlers, HandlerStep(h)
    PROVE  QueryTypeOK'
<1>1. h \in Callers /\ QueryTypeOK
  BY SetsAssumption DEF TypeInv
<1>2. ASSUME NEW result, FindByUsername(h, result) PROVE QueryTypeOK'
  BY <1>1, <1>2, SucceedsType, FailureType, ScanType DEF FindByUsername, OrganizationFind,
     InMemoryFind, MongoFind, CassandraFind
<1>3. ASSUME NEW result, Add(h, result) PROVE QueryTypeOK'
  BY <1>1, <1>3, SucceedsType, FailureType, ExecType DEF Add, OrganizationAdd, InMemoryAdd,
     MongoAdd, CassandraAdd
<1>4. ASSUME NEW result, Remove(h, result) PROVE QueryTypeOK'
  BY <1>1, <1>4, SucceedsType, FailureType, ExecType DEF Remove, OrganizationRemove,
     InMemoryRemove, MongoRemove, CassandraRemove
<1>5. CASE UNCHANGED queryVars
  BY <1>1, <1>5 DEF queryVars, QueryTypeOK
<1>6. CASE OrgFind(h)
  BY <1>1, <1>6, ScanType DEF OrgFind, FindOrganization
<1>7. CASE OrgAdd(h)
  BY <1>1, <1>7, ExecType DEF OrgAdd, AddOrganization
<1> QED BY <1>2, <1>3, <1>4, <1>5, <1>6, <1>7 DEF HandlerStep, CreateFind, UpdateFind,
           UpdateDecode, Save, OrgCreateAdd, DeleteUser

\* What no step of a handler but OrgAdd and Begin changes.
Steady == UNCHANGED <<plugin, backend, ops, orgs, shared>>

LEMMA ClientsStay ==
    ASSUME TypeInv, UNCHANGED <<auth, shared>>
    PROVE  ClientsOK'
BY DEF TypeInv, ClientsOK, IsListing

LEMMA MoveTypes ==
    ASSUME TypeInv, Steady, QueryTypeOK', HandlersOK', Pending' \subseteq Pending,
           NEW h \in Handlers, NEW S, NEW x, NEW y, NEW z, NEW content,
           Change(h, S, x, y, z, content),
           S = {} \/ x \in Objs \union {NoObj}, y \in Objs \union {NoObj},
           z = NoObj \/ (content \in Content /\ content.pass.rounds <= Spent'),
           y \in {NoObj, user[h], z},
           backend # "memory" =>
             \/ z = NoObj
             \/ content.pass.rounds < Spent'
             \/ z \notin Live /\ y # z
    PROVE  TypeInv'
<1>1. UNCHANGED <<plugin, backend, ops, orgs, shared>> /\ UNCHANGED auth
  BY DEF Steady, Change, Puts
<1>2. Cardinality(Pending') <= ops' /\ Spent <= Spent' /\ Spent' \in Nat
  BY <1>1, SpentGrows
<1>3. store' \in [Users -> Objs \union {NoObj}] /\ HeapOK'
  BY ChangeTypes
<1>4. RoundsOK'
  BY <1>1, <1>2, RoundsChange
<1>5. StoreOK'
  BY <1>1, <1>3 DEF TypeInv, StoreOK
<1> QED BY <1>1, <1>3, <1>4, <1>5, ClientsStay DEF TypeInv

\* A step that changes no user.
LEMMA QuietTypes ==
    ASSUME TypeInv, UNCHANGED <<plugin, backend, ops, shared>>, QueryTypeOK',
           orgs' \in [Orgs -> Configs \union {NoConfig}],
           HandlersOK', Pending' \subseteq Pending, NEW h \in Handlers,
           NEW y \in Objs \union {NoObj}, Quiet(h, y),
           y \in {NoObj, user[h]} \/ backend = "memory"
    PROVE  TypeInv'
<1>1. Change(h, {}, NoObj, y, NoObj, NoObj) /\ UNCHANGED auth
  BY DEF Quiet, Change, Puts
<1>2. Cardinality(Pending') <= ops' /\ Spent <= Spent' /\ Spent' \in Nat
  BY SpentGrows
<1>3. store' \in [Users -> Objs \union {NoObj}] /\ HeapOK'
  BY <1>1, ChangeTypes
<1>4. RoundsOK'
  <2>1. CASE y \in {NoObj, user[h]}
    BY <1>1, <1>2, <2>1, RoundsChange
  <2>2. CASE backend = "memory"
    <3>1. Spent \in Nat /\ NoObj \notin Live' /\ Live' \subseteq Live \union {NoObj}
      BY <1>1, SpentNumbers DEF Live, Change
    <3>2. ASSUME NEW o \in Live' PROVE heap'[o].pass.rounds <= Spent'
      <4>1. /\ heap'[o] = heap[o] /\ heap[o].pass.rounds <= Spent
            /\ heap[o].pass.rounds \in Nat
        BY <1>1, <3>1, <3>2 DEF Change, TypeInv, HeapOK, RoundsOK, Content
      <4> QED BY <1>2, <3>1, <4>1
    <3> QED BY <1>2, <2>2, <3>2 DEF RoundsOK
  <2> QED BY <2>1, <2>2
<1>5. StoreOK'
  BY <1>3 DEF TypeInv, StoreOK
<1> QED BY <1>1, <1>3, <1>4, <1>5, ClientsStay DEF TypeInv

LEMMA QuietPuts ==
    ASSUME NEW h, NEW y, Quiet(h, y)
    PROVE  Puts(h, {}, NoObj, y)
BY DEF Quiet, Change

LEMMA PromiseType ==
    ASSUME TypeInv, NEW h \in Handlers, user[h] # NoObj, Promise(h) \/ UNCHANGED promised
    PROVE  promised' \in [Users -> Passwords \union {Omitted}]
<1>1. heap[user[h]].name \in Users
  BY HoldsLive DEF Content
<1>2. req[h].pass # Omitted => req[h].pass \in Passwords
  <2>1. req[h] \in Requests[plugin] /\ req[h].op \in {"create", "update"}
    BY DEF TypeInv, HandlersOK, PhaseOK
  <2> QED BY <2>1, RequestsAssumption DEF TypeInv, StoreOK
<1> QED BY <1>1, <1>2 DEF Promise, TypeInv, HandlersOK

LEMMA AnswerTypes ==
    ASSUME TypeInv, UNCHANGED <<plugin, backend, ops, shared>>, QueryTypeOK',
           orgs' \in [Orgs -> Configs \union {NoConfig}],
           NEW h \in Handlers, Answer(h), Quiet(h, NoObj),
           promised' \in [Users -> Passwords \union {Omitted}]
    PROVE  TypeInv'
<1>1. HandlersOK' /\ Pending' \subseteq Pending
  BY AnswerPhase
<1> QED BY <1>1, QuietTypes

\* The handler goes on with nothing in hand.
LEMMA GoOnTypes ==
    ASSUME TypeInv, UNCHANGED <<plugin, backend, ops, shared, promised>>, QueryTypeOK',
           orgs' \in [Orgs -> Configs \union {NoConfig}],
           NEW h \in Handlers, NEW call \in Calls, GoOn(h, call), Quiet(h, NoObj),
           call \notin {"decode", "add"}, call = "find" => at[h] = "find",
           at[h] # "idle", OpFits(req[h].op, call)
    PROVE  TypeInv'
<1>1. promised' \in [Users -> Passwords \union {Omitted}]
  BY DEF TypeInv, HandlersOK
<1>2. call \notin {"find", "decode", "add"} \/ h \in Pending
  BY DEF Pending
<1>3. HandlersOK' /\ Pending' \subseteq Pending
  BY <1>1, <1>2, QuietPuts, GoOnPhase
<1> QED BY <1>3, QuietTypes

LEMMA NewUserContent ==
    ASSUME TypeInv, NEW h \in Handlers, at[h] # "idle", req[h].op = "create"
    PROVE  NewUser(h) \in Content /\ NewUser(h).pass.rounds = 0
<1>1. req[h] \in Requests[plugin]
  BY DEF TypeInv, HandlersOK, PhaseOK
<1>2. req[h].name \in Users /\ req[h].pass \in Passwords /\ req[h].org \in Orgs \union {NoOrg}
  BY <1>1, RequestsAssumption DEF TypeInv, StoreOK
<1> QED BY <1>2 DEF NewUser, Content, Plain

LEMMA CreateTypes ==
    ASSUME TypeInv, UNCHANGED <<plugin, backend>>, NEW h \in Handlers, CreateFind(h)
    PROVE  TypeInv'
<1>1. /\ UNCHANGED <<plugin, backend, ops, shared, promised, orgs>> /\ Steady
      /\ at[h] = "find" /\ req[h].op = "create"
  BY DEF CreateFind, clientVars, Steady
<1>2. /\ orgs' \in [Orgs -> Configs \union {NoConfig}]
      /\ promised' \in [Users -> Passwords \union {Omitted}]
  BY <1>1 DEF TypeInv, StoreOK, HandlersOK
<1>3. QueryTypeOK'
  BY QuerySteps DEF HandlerStep
<1>4. CASE GoOn(h, "find") /\ Quiet(h, NoObj)
  BY <1>1, <1>2, <1>3, <1>4, GoOnTypes DEF Calls, OpFits
<1>5. CASE Answer(h) /\ Quiet(h, NoObj)
  BY <1>1, <1>2, <1>3, <1>5, AnswerTypes
<1>6. CASE GoOn(h, "add") /\ Change(h, {}, NoObj, Fresh, Fresh, NewUser(h))
  <2>1. Fresh \in Objs /\ Fresh \notin Live /\ Fresh # NoObj
    BY SpareObject DEF TypeInv
  <2>2. Puts(h, {}, NoObj, Fresh) /\ h \in Pending
    BY <1>1, <1>6 DEF Change, Pending
  <2>3. /\ HandlersOK' /\ Pending' \subseteq Pending
        /\ backend # "memory" => Pending' \subseteq Pending \ {h}
    BY <1>1, <1>2, <1>6, <2>1, <2>2, GoOnPhase DEF Calls, OpFits
  <2>4. NewUser(h) \in Content /\ NewUser(h).pass.rounds = 0
    BY <1>1, NewUserContent
  <2>5. Spent \in Nat /\ Spent' \in Nat /\ (backend # "memory" => Spent + 1 <= Spent')
    BY <1>1, <2>2, <2>3, SpentGrows, SpentNumbers
  <2>6. /\ NewUser(h).pass.rounds <= Spent'
        /\ backend # "memory" => NewUser(h).pass.rounds < Spent'
    BY <2>4, <2>5
  <2> QED BY <1>1, <1>3, <1>6, <2>1, <2>3, <2>4, <2>6, MoveTypes
<1> QED BY <1>4, <1>5, <1>6, CreateMoves

LEMMA UpdateTypes ==
    ASSUME TypeInv, UNCHANGED <<plugin, backend>>, NEW h \in Handlers, UpdateFind(h)
    PROVE  TypeInv'
<1> DEFINE o == store[req[h].name]
<1>1. /\ UNCHANGED <<plugin, backend, ops, shared, promised, orgs>> /\ Steady
      /\ at[h] = "find" /\ req[h].op = "update"
  BY DEF UpdateFind, clientVars, Steady
<1>2. /\ orgs' \in [Orgs -> Configs \union {NoConfig}]
      /\ promised' \in [Users -> Passwords \union {Omitted}]
  BY <1>1 DEF TypeInv, StoreOK, HandlersOK
<1>3. QueryTypeOK'
  BY QuerySteps DEF HandlerStep
<1>4. h \in Pending
  BY <1>1 DEF Pending
<1>5. CASE GoOn(h, "find") /\ Quiet(h, NoObj)
  BY <1>1, <1>2, <1>3, <1>5, GoOnTypes DEF Calls, OpFits
<1>6. CASE Answer(h) /\ Quiet(h, NoObj)
  BY <1>1, <1>2, <1>3, <1>6, AnswerTypes
<1>7. CASE /\ GoOn(h, "decode") /\ o # NoObj
           /\ \/ backend = "memory" /\ Quiet(h, o)
              \/ backend # "memory" /\ Change(h, {}, NoObj, Fresh, Fresh, heap[o])
  <2>1. req[h].name \in Users
    BY <1>1, RequestsAssumption DEF TypeInv, StoreOK, HandlersOK, PhaseOK
  <2>2. o \in Objs /\ o \in Live
    BY <1>7, <2>1 DEF TypeInv, StoreOK, Live, Elems
  <2> HIDE DEF o
  <2>3. CASE Quiet(h, o) /\ backend = "memory"
    <3>1. HandlersOK' /\ Pending' \subseteq Pending
      BY <1>1, <1>2, <1>4, <1>7, <2>2, <2>3, QuietPuts, GoOnPhase DEF Calls, OpFits
    <3> QED BY <1>1, <1>2, <1>3, <2>2, <2>3, <3>1, QuietTypes
  <2>4. CASE Change(h, {}, NoObj, Fresh, Fresh, heap[o]) /\ backend # "memory"
    <3>1. Fresh \in Objs /\ Fresh \notin Live /\ Fresh # NoObj
      BY SpareObject DEF TypeInv
    <3>2. Puts(h, {}, NoObj, Fresh)
      BY <2>4 DEF Change
    <3>3. HandlersOK' /\ Pending' \subseteq Pending /\ Pending' \subseteq Pending \ {h}
      BY <1>1, <1>2, <1>4, <1>7, <2>4, <3>1, <3>2, GoOnPhase DEF Calls, OpFits
    <3>4. /\ heap[o] \in Content /\ heap[o].pass.rounds <= Spent /\ heap[o].pass.rounds \in Nat
          /\ Spent \in Nat
      BY <2>2, SpentNumbers DEF TypeInv, HeapOK, RoundsOK, Content
    <3>5. Spent' \in Nat /\ Spent + 1 <= Spent'
      BY <1>1, <1>4, <3>3, SpentGrows
    <3>6. heap[o].pass.rounds < Spent' /\ heap[o].pass.rounds <= Spent'
      BY <3>4, <3>5
    <3> QED BY <1>1, <1>3, <2>4, <3>1, <3>3, <3>4, <3>6, MoveTypes
  <2> QED BY <1>7, <2>3, <2>4
<1> QED BY <1>5, <1>6, <1>7, UpdateMoves

LEMMA DecodedContent ==
    ASSUME TypeInv, NEW h \in Handlers, at[h] = "decode"
    PROVE  /\ user[h] # NoObj /\ Decoded(h) \in Content
           /\ Decoded(h).pass.rounds <= Spent
           /\ backend # "memory" => Decoded(h).pass.rounds < Spent
<1>1. user[h] # NoObj /\ req[h] \in Requests[plugin] /\ req[h].op = "update"
  BY DEF TypeInv, HandlersOK, PhaseOK
<1>2. /\ user[h] \in Live /\ heap[user[h]] \in Content /\ heap[user[h]].pass.rounds <= Spent
      /\ backend # "memory" => heap[user[h]].pass.rounds < Spent
  BY <1>1, HoldsLive DEF TypeInv, RoundsOK
<1>3. /\ req[h].rename \in Users \union {Omitted} /\ req[h].pass \in Passwords \union {Omitted}
      /\ req[h].org \in Orgs \union {NoOrg, Omitted}
  BY <1>1, RequestsAssumption DEF TypeInv, StoreOK
<1>4. Decoded(h) \in Content
  BY <1>2, <1>3 DEF Decoded, Content, Plain
<1>5. Decoded(h).pass.rounds \in {heap[user[h]].pass.rounds, 0}
  BY DEF Decoded, Plain
<1>6. Spent \in Nat /\ heap[user[h]].pass.rounds \in Nat
  BY <1>2, SpentNumbers DEF Content
<1> QED BY <1>1, <1>2, <1>4, <1>5, <1>6

LEMMA DecodeTypes ==
    ASSUME TypeInv, UNCHANGED <<plugin, backend>>, NEW h \in Handlers, UpdateDecode(h)
    PROVE  TypeInv'
<1>1. /\ UNCHANGED <<plugin, backend, ops, shared, promised, orgs>> /\ Steady
      /\ at[h] = "decode"
  BY DEF UpdateDecode, clientVars, Steady
<1>2. promised' \in [Users -> Passwords \union {Omitted}]
  BY <1>1 DEF TypeInv, HandlersOK
<1>3. QueryTypeOK'
  BY QuerySteps DEF HandlerStep
<1>4. /\ Decoded(h) \in Content /\ Decoded(h).pass.rounds <= Spent
      /\ backend # "memory" => Decoded(h).pass.rounds < Spent
      /\ user[h] # NoObj /\ user[h] \in Objs /\ req[h].op = "update"
  BY <1>1, DecodedContent, HoldsLive DEF TypeInv, HandlersOK, PhaseOK
<1>5. ASSUME HandlersOK', Pending' \subseteq Pending, NEW y \in {user[h], NoObj},
             Change(h, {}, NoObj, y, user[h], Decoded(h))
      PROVE  TypeInv'
  <2>1. Spent <= Spent' /\ Spent' \in Nat /\ Spent \in Nat
    BY <1>1, <1>5, SpentGrows, SpentNumbers
  <2>2. Decoded(h).pass.rounds \in Nat
    BY <1>4 DEF Content
  <2>3. /\ Decoded(h).pass.rounds <= Spent'
        /\ backend # "memory" => Decoded(h).pass.rounds < Spent'
    BY <1>4, <2>1, <2>2
  <2> QED BY <1>1, <1>3, <1>4, <1>5, <2>3, MoveTypes
<1>6. CASE Answer(h) /\ Change(h, {}, NoObj, NoObj, user[h], Decoded(h))
  BY <1>1, <1>2, <1>5, <1>6, AnswerPhase
<1>7. CASE GoOn(h, "add") /\ Change(h, {}, NoObj, user[h], user[h], Decoded(h))
  <2>1. Puts(h, {}, NoObj, user[h])
    BY <1>7 DEF Change
  <2>2. HandlersOK'
    BY <1>1, <1>2, <1>4, <1>7, <2>1, GoOnPhase DEF Calls, OpFits
  <2>3. Pending' \subseteq Pending
    BY <1>1, <1>7 DEF GoOn, Pending, TypeInv, HandlersOK
  <2> QED BY <1>5, <1>7, <2>2, <2>3
<1> QED BY <1>6, <1>7, DecodeMoves

LEMMA HashedContent ==
    ASSUME TypeInv, NEW h \in Handlers, user[h] # NoObj
    PROVE  /\ Hashed(user[h]) \in Content
           /\ Hashed(user[h]).name = heap[user[h]].name
           /\ Hashed(user[h]).pass.rounds <= Spent + 1
           /\ backend # "memory" => Hashed(user[h]).pass.rounds <= Spent
<1>1. /\ user[h] \in Live /\ heap[user[h]] \in Content /\ heap[user[h]].pass.rounds <= Spent
      /\ backend # "memory" => heap[user[h]].pass.rounds < Spent
  BY HoldsLive DEF TypeInv, RoundsOK
<1>2. /\ Hashed(user[h]) \in Content /\ Hashed(user[h]).name = heap[user[h]].name
      /\ Hashed(user[h]).pass.rounds = heap[user[h]].pass.rounds + 1
  BY <1>1 DEF Hashed, Generate, Content
<1>3. Spent \in Nat /\ heap[user[h]].pass.rounds \in Nat
  BY <1>1, SpentNumbers DEF Content
<1> QED BY <1>1, <1>2, <1>3

\* A save, or a try that failed, of a request whose password was counted.
LEMMA SavedTypes ==
    ASSUME TypeInv, Steady, QueryTypeOK', HandlersOK', Pending' \subseteq Pending,
           NEW h \in Handlers, user[h] # NoObj, NEW y \in {user[h], NoObj},
           backend = "memory" => h \in Pending \ Pending',
           Saved(h, y) \/ Quiet(h, y)
    PROVE  TypeInv'
<1>1. /\ Hashed(user[h]) \in Content /\ Hashed(user[h]).pass.rounds \in Nat
      /\ Hashed(user[h]).pass.rounds <= Spent + 1
      /\ backend # "memory" => Hashed(user[h]).pass.rounds <= Spent
  BY HashedContent DEF Content
<1>2. user[h] \in Objs /\ user[h] \in Live
  BY HoldsLive
<1>3. UNCHANGED <<plugin, backend, ops, orgs, shared>>
  BY DEF Steady
<1>4. /\ Spent \in Nat /\ Spent' \in Nat /\ Spent <= Spent'
      /\ backend = "memory" => Spent + 1 <= Spent'
  BY <1>3, SpentGrows, SpentNumbers
<1>5. Hashed(user[h]).pass.rounds <= Spent'
  BY <1>1, <1>4
<1>6. CASE Change(h, {heap[user[h]].name}, Fresh, y, Fresh, Hashed(user[h]))
  <2>1. Fresh \in Objs /\ Fresh \notin Live /\ Fresh # NoObj
    BY SpareObject DEF TypeInv
  <2> QED BY <1>1, <1>2, <1>5, <1>6, <2>1, MoveTypes
<1>7. CASE /\ backend = "memory"
           /\ Change(h, {heap[user[h]].name}, user[h], y, user[h], Hashed(user[h]))
  BY <1>1, <1>2, <1>5, <1>7, MoveTypes
<1>8. CASE Quiet(h, y)
  <2>1. orgs' \in [Orgs -> Configs \union {NoConfig}]
    BY <1>3 DEF TypeInv, StoreOK
  <2> QED BY <1>2, <1>3, <1>8, <2>1, QuietTypes
<1> QED BY <1>6, <1>7, <1>8 DEF Saved

LEMMA SaveTypes ==
    ASSUME TypeInv, UNCHANGED <<plugin, backend>>, NEW h \in Handlers,
           Save(h) \/ OrgCreateAdd(h)
    PROVE  TypeInv'
<1>1. UNCHANGED <<plugin, backend, ops>> /\ Steady
  BY DEF Save, OrgCreateAdd, clientVars, Steady
<1>2. /\ at[h] = "add" /\ user[h] # NoObj
      /\ \/ /\ GoOn(h, "add") /\ UNCHANGED promised /\ backend # "memory"
            /\ Saved(h, user[h]) \/ Quiet(h, user[h])
         \/ /\ Answer(h) /\ UNCHANGED promised
            /\ Saved(h, NoObj) \/ Quiet(h, NoObj)
         \/ /\ Answer(h) \/ (GoOn(h, "findOrg") /\ req[h].op = "create")
            /\ Promise(h)
            /\ Saved(h, NoObj)
  BY SaveMoves
<1>3. promised' \in [Users -> Passwords \union {Omitted}]
  BY <1>2, PromiseType
<1>4. QueryTypeOK'
  BY QuerySteps DEF HandlerStep
<1>5. user[h] \in Objs /\ req[h].op \in {"create", "update"}
  BY <1>2, HoldsLive DEF TypeInv, HandlersOK, PhaseOK
<1>6. ASSUME NEW y, Saved(h, y) \/ Quiet(h, y) PROVE \E S, x : Puts(h, S, x, y)
  BY <1>6 DEF Saved, Quiet, Change
<1>7. backend = "memory" => h \in Pending
  BY <1>2 DEF Pending
<1>8. CASE GoOn(h, "add") /\ backend # "memory" /\ (Saved(h, user[h]) \/ Quiet(h, user[h]))
  <2>1. PICK S, x : Puts(h, S, x, user[h])
    BY <1>6, <1>8
  <2>2. HandlersOK'
    BY <1>1, <1>2, <1>3, <1>5, <1>8, <2>1, GoOnPhase DEF Calls, OpFits
  <2>3. Pending' \subseteq Pending
    BY <1>1, <1>8 DEF GoOn, Pending, TypeInv, HandlersOK
  <2> QED BY <1>1, <1>2, <1>4, <1>8, <2>2, <2>3, SavedTypes
<1>9. CASE Answer(h) /\ (Saved(h, NoObj) \/ Quiet(h, NoObj))
  <2>1. HandlersOK' /\ Pending' \subseteq Pending
    BY <1>1, <1>3, <1>9, AnswerPhase
  <2>2. h \notin Pending'
    BY <1>9 DEF Answer, Pending, TypeInv, HandlersOK
  <2> QED BY <1>1, <1>2, <1>4, <1>7, <1>9, <2>1, <2>2, SavedTypes
<1>10. CASE GoOn(h, "findOrg") /\ req[h].op = "create" /\ Saved(h, NoObj)
  <2>1. PICK S, x : Puts(h, S, x, NoObj)
    BY <1>6, <1>10
  <2>2. HandlersOK' /\ Pending' \subseteq Pending
    BY <1>1, <1>2, <1>3, <1>10, <2>1, GoOnPhase DEF Calls, OpFits
  <2>3. h \notin Pending'
    BY <1>10 DEF GoOn, Pending, TypeInv, HandlersOK
  <2> QED BY <1>1, <1>2, <1>4, <1>7, <1>10, <2>2, <2>3, SavedTypes
<1> QED BY <1>2, <1>8, <1>9, <1>10

LEMMA OrgTypes ==
    ASSUME TypeInv, UNCHANGED <<plugin, backend>>, NEW h \in Handlers,
           OrgFind(h) \/ OrgAdd(h)
    PROVE  TypeInv'
<1>1. UNCHANGED <<plugin, backend, ops, shared, promised>>
  BY DEF OrgFind, OrgAdd, clientVars
<1>2. at[h] \in {"findOrg", "addOrg"} /\ Quiet(h, NoObj)
  BY OrgMoves
<1>3. /\ req[h] \in Requests[plugin] /\ req[h].op \in {"create", "createOrg", "updateOrg"}
  BY <1>2 DEF TypeInv, HandlersOK, PhaseOK
<1>4. req[h].config \in Configs
  BY <1>3, RequestsAssumption DEF TypeInv, StoreOK
<1>5. /\ orgs' \in [Orgs -> Configs \union {NoConfig}]
      /\ promised' \in [Users -> Passwords \union {Omitted}]
  BY <1>1, <1>4 DEF OrgFind, OrgAdd, AddOrganization, storeVars, TypeInv, StoreOK, HandlersOK
<1>6. QueryTypeOK'
  BY QuerySteps DEF HandlerStep
<1>7. CASE Answer(h)
  BY <1>1, <1>2, <1>5, <1>6, <1>7, AnswerTypes
<1>8. ASSUME NEW call \in {"findOrg", "addOrg"}, GoOn(h, call) PROVE TypeInv'
  BY <1>1, <1>2, <1>3, <1>5, <1>6, <1>8, GoOnTypes DEF Calls, OpFits
<1> QED BY <1>7, <1>8, OrgMoves

LEMMA DeleteTypes ==
    ASSUME TypeInv, UNCHANGED <<plugin, backend>>, NEW h \in Handlers, DeleteUser(h)
    PROVE  TypeInv'
<1>1. UNCHANGED <<plugin, backend, ops, shared, promised, orgs>> /\ Steady
  BY DEF DeleteUser, clientVars, Steady
<1>2. /\ orgs' \in [Orgs -> Configs \union {NoConfig}]
      /\ promised' \in [Users -> Passwords \union {Omitted}]
  BY <1>1 DEF TypeInv, StoreOK, HandlersOK
<1>3. QueryTypeOK'
  BY QuerySteps DEF HandlerStep
<1>4. /\ at[h] = "remove"
      /\ GoOn(h, "remove") \/ Answer(h)
      /\ Change(h, {req[h].name}, NoObj, NoObj, NoObj, NoObj) \/ Quiet(h, NoObj)
  BY DeleteMoves
<1>5. req[h].op = "delete"
  BY <1>4 DEF TypeInv, HandlersOK, PhaseOK
<1>6. PICK S, x : Puts(h, S, x, NoObj)
  BY <1>4 DEF Quiet, Change
<1>7. HandlersOK' /\ Pending' \subseteq Pending
  BY <1>1, <1>2, <1>4, <1>5, <1>6, AnswerPhase, GoOnPhase DEF Calls, OpFits
<1>8. CASE Quiet(h, NoObj)
  BY <1>1, <1>2, <1>3, <1>7, <1>8, QuietTypes
<1>9. CASE Change(h, {req[h].name}, NoObj, NoObj, NoObj, NoObj)
  BY <1>1, <1>3, <1>7, <1>9, MoveTypes
<1> QED BY <1>4, <1>8, <1>9

LEMMA BeginSpends ==
    ASSUME TypeInv, NEW h \in Handlers, ops' = ops + 1, Pending' \subseteq Pending \union {h}
    PROVE  Cardinality(Pending') <= ops' /\ Spent <= Spent' /\ Spent' \in Nat
<1>1. ops \in Nat /\ Cardinality(Pending) \in Nat /\ Cardinality(Pending) <= ops
  BY SpentNumbers DEF TypeInv, RoundsOK
<1>2. IsFiniteSet(Pending)
  BY PendingFinite DEF TypeInv
<1>3. /\ IsFiniteSet(Pending \union {h})
      /\ Cardinality(Pending \union {h}) \in {Cardinality(Pending), Cardinality(Pending) + 1}
  BY <1>2, FS_AddElement
<1>4. /\ IsFiniteSet(Pending')
      /\ Cardinality(Pending') <= Cardinality(Pending \union {h})
  BY <1>3, FS_Subset
<1>5. Cardinality(Pending') \in Nat
  BY <1>4, FS_CardinalityType
<1>6. Spent = ops - Cardinality(Pending) /\ Spent' = ops' - Cardinality(Pending')
  BY DEF Spent
<1> HIDE DEF Pending, Spent
<1> QED BY <1>1, <1>3, <1>4, <1>5, <1>6

LEMMA BeginPhase ==
    ASSUME TypeInv, UNCHANGED <<plugin, backend>>, NEW h \in Handlers,
           NEW q \in Requests[plugin], Begin(h, q)
    PROVE  HandlersOK' /\ Pending' \subseteq Pending \union {h}
<1>1. Installed' = Installed /\ UNCHANGED user /\ at[h] = "idle"
  BY DEF Begin, Installed, BasicInstalled, OrganizationInstalled
<1>2. ops' \in 0 .. MaxOps[backend]
  BY SetsAssumption DEF Begin, TypeInv, StoreOK, HandlersOK
<1>3. CASE ~Installed
  <2>1. UNCHANGED <<req, at, alone, promised>>
    BY <1>3 DEF Begin
  <2> QED BY <1>1, <1>2, <2>1 DEF TypeInv, HandlersOK, PhaseOK, Pending
<1>4. CASE Installed
  <2> DEFINE call == IF q.op \in {"create", "update"} THEN "find"
                     ELSE IF q.op = "delete" THEN "remove" ELSE "findOrg"
  <2>1. /\ req' = [req EXCEPT ![h] = q]
        /\ at' = [at EXCEPT ![h] = call]
    BY <1>4 DEF Begin
  <2>2. q.op \in {"create", "update", "delete", "createOrg", "updateOrg"}
    BY RequestsAssumption DEF TypeInv, StoreOK
  <2>3. alone' \in [Handlers -> BOOLEAN]
    <3> DEFINE others == {g \in Handlers \ {h} : Overlap(q, g)}
    <3>1. alone' = [g \in Handlers |->
                      IF g = h THEN others = {} ELSE alone[g] /\ g \notin others]
      BY <1>4 DEF Begin
    <3> HIDE DEF others
    <3> QED BY <3>1 DEF TypeInv, HandlersOK
  <2>4. promised' \in [Users -> Passwords \union {Omitted}]
    BY <1>4 DEF Begin, TypeInv, HandlersOK
  <2>5. /\ req' \in [Handlers -> Requests[plugin] \union {NoRequest}]
        /\ at' \in [Handlers -> {"idle", "find", "decode", "add", "remove", "findOrg", "addOrg"}]
    BY <1>1, <2>1 DEF TypeInv, HandlersOK
  <2>6. \A g \in Handlers \ {h} : req'[g] = req[g] /\ at'[g] = at[g]
    BY <2>1 DEF TypeInv, HandlersOK
  <2>7. req'[h] = q /\ at'[h] = call
    BY <2>1 DEF TypeInv, HandlersOK
  <2>8. user[h] = NoObj
    BY <1>1 DEF TypeInv, HandlersOK, PhaseOK
  <2>9. ASSUME NEW g \in Handlers PROVE PhaseOK(g)'
    <3>1. CASE g = h
      BY <1>1, <1>4, <2>2, <2>7, <2>8, <3>1 DEF PhaseOK
    <3>2. CASE g # h
      BY <1>1, <2>6, <3>2 DEF PhaseOK, TypeInv, HandlersOK
    <3> QED BY <3>1, <3>2
  <2>10. HandlersOK'
    BY <1>1, <1>2, <2>3, <2>4, <2>5, <2>9 DEF HandlersOK, TypeInv
  <2>11. Pending' \subseteq Pending \union {h}
    BY <2>6 DEF Pending
  <2> QED BY <2>10, <2>11
<1> QED BY <1>3, <1>4

LEMMA BeginTypes ==
    ASSUME TypeInv, UNCHANGED <<plugin, backend>>, NEW h \in Handlers,
           NEW q \in Requests[plugin], Begin(h, q)
    PROVE  TypeInv'
<1>1. UNCHANGED <<plugin, backend, store, orgs, auth, shared, attempt, failures>> /\ ops' = ops + 1
  BY DEF Begin, storeVars, clientVars, queryVars
<1>2. HandlersOK' /\ Pending' \subseteq Pending \union {h}
  BY BeginPhase
<1>3. Cardinality(Pending') <= ops' /\ Spent <= Spent' /\ Spent' \in Nat
  BY <1>1, <1>2, BeginSpends
<1>4. Change(h, {}, NoObj, NoObj, NoObj, NoObj)
  BY BeginMoves DEF Quiet
<1>5. HeapOK'
  BY <1>4, ChangeTypes
<1>6. RoundsOK'
  BY <1>1, <1>3, <1>4, RoundsChange
<1>7. StoreOK' /\ QueryTypeOK'
  BY <1>1 DEF TypeInv, StoreOK, QueryTypeOK
<1> QED BY <1>1, <1>2, <1>5, <1>6, <1>7, ClientsStay DEF TypeInv

----------------------------------------------------------------------------
(* The steps of a request on the route keep the types.                     *)

\* The fields that a step names get values of their types.
Fits(changes) ==
    /\ "at" \in DOMAIN changes => changes.at \in
         {"idle", "list", "compare", "password", "findOrg", "header", "forwarded", "refused"}
    /\ "name" \in DOMAIN changes => changes.name \in Users
    /\ "pass" \in DOMAIN changes => changes.pass \in Passwords
    /\ "list" \in DOMAIN changes => changes.list \in SUBSET Objs
    /\ "named" \in DOMAIN changes => changes.named \in Objs \union {NoObj}
    /\ "org" \in DOMAIN changes => changes.org \in Orgs \union {NoOrg}
    /\ "header" \in DOMAIN changes => changes.header \in Orgs \union {NoOrg}
    /\ "config" \in DOMAIN changes => changes.config \in Orgs \union {NoOrg}

LEMMA StepTypes ==
    ASSUME TypeInv, NEW c \in Clients, NEW changes, Step(c, changes), Fits(changes)
    PROVE  /\ auth' \in [Clients -> AuthType]
           /\ \A d \in Clients \ {c} : auth'[d] = auth[d]
           /\ auth'[c].list = IF "list" \in DOMAIN changes THEN changes.list ELSE auth[c].list
           /\ auth'[c].at = IF "at" \in DOMAIN changes THEN changes.at ELSE auth[c].at
           /\ auth'[c].named = IF "named" \in DOMAIN changes THEN changes.named
                               ELSE auth[c].named
           /\ auth'[c].name = IF "name" \in DOMAIN changes THEN changes.name ELSE auth[c].name
<1> DEFINE new(f) == IF f \in DOMAIN changes THEN changes[f] ELSE auth[c][f]
           fields == {"at", "name", "pass", "list", "named", "org", "header", "config"}
<1>1. auth \in [Clients -> AuthType]
  BY DEF TypeInv, ClientsOK
<1>2. auth' = [auth EXCEPT ![c] = [f \in DOMAIN auth[c] |-> new(f)]]
  BY <1>1 DEF Step
<1>3. DOMAIN auth[c] = fields
  BY <1>1 DEF AuthType
<1>4. auth'[c] = [f \in fields |-> new(f)]
  BY <1>1, <1>2, <1>3
<1>5. auth'[c] = [at |-> new("at"), name |-> new("name"), pass |-> new("pass"),
                  list |-> new("list"), named |-> new("named"), org |-> new("org"),
                  header |-> new("header"), config |-> new("config")]
  <2> HIDE DEF new
  <2> QED BY <1>4
<1>6. /\ new("at") \in
           {"idle", "list", "compare", "password", "findOrg", "header", "forwarded", "refused"}
      /\ new("name") \in Users \union {Omitted} /\ new("pass") \in Passwords \union {Omitted}
      /\ new("list") \in SUBSET Objs /\ new("named") \in Objs \union {NoObj}
      /\ new("org") \in Orgs \union {NoOrg}
      /\ new("header") \in Orgs \union {NoOrg} /\ new("config") \in Orgs \union {NoOrg}
  BY <1>1 DEF Fits, AuthType
<1>7. /\ auth'[c].at = new("at") /\ auth'[c].list = new("list")
      /\ auth'[c].named = new("named") /\ auth'[c].name = new("name")
      /\ auth'[c] \in AuthType
  <2> HIDE DEF new
  <2> QED BY <1>5, <1>6 DEF AuthType
<1>8. \A d \in Clients \ {c} : auth'[d] = auth[d]
  BY <1>1, <1>2
<1>9. auth' \in [Clients -> AuthType]
  BY <1>1, <1>2, <1>7, <1>8
<1> QED BY <1>7, <1>8, <1>9

\* What a step of a request does to the objects.
LEMMA ClientMoves ==
    ASSUME TypeInv, UNCHANGED <<plugin, backend, handlerVars, store, orgs>>,
           QueryTypeOK', NEW c \in Clients,
           auth' \in [Clients -> AuthType], \A d \in Clients \ {c} : auth'[d] = auth[d],
           ListOK(auth'[c]), shared' \in Orgs \union {NoOrg},
           \/ Collect(heap) /\ auth'[c].list \subseteq auth[c].list
           \/ UNCHANGED heap /\ auth'[c].list = auth[c].list
           \/ UNCHANGED heap /\ auth[c].list = {} /\ auth'[c].list \subseteq Elems(store)
    PROVE  TypeInv'
<1> DEFINE lists == UNION {auth[d].list : d \in Clients}
           others == UNION {auth[d].list : d \in Clients \ {c}}
<1>1. UNCHANGED <<req, at, user, ops, promised, alone>>
  BY DEF handlerVars
<1>2. lists = others \union auth[c].list /\ lists' = others \union auth'[c].list
  OBVIOUS
<1>3. /\ Live = (Elems(store) \union Elems(user) \union lists) \ {NoObj}
      /\ Live' = (Elems(store) \union Elems(user) \union lists') \ {NoObj}
  BY <1>1 DEF Live, Elems
<1>4. Live' \subseteq Live /\ (UNCHANGED heap => (Live' = Live \/ Collect(heap)))
  <2> HIDE DEF lists, others
  <2> QED BY <1>2, <1>3
<1>5. DOMAIN heap' = Live' /\ \A o \in Live' : heap'[o] = heap[o]
  <2>1. CASE Collect(heap)
    BY <2>1 DEF Collect
  <2>2. CASE UNCHANGED heap /\ Live' = Live
    BY <2>2 DEF TypeInv, HeapOK
  <2> QED BY <1>4, <2>1, <2>2
<1>6. StoreOK'
  BY DEF TypeInv, StoreOK
<1>7. HeapOK'
  BY <1>4, <1>5 DEF TypeInv, HeapOK
<1>8. Installed' = Installed
  BY DEF Installed, BasicInstalled, OrganizationInstalled
<1>9. HandlersOK'
  BY <1>1, <1>8 DEF TypeInv, HandlersOK, PhaseOK
<1>10. ClientsOK'
  BY DEF TypeInv, ClientsOK
<1>11. RoundsOK'
  <2>1. Pending' = Pending /\ Spent' = Spent
    BY <1>1 DEF Pending, Spent
  <2>2. \A h \in Handlers : user'[h] # NoObj => user'[h] \in Live'
    BY <1>1, <1>3 DEF Elems, TypeInv, HandlersOK
  <2> QED BY <1>1, <1>4, <1>5, <2>1, <2>2 DEF TypeInv, RoundsOK
<1> QED BY <1>6, <1>7, <1>9, <1>10, <1>11 DEF TypeInv

LEMMA Listings ==
    ASSUME TypeInv
    PROVE  /\ IsListing({}) /\ {} \in SUBSET Objs
           /\ IsListing(Elems(store) \ {NoObj}) /\ Elems(store) \ {NoObj} \in SUBSET Objs
<1>1. [u \in Users |-> NoObj] \in [Users -> Objs \union {NoObj}]
  OBVIOUS
<1>2. {} = Elems([u \in Users |-> NoObj]) \ {NoObj}
  BY DEF Elems
<1>3. store \in [Users -> Objs \union {NoObj}]
  BY DEF TypeInv, StoreOK
<1>4. IsListing({})
  BY <1>1, <1>2 DEF IsListing
<1>5. IsListing(Elems(store) \ {NoObj})
  BY <1>3 DEF IsListing
<1> QED BY <1>3, <1>4, <1>5 DEF Elems

LEMMA Sublisting ==
    ASSUME NEW s, IsListing(s), NEW t, t \subseteq s
    PROVE  IsListing(t)
<1>1. PICK f \in [Users -> Objs \union {NoObj}] : s = Elems(f) \ {NoObj}
  BY DEF IsListing
<1> DEFINE g == [u \in Users |-> IF f[u] \in t THEN f[u] ELSE NoObj]
<1>2. g \in [Users -> Objs \union {NoObj}]
  OBVIOUS
<1>3. t = Elems(g) \ {NoObj}
  BY <1>1 DEF Elems
<1> HIDE DEF g
<1> QED BY <1>2, <1>3 DEF IsListing

\* The request goes on or stops, with some of its list.
Judged(c) ==
    /\ auth' \in [Clients -> AuthType]
    /\ \A d \in Clients \ {c} : auth'[d] = auth[d]
    /\ auth'[c].list \subseteq auth[c].list /\ ListOK(auth'[c])
    /\ shared' \in Orgs \union {NoOrg}

LEMMA StopTypes ==
    ASSUME TypeInv, NEW c \in Clients, NEW end \in {"forwarded", "refused"}, Stop(c, end),
           UNCHANGED shared
    PROVE  Judged(c)
<1> DEFINE changes == [at |-> end, list |-> {}, named |-> NoObj]
<1>1. Step(c, changes)
  BY DEF Stop
<1>2. /\ Fits(changes) /\ {"at", "list", "named"} \subseteq DOMAIN changes
      /\ changes.list = {} /\ changes.named = NoObj /\ changes.at \in {"forwarded", "refused"}
  BY Listings DEF Fits
<1> HIDE DEF changes
<1>3. shared' \in Orgs \union {NoOrg}
  BY DEF TypeInv, ClientsOK
<1>4. /\ auth' \in [Clients -> AuthType]
      /\ \A d \in Clients \ {c} : auth'[d] = auth[d]
      /\ auth'[c].list = {} /\ auth'[c].named = NoObj
      /\ auth'[c].at \in {"forwarded", "refused"}
  BY <1>1, <1>2, StepTypes
<1> QED BY <1>3, <1>4, Listings DEF Judged, ListOK

LEMMA LetInTypes ==
    ASSUME TypeInv, NEW c \in Clients, NEW o \in Live, LetIn(c, o)
    PROVE  Judged(c)
<1>1. CASE UNCHANGED shared /\ Stop(c, "forwarded")
  BY <1>1, StopTypes
<1>2. CASE /\ shared' = heap[o].org
           /\ Step(c, [at |-> "findOrg", list |-> {}, named |-> NoObj, org |-> heap[o].org])
  <2> DEFINE changes == [at |-> "findOrg", list |-> {}, named |-> NoObj, org |-> heap[o].org]
  <2>1. Step(c, changes)
    BY <1>2
  <2>2. heap[o].org \in Orgs \union {NoOrg}
    BY DEF TypeInv, HeapOK, Content
  <2>3. /\ Fits(changes) /\ {"at", "list", "named"} \subseteq DOMAIN changes
        /\ changes.list = {} /\ changes.named = NoObj /\ changes.at = "findOrg"
    BY <2>2, Listings DEF Fits
  <2> HIDE DEF changes
  <2> QED BY <1>2, <2>1, <2>2, <2>3, StepTypes, Listings DEF Judged, ListOK
<1> QED BY <1>1, <1>2 DEF LetIn

LEMMA JudgeTypes ==
    ASSUME TypeInv, NEW c \in Clients, NEW users, users \subseteq Live, Judge(c, users)
    PROVE  Judged(c)
BY LetInTypes, StopTypes DEF Judge

LEMMA FindAllTypes ==
    ASSUME TypeInv, UNCHANGED <<plugin, backend>>, NEW c \in Clients, FindAll(c)
    PROVE  TypeInv'
<1>1. /\ auth[c].at = "list" /\ auth[c].list = {} /\ c \in Callers
      /\ UNCHANGED <<handlerVars, store, orgs, heap>>
  BY SetsAssumption DEF FindAll, storeVars, TypeInv, ClientsOK, ListOK
<1>2. Elems(store) \ {NoObj} \subseteq Live
  BY DEF Live
<1>3. ASSUME Judged(c), QueryTypeOK' PROVE TypeInv'
  <2>1. auth'[c].list = auth[c].list
    BY <1>1, <1>3 DEF Judged
  <2> QED BY <1>1, <1>3, <2>1, ClientMoves DEF Judged
<1>4. CASE InMemoryFindAll(c)
  <2> DEFINE changes == [at |-> "compare", list |-> Elems(store) \ {NoObj}]
  <2>1. Step(c, changes) /\ UNCHANGED shared /\ QueryTypeOK'
    BY <1>1, <1>4, SucceedsType DEF InMemoryFindAll, TypeInv
  <2>2. /\ Fits(changes) /\ "list" \in DOMAIN changes /\ "named" \notin DOMAIN changes
        /\ changes.list = Elems(store) \ {NoObj} /\ "at" \in DOMAIN changes
        /\ changes.at = "compare"
    BY Listings DEF Fits
  <2> HIDE DEF changes
  <2>3. /\ auth' \in [Clients -> AuthType] /\ \A d \in Clients \ {c} : auth'[d] = auth[d]
        /\ auth'[c].at = "compare" /\ auth'[c].list = Elems(store) \ {NoObj}
        /\ auth'[c].named = auth[c].named
    BY <2>1, <2>2, StepTypes
  <2>4. ListOK(auth'[c]) /\ auth'[c].list \subseteq Elems(store)
    BY <1>1, <2>3, Listings DEF ListOK, TypeInv, ClientsOK
  <2>5. shared' \in Orgs \union {NoOrg}
    BY <2>1 DEF TypeInv, ClientsOK
  <2> QED BY <1>1, <2>1, <2>3, <2>4, <2>5, ClientMoves
<1>5. CASE MongoFindAll(c)
  <2>1. QueryTypeOK'
    BY <1>1, <1>5, SucceedsType, FailureType DEF MongoFindAll, TypeInv
  <2>2. Judged(c)
    BY <1>2, <1>5, JudgeTypes, StopTypes DEF MongoFindAll
  <2> QED BY <1>3, <2>1, <2>2
<1>6. CASE CassandraFindAll(c)
  <2>1. QueryTypeOK'
    BY <1>1, <1>6, ScanAndCloseType DEF CassandraFindAll, TypeInv
  <2>2. Judged(c)
    <3>1. CASE UNCHANGED clientVars
      <4>1. auth' = auth /\ shared' = shared
        BY <3>1 DEF clientVars
      <4> QED BY <4>1 DEF Judged, TypeInv, ClientsOK
    <3> QED BY <1>2, <1>6, <3>1, JudgeTypes, StopTypes DEF CassandraFindAll
  <2> QED BY <1>3, <2>1, <2>2
<1> QED BY <1>4, <1>5, <1>6 DEF FindAll

LEMMA CompareTypes ==
    ASSUME TypeInv, UNCHANGED <<plugin, backend>>, NEW c \in Clients,
           CompareName(c) \/ ComparePassword(c)
    PROVE  TypeInv'
<1>1. UNCHANGED <<handlerVars, store, orgs, attempt, failures>> /\ Collect(heap)
  BY DEF CompareName, ComparePassword, queryVars
<1>2. /\ auth[c].list \subseteq Live /\ auth[c].list \in SUBSET Objs /\ ListOK(auth[c])
      /\ shared \in Orgs \union {NoOrg}
  BY DEF Live, TypeInv, ClientsOK, AuthType, Objs, NoObj
<1>3. QueryTypeOK'
  BY <1>1 DEF TypeInv, QueryTypeOK
<1>4. ASSUME NEW o \in auth[c].list, Step(c, [at |-> "password", named |-> o]), UNCHANGED shared
      PROVE  Judged(c)
  <2> DEFINE changes == [at |-> "password", named |-> o]
  <2>1. Step(c, changes)
    BY <1>4
  <2>2. /\ Fits(changes) /\ {"at", "named"} \subseteq DOMAIN changes
        /\ "list" \notin DOMAIN changes /\ changes.named = o /\ changes.at = "password"
    BY <1>2 DEF Fits
  <2> HIDE DEF changes
  <2> QED BY <1>2, <1>4, <2>1, <2>2, StepTypes DEF Judged, ListOK
<1>5. ASSUME NEW o, Step(c, [list |-> auth[c].list \ {o}]), UNCHANGED shared,
             auth[c].at = "compare"
      PROVE  Judged(c)
  <2> DEFINE changes == [list |-> auth[c].list \ {o}]
  <2>1. Step(c, changes) /\ IsListing(auth[c].list \ {o})
    BY <1>2, <1>5, Sublisting DEF ListOK
  <2>2. /\ Fits(changes) /\ "list" \in DOMAIN changes /\ changes.list = auth[c].list \ {o}
        /\ "at" \notin DOMAIN changes /\ "named" \notin DOMAIN changes
    BY <1>2 DEF Fits
  <2> HIDE DEF changes
  <2> QED BY <1>2, <1>5, <2>1, <2>2, StepTypes DEF Judged, ListOK
<1>6. ASSUME NEW o, UNCHANGED shared,
             Step(c, [at |-> "compare", list |-> auth[c].list \ {o}, named |-> NoObj])
      PROVE  Judged(c)
  <2> DEFINE changes == [at |-> "compare", list |-> auth[c].list \ {o}, named |-> NoObj]
  <2>1. Step(c, changes) /\ IsListing(auth[c].list \ {o})
    BY <1>2, <1>6, Sublisting DEF ListOK
  <2>2. /\ Fits(changes) /\ changes.list = auth[c].list \ {o}
        /\ {"at", "list", "named"} \subseteq DOMAIN changes
        /\ changes.named = NoObj /\ changes.at = "compare"
    BY <1>2 DEF Fits
  <2> HIDE DEF changes
  <2> QED BY <1>2, <1>6, <2>1, <2>2, StepTypes DEF Judged, ListOK
<1>7. ASSUME CompareName(c) PROVE Judged(c)
  BY <1>4, <1>5, <1>7, StopTypes DEF CompareName
<1>8. ASSUME ComparePassword(c) PROVE Judged(c)
  <2>1. auth[c].named \in auth[c].list
    BY <1>2, <1>8 DEF ComparePassword, ListOK
  <2>2. CASE LetIn(c, auth[c].named)
    BY <1>2, <2>1, <2>2, LetInTypes
  <2> QED BY <1>6, <1>8, <2>2 DEF ComparePassword
<1>9. Judged(c)
  BY <1>7, <1>8
<1> QED BY <1>1, <1>3, <1>9, ClientMoves DEF Judged

\* A step that names no list.
LEMMA KeepsList ==
    ASSUME TypeInv, UNCHANGED <<plugin, backend, handlerVars, storeVars, shared>>,
           QueryTypeOK', NEW c \in Clients, NEW changes, Step(c, changes), Fits(changes),
           "list" \notin DOMAIN changes, "named" \notin DOMAIN changes,
           "at" \in DOMAIN changes, changes.at # "password",
           auth[c].at \notin {"compare", "password"}
    PROVE  TypeInv'
<1>1. /\ auth' \in [Clients -> AuthType] /\ \A d \in Clients \ {c} : auth'[d] = auth[d]
      /\ auth'[c].list = auth[c].list /\ auth'[c].named = auth[c].named
      /\ auth'[c].at # "password"
  BY StepTypes
<1>2. UNCHANGED <<store, orgs, heap>> /\ shared' \in Orgs \union {NoOrg} /\ auth[c].list = {}
  BY DEF storeVars, TypeInv, ClientsOK, ListOK
<1>3. ListOK(auth'[c])
  BY <1>1, <1>2 DEF TypeInv, ClientsOK, ListOK
<1> QED BY <1>1, <1>2, <1>3, ClientMoves

LEMMA ClientTypes ==
    ASSUME TypeInv, UNCHANGED <<plugin, backend>>, NEW c \in Clients,
           ClientStep(c) \/ \E login \in Logins[plugin][c] : Arrive(c, login)
    PROVE  TypeInv'
<1>1. CASE AuthFindOrg(c)
  <2>1. /\ auth[c].at = "findOrg" /\ auth[c].list = {} /\ c \in Callers
        /\ auth[c].org \in Orgs \union {NoOrg}
        /\ UNCHANGED <<handlerVars, storeVars, shared, store, orgs, heap>>
    BY <1>1, SetsAssumption DEF AuthFindOrg, storeVars, TypeInv, ClientsOK, ListOK, AuthType
  <2>2. QueryTypeOK'
    BY <1>1, <2>1, ScanType DEF AuthFindOrg, FindOrganization, TypeInv
  <2>3. ASSUME Judged(c) PROVE TypeInv'
    <3>1. auth'[c].list = auth[c].list
      BY <2>1, <2>3 DEF Judged
    <3> QED BY <2>1, <2>2, <2>3, <3>1, ClientMoves DEF Judged
  <2>4. CASE UNCHANGED auth
    BY <2>1, <2>3, <2>4 DEF Judged, TypeInv, ClientsOK
  <2>5. CASE Step(c, [at |-> "header", config |-> ConfigOwner(c)])
    <3> DEFINE changes == [at |-> "header", config |-> ConfigOwner(c)]
    <3>1. /\ Fits(changes) /\ "list" \notin DOMAIN changes /\ "named" \notin DOMAIN changes
          /\ "at" \in DOMAIN changes /\ changes.at # "password"
      BY <2>1 DEF Fits, ConfigOwner
    <3>2. Step(c, changes)
      BY <2>5
    <3> HIDE DEF changes
    <3> QED BY <2>1, <2>2, <3>1, <3>2, KeepsList
  <2>6. CASE Stop(c, "refused")
    BY <2>1, <2>3, <2>6, StopTypes
  <2> QED BY <1>1, <2>4, <2>5, <2>6 DEF AuthFindOrg
<1>2. CASE Forward(c)
  <2> DEFINE changes == [at |-> "forwarded", header |-> shared]
  <2>1. /\ Step(c, changes) /\ auth[c].at \notin {"compare", "password"}
        /\ UNCHANGED <<handlerVars, storeVars, shared, attempt, failures>>
    BY <1>2 DEF Forward, queryVars
  <2>2. /\ Fits(changes) /\ "list" \notin DOMAIN changes /\ "named" \notin DOMAIN changes
        /\ "at" \in DOMAIN changes /\ changes.at # "password"
    BY DEF Fits, TypeInv, ClientsOK
  <2>3. QueryTypeOK'
    BY <2>1 DEF TypeInv, QueryTypeOK
  <2> HIDE DEF changes
  <2> QED BY <2>1, <2>2, <2>3, KeepsList
<1>3. ASSUME NEW login \in Logins[plugin][c], Arrive(c, login) PROVE TypeInv'
  <2> DEFINE changes == [at |-> IF Installed THEN "list" ELSE "forwarded",
                         name |-> login.name, pass |-> login.pass]
  <2>1. /\ Step(c, changes) /\ auth[c].at \notin {"compare", "password"}
        /\ UNCHANGED <<handlerVars, storeVars, shared, attempt, failures>>
    BY <1>3 DEF Arrive, queryVars
  <2>2. login.name \in Users /\ login.pass \in Passwords
    BY LoginsAssumption DEF TypeInv, StoreOK
  <2>3. /\ Fits(changes) /\ "list" \notin DOMAIN changes /\ "named" \notin DOMAIN changes
        /\ "at" \in DOMAIN changes /\ changes.at # "password"
    BY <2>2 DEF Fits
  <2>4. QueryTypeOK'
    BY <2>1 DEF TypeInv, QueryTypeOK
  <2> HIDE DEF changes
  <2> QED BY <2>1, <2>3, <2>4, KeepsList
<1> QED BY <1>1, <1>2, <1>3, FindAllTypes, CompareTypes DEF ClientStep

LEMMA InitTypes == Init => TypeInv
<1> SUFFICES ASSUME Init PROVE TypeInv
  OBVIOUS
<1>1. /\ StoreOK
      /\ store = [u \in Users |-> NoObj] /\ user = [h \in Handlers |-> NoObj]
      /\ auth = [c \in Clients |-> Idle] /\ heap = [o \in {} |-> NoObj]
  BY SetsAssumption DEF Init, StoreOK
<1>2. Live = {}
  BY <1>1 DEF Live, Elems, Idle
<1>3. HeapOK
  BY <1>1, <1>2 DEF HeapOK
<1>4. HandlersOK
  <2>1. 0 \in 0 .. MaxOps[backend]
    BY <1>1, SetsAssumption DEF StoreOK
  <2> QED BY <2>1 DEF Init, HandlersOK, PhaseOK
<1>5. ClientsOK
  <2>1. IsListing({})
    <3>1. {} = Elems([u \in Users |-> NoObj]) \ {NoObj}
      BY DEF Elems
    <3> QED BY <3>1 DEF IsListing
  <2>2. Idle \in AuthType /\ ListOK(Idle)
    BY <2>1 DEF Idle, AuthType, ListOK
  <2> QED BY <1>1, <2>2 DEF Init, ClientsOK
<1>6. RoundsOK
  <2>1. Pending = {}
    BY DEF Init, Pending
  <2>2. Cardinality(Pending) = 0
    BY <2>1, FS_EmptySet
  <2> QED BY <1>1, <1>2, <2>2 DEF Init, RoundsOK
<1>7. QueryTypeOK
  BY AttemptsAssumption, FailuresAssumption DEF Init, QueryInit, QueryTypeOK
<1> QED BY <1>1, <1>3, <1>4, <1>5, <1>6, <1>7 DEF Init, TypeInv

LEMMA NextTypes == TypeInv /\ [Next]_vars => TypeInv'
<1> SUFFICES ASSUME TypeInv, [Next]_vars PROVE TypeInv'
  OBVIOUS
<1>1. CASE Next
  <2>1. UNCHANGED <<plugin, backend>>
    BY <1>1 DEF Next
  <2>2. ASSUME NEW h \in Handlers, HandlerStep(h) PROVE TypeInv'
    BY <2>1, <2>2, CreateTypes, UpdateTypes, DecodeTypes, SaveTypes, OrgTypes, DeleteTypes
       DEF HandlerStep
  <2> QED BY <1>1, <2>1, <2>2, BeginTypes, ClientTypes DEF Next
<1>2. CASE UNCHANGED vars
  <2>1. /\ UNCHANGED <<plugin, backend, store, heap, orgs, req, at, user, ops, promised, alone>>
        /\ UNCHANGED <<auth, shared, attempt, failures>>
    BY <1>2 DEF vars, storeVars, handlerVars, clientVars, queryVars
  <2>2. Live' = Live
    BY <2>1 DEF Live, Elems
  <2>3. StoreOK' /\ HeapOK'
    BY <2>1, <2>2 DEF TypeInv, StoreOK, HeapOK
  <2>4. Installed' = Installed
    BY <2>1 DEF Installed, BasicInstalled, OrganizationInstalled
  <2>5. HandlersOK'
    BY <2>1, <2>4 DEF TypeInv, HandlersOK, PhaseOK
  <2>6. Pending' = Pending /\ Spent' = Spent
    BY <2>1 DEF Pending, Spent
  <2>7. RoundsOK'
    BY <2>1, <2>2, <2>6 DEF TypeInv, RoundsOK
  <2>8. QueryTypeOK'
    BY <2>1 DEF TypeInv, QueryTypeOK
  <2> QED BY <2>1, <2>3, <2>5, <2>7, <2>8, ClientsStay DEF TypeInv
<1> QED BY <1>1, <1>2

LEMMA InitHistory == Init => HistoryOK
BY DEF Init, HistoryOK

LEMMA NextHistory == TypeInv /\ HistoryOK /\ [Next]_vars => HistoryOK'
<1> SUFFICES ASSUME TypeInv, HistoryOK, [Next]_vars PROVE HistoryOK'
  OBVIOUS
<1>1. ASSUME Witness PROVE barred' \in [Clients -> BOOLEAN]
  BY <1>1 DEF Witness, HistoryOK
<1>2. ASSUME NEW c \in Clients, NEW login, ClientStep(c) \/ Arrive(c, login)
      PROVE  UNCHANGED gone
  BY <1>2 DEF ClientStep, FindAll, CompareName, ComparePassword, AuthFindOrg, Forward, Arrive,
         handlerVars
<1>3. ASSUME NEW h \in Handlers, DeleteUser(h) PROVE gone' \in SUBSET Users
  <2>1. req[h].name \in Users
    BY <1>3, RequestsAssumption DEF DeleteUser, TypeInv, StoreOK, HandlersOK, PhaseOK
  <2> QED BY <1>3, <2>1 DEF DeleteUser, Dismiss, HistoryOK
<1>4. ASSUME NEW h \in Handlers, NEW q, Begin(h, q) PROVE gone' \in SUBSET Users
  BY <1>4 DEF Begin, HistoryOK
<1>5. ASSUME NEW h \in Handlers, HandlerStep(h), ~DeleteUser(h) PROVE UNCHANGED gone
  BY <1>5 DEF HandlerStep, CreateFind, UpdateFind, UpdateDecode, Save, OrgCreateAdd, OrgFind,
         OrgAdd
<1>6. CASE UNCHANGED vars
  BY <1>6 DEF vars, handlerVars, HistoryOK
<1>7. gone' \in SUBSET Users
  BY <1>2, <1>3, <1>4, <1>5, <1>6 DEF Next, HistoryOK
<1> QED BY <1>1, <1>6, <1>7 DEF Next, HistoryOK

\* Whatever requests, failures and retries do, in each of the three repositories, an object
\* exists exactly as long as something reaches it, every user has a name, an organization
\* and a password that was hashed no more often than admin requests may come, and the
\* retries of a query stay within their bound.  (The handlers of pkg/plugin/basic and
\* pkg/plugin/organization, and their repositories.)
THEOREM TypeCorrect == Spec => []TypeOK
BY InitTypes, NextTypes, InitHistory, NextHistory, TypeInvIsType, PTL DEF Spec

----------------------------------------------------------------------------
(* A password that was accepted lets in.                                   *)

\* The objects and the users that the request of a handler may change.
Grip(g) == Holds(req[g], user[g])

Touch(g) == Touches(req[g], user[g])

\* A request that may still write or delete; a POST that has yet to look for its user finds
\* one that is stored.
Threat(g) == at[g] # "idle" /\ (req[g].op \in {"update", "delete"} \/ at[g] = "add")

\* Requests that are alone have users of their own.
Apart == \A h, g \in Handlers : h # g /\ alone[h] => Touch(h) \intersect Touch(g) = {}

\* A request that is alone stores the password it was sent.
Carries ==
    \A h \in Handlers : alone[h] /\ at[h] = "add" /\ req[h].pass # Omitted =>
        heap[user[h]].pass = Plain(req[h].pass)

\* The password p lets u in, by the object stored under u, and no request may change that.
KeepsIn(u, p) ==
    /\ store[u] # NoObj /\ Matches(store[u], u, p)
    /\ \A g \in Handlers : Threat(g) => u \notin Touch(g)

Kept == \A u \in Users : promised[u] # Omitted => KeepsIn(u, promised[u])

WorksInv == Apart /\ Carries /\ Kept

LEMMA WorksIsAccepted == WorksInv /\ TypeInv => AcceptedWorks
<1> SUFFICES ASSUME WorksInv, TypeInv, NEW u \in Users, promised[u] # Omitted
             PROVE  LetsIn(u, promised[u])
  BY DEF AcceptedWorks
<1>1. store[u] # NoObj /\ Matches(store[u], u, promised[u])
  BY DEF WorksInv, Kept, KeepsIn
<1>2. store[u] \in Elems(store)
  BY DEF TypeInv, StoreOK, Elems
<1> QED BY <1>1, <1>2 DEF LetsIn

LEMMA NamesAreUsers ==
    ASSUME TypeInv, NEW f \in Handlers
    PROVE  NamesOf(req[f]) \subseteq Users
<1>1. CASE req[f] = NoRequest
  BY <1>1 DEF NamesOf, NoRequest
<1>2. CASE req[f] \in Requests[plugin]
  BY <1>2, RequestsAssumption DEF TypeInv, StoreOK, NamesOf
<1> QED BY <1>1, <1>2 DEF TypeInv, HandlersOK

LEMMA GripLive ==
    ASSUME TypeInv, NEW f \in Handlers
    PROVE  Grip(f) \subseteq Live /\ NoObj \notin Grip(f)
<1>1. {store[n] : n \in NamesOf(req[f])} \subseteq Elems(store)
  BY NamesAreUsers DEF TypeInv, StoreOK, Elems
<1>2. user[f] \in Elems(user)
  BY DEF TypeInv, HandlersOK, Elems
<1> QED BY <1>1, <1>2 DEF Grip, Holds, Live

LEMMA InGrip ==
    ASSUME NEW f, NEW o
    PROVE  o \in Grip(f) <=> o # NoObj /\ (o = user[f] \/ \E n \in NamesOf(req[f]) : o = store[n])
BY DEF Grip, Holds

LEMMA InTouch ==
    ASSUME NEW f, NEW u
    PROVE  u \in Touch(f) <=> \/ u \in NamesOf(req[f])
                              \/ \E o \in Grip(f) : u = heap[o].name
                              \/ u \in Users /\ store[u] \in Grip(f)
BY DEF Touch, Touches, Grip

\* A handler writes within its reach.
Within(g, S, x, y, z, content) ==
    /\ S \subseteq Touch(g)
    /\ x \in Grip(g) \union {z, NoObj}
    /\ y \in Grip(g) \union {z, NoObj}
    /\ z \in Grip(g) \union {NoObj} \/ z \notin Live
    /\ z # NoObj => content.name \in Touch(g)

\* Another handler does nothing meanwhile.
Turn(g) ==
    /\ \A f \in Handlers \ {g} : req'[f] = req[f] /\ at'[f] = at[f] /\ alone'[f] = alone[f]
    /\ req'[g] \in {req[g], NoRequest}
    /\ alone'[g] => alone[g]

LEMMA NamesShrink ==
    ASSUME NEW g \in Handlers, Turn(g), NEW f \in Handlers
    PROVE  NamesOf(req'[f]) \subseteq NamesOf(req[f])
<1>1. req'[f] = req[f] \/ req'[f] = NoRequest
  BY DEF Turn
<1> QED BY <1>1 DEF NamesOf, NoRequest

LEMMA GripLiveNext ==
    ASSUME TypeInv, TypeInv', NEW g \in Handlers, Turn(g), NEW f \in Handlers
    PROVE  Grip(f)' \subseteq Live' /\ NoObj \notin Grip(f)'
<1>1. {store'[n] : n \in NamesOf(req'[f])} \subseteq Elems(store')
  BY NamesShrink, NamesAreUsers DEF TypeInv, StoreOK, Elems
<1>2. user'[f] \in Elems(user')
  BY DEF TypeInv, HandlersOK, Elems
<1>3. /\ Grip(f)' = ({store'[n] : n \in NamesOf(req'[f])} \union {user'[f]}) \ {NoObj}
      /\ Live' = (Elems(store') \union Elems(user') \union UNION {auth'[c].list : c \in Clients})
                   \ {NoObj}
  BY DEF Grip, Holds, Live, NamesOf, Elems
<1> QED BY <1>1, <1>2, <1>3

LEMMA ReachSpreads ==
    ASSUME TypeInv, TypeInv', NEW g \in Handlers, Turn(g),
           NEW S, NEW x, NEW y, NEW z, NEW content,
           Change(g, S, x, y, z, content), Within(g, S, x, y, z, content),
           NEW f \in Handlers
    PROVE  Touch(f)' \subseteq Touch(f) \union Touch(g)
<1> SUFFICES ASSUME NEW u \in Touch(f)' PROVE u \in Touch(f) \union Touch(g)
  OBVIOUS
<1>1. \A o : o \in Grip(f)' => o \in Grip(f) \union Grip(g) \union {z}
  <2> SUFFICES ASSUME NEW o, o \in Grip(f)' PROVE o \in Grip(f) \union Grip(g) \union {z}
    OBVIOUS
  <2>1. o # NoObj /\ (o = user'[f] \/ \E n \in NamesOf(req'[f]) : o = store'[n])
    BY InGrip DEF Grip, Holds
  <2>2. CASE o = user'[f]
    BY <2>1, <2>2, InGrip DEF Change, Puts, Within
  <2>3. ASSUME NEW n \in NamesOf(req'[f]), o = store'[n]
        PROVE  o \in Grip(f) \union Grip(g) \union {z}
    <3>1. n \in NamesOf(req[f]) /\ n \in Users
      BY NamesShrink, NamesAreUsers
    <3>2. o = IF n \in S THEN x ELSE store[n]
      BY <2>3, <3>1 DEF Change, Puts
    <3> QED BY <2>1, <3>1, <3>2, InGrip DEF Within
  <2> QED BY <2>1, <2>2, <2>3
<1>2. Grip(f)' \subseteq Live' /\ NoObj \notin Grip(f)'
  BY GripLiveNext
<1>3. \/ u \in NamesOf(req'[f])
      \/ \E o \in Grip(f)' : u = heap'[o].name
      \/ u \in Users /\ store'[u] \in Grip(f)'
  BY DEF Touch, Touches, Grip, Holds, NamesOf
<1>4. CASE u \in NamesOf(req'[f])
  BY <1>4, NamesShrink, InTouch
<1>5. ASSUME NEW o \in Grip(f)', u = heap'[o].name PROVE u \in Touch(f) \union Touch(g)
  <2>1. heap'[o] = IF o = z THEN content ELSE heap[o]
    BY <1>2, <1>5 DEF Change
  <2>2. CASE o = z
    BY <1>2, <1>5, <2>1, <2>2 DEF Within
  <2>3. CASE o # z
    BY <1>1, <1>5, <2>1, <2>3, InTouch
  <2> QED BY <2>2, <2>3
<1>6. CASE u \in Users /\ store'[u] \in Grip(f)'
  <2>1. CASE u \in S
    BY <2>1 DEF Within
  <2>2. CASE u \notin S
    <3>1. store'[u] = store[u] /\ store[u] # NoObj
      BY <1>2, <1>6, <2>2 DEF Change, Puts
    <3>2. store[u] \in Live
      BY <1>6, <3>1 DEF Live, Elems, TypeInv, StoreOK
    <3>3. store[u] \in Grip(f) \union Grip(g)
      BY <1>1, <1>6, <3>1, <3>2 DEF Within
    <3> QED BY <1>6, <3>3, InTouch
  <2> QED BY <2>1, <2>2
<1> QED BY <1>3, <1>4, <1>5, <1>6


\* A user out of the reach of g stays, and so does what a handler apart from g holds.
LEMMA OutOfReach ==
    ASSUME TypeInv, NEW g \in Handlers, NEW S, NEW x, NEW y, NEW z, NEW content,
           Change(g, S, x, y, z, content), Within(g, S, x, y, z, content),
           NEW u \in Users, u \notin Touch(g), store[u] # NoObj
    PROVE  store'[u] = store[u] /\ heap'[store[u]] = heap[store[u]]
<1>1. store'[u] = store[u]
  BY DEF Change, Puts, Within
<1>2. store[u] \in Live
  BY DEF Live, Elems, TypeInv, StoreOK
<1>3. store[u] # z
  BY <1>2, InTouch DEF Within
<1>4. store[u] \in Live'
  <2>1. store'[u] \in Elems(store')
    BY DEF Elems, Change, Puts
  <2> QED BY <1>1, <2>1 DEF Live, Elems
<1> QED BY <1>1, <1>3, <1>4 DEF Change

LEMMA GripsApart ==
    ASSUME NEW f \in Handlers, NEW g \in Handlers, Touch(f) \intersect Touch(g) = {}
    PROVE  Grip(f) \intersect Grip(g) = {}
<1> SUFFICES ASSUME NEW o \in Grip(f), o \in Grip(g) PROVE FALSE
  OBVIOUS
<1>1. heap[o].name \in Touch(f) /\ heap[o].name \in Touch(g)
  BY InTouch
<1> QED BY <1>1

LEMMA OthersObject ==
    ASSUME TypeInv, NEW g \in Handlers, NEW S, NEW x, NEW y, NEW z, NEW content,
           Change(g, S, x, y, z, content), Within(g, S, x, y, z, content),
           NEW f \in Handlers \ {g}, Touch(f) \intersect Touch(g) = {}, user[f] # NoObj
    PROVE  user'[f] = user[f] /\ heap'[user[f]] = heap[user[f]]
<1>1. user'[f] = user[f]
  BY DEF Change, Puts
<1>2. user[f] \in Grip(f) /\ user[f] \in Live
  BY InGrip, HoldsLive
<1>3. user[f] # z
  BY <1>2, GripsApart DEF Within
<1>4. user[f] \in Live'
  <2>1. user'[f] \in Elems(user')
    BY DEF Elems, Change, Puts
  <2> QED BY <1>1, <2>1 DEF Live, Elems
<1> QED BY <1>1, <1>3, <1>4 DEF Change

LEMMA ReachStaysApart ==
    ASSUME TypeInv, TypeInv', NEW g \in Handlers, Turn(g),
           NEW S, NEW x, NEW y, NEW z, NEW content,
           Change(g, S, x, y, z, content), Within(g, S, x, y, z, content),
           NEW f \in Handlers \ {g}, Touch(f) \intersect Touch(g) = {}
    PROVE  Touch(f)' \subseteq Touch(f)
<1>1. req'[f] = req[f] /\ user'[f] = user[f] /\ NamesOf(req[f]) \subseteq Users
  BY NamesAreUsers DEF Turn, Change, Puts
<1>2. \A n \in NamesOf(req[f]) : store'[n] = store[n]
  BY <1>1, InTouch DEF Within, Change, Puts
<1>3. Grip(f)' = Grip(f)
  BY <1>1, <1>2 DEF Grip, Holds, NamesOf
<1>4. Grip(f) \subseteq Live /\ NoObj \notin Grip(f) /\ Grip(f) \intersect Grip(g) = {}
  BY GripLive, GripsApart
<1>5. z \notin Grip(f) /\ x \notin Grip(f)
  BY <1>4 DEF Within
<1>6. \A o \in Grip(f) : heap'[o] = heap[o]
  <2>1. Grip(f) \subseteq Live'
    BY <1>3, GripLiveNext
  <2> QED BY <1>5, <2>1 DEF Change
<1> SUFFICES ASSUME NEW u \in Touch(f)' PROVE u \in Touch(f)
  OBVIOUS
<1>7. \/ u \in NamesOf(req[f])
      \/ \E o \in Grip(f) : u = heap'[o].name
      \/ u \in Users /\ store'[u] \in Grip(f)
  BY <1>1, <1>3 DEF Touch, Touches, Grip, Holds, NamesOf
<1>8. CASE u \in Users /\ store'[u] \in Grip(f)
  <2>1. store'[u] = IF u \in S THEN x ELSE store[u]
    BY <1>8 DEF Change, Puts
  <2>2. store[u] \in Grip(f)
    BY <1>5, <1>8, <2>1
  <2> QED BY <1>8, <2>2, InTouch
<1> QED BY <1>6, <1>7, <1>8, InTouch


LEMMA ApartMoves ==
    ASSUME TypeInv, TypeInv', Apart, NEW g \in Handlers, Turn(g),
           NEW S, NEW x, NEW y, NEW z, NEW content,
           Change(g, S, x, y, z, content), Within(g, S, x, y, z, content)
    PROVE  Apart'
<1> SUFFICES ASSUME NEW h \in Handlers, NEW f \in Handlers, h # f, alone'[h]
             PROVE  Touch(h)' \intersect Touch(f)' = {}
  BY DEF Apart
<1>1. alone[h]
  BY DEF Turn
<1>2. Touch(h) \intersect Touch(f) = {} /\ (h # g => Touch(h) \intersect Touch(g) = {})
  BY <1>1 DEF Apart
<1>3. Touch(h)' \subseteq Touch(h)
  <2>1. CASE h = g
    BY <2>1, ReachSpreads
  <2>2. CASE h # g
    BY <1>2, <2>2, ReachStaysApart
  <2> QED BY <2>1, <2>2
<1>4. CASE h = g
  <2>1. Touch(f)' \subseteq Touch(f)
    BY <1>2, <1>4, ReachStaysApart
  <2> QED BY <1>2, <1>3, <2>1
<1>5. CASE h # g
  <2>1. Touch(f)' \subseteq Touch(f) \union Touch(g)
    BY ReachSpreads
  <2> QED BY <1>2, <1>3, <1>5, <2>1
<1> QED BY <1>4, <1>5

\* The request of h stores the password it was sent.
CarriesOwn(h) ==
    alone[h] /\ at[h] = "add" /\ req[h].pass # Omitted => heap[user[h]].pass = Plain(req[h].pass)

LEMMA CarriesMoves ==
    ASSUME TypeInv, Apart, Carries, NEW g \in Handlers, Turn(g),
           NEW S, NEW x, NEW y, NEW z, NEW content,
           Change(g, S, x, y, z, content), Within(g, S, x, y, z, content),
           CarriesOwn(g)'
    PROVE  Carries'
<1> SUFFICES ASSUME NEW h \in Handlers PROVE CarriesOwn(h)'
  BY DEF Carries, CarriesOwn
<1>1. CASE h = g
  BY <1>1
<1>2. CASE h # g
  <2> SUFFICES ASSUME alone'[h], at'[h] = "add", req'[h].pass # Omitted
               PROVE  heap'[user'[h]].pass = Plain(req'[h].pass)
    BY DEF CarriesOwn
  <2>1. alone[h] /\ at[h] = "add" /\ req'[h] = req[h]
    BY <1>2 DEF Turn
  <2>2. user[h] # NoObj /\ Touch(h) \intersect Touch(g) = {}
    BY <1>2, <2>1 DEF Apart, TypeInv, HandlersOK, PhaseOK
  <2>3. user'[h] = user[h] /\ heap'[user[h]] = heap[user[h]]
    BY <1>2, <2>2, OthersObject
  <2> QED BY <2>1, <2>3 DEF Carries
<1> QED BY <1>1, <1>2

LEMMA KeepsMoves ==
    ASSUME TypeInv, TypeInv', NEW g \in Handlers, Turn(g),
           NEW S, NEW x, NEW y, NEW z, NEW content,
           Change(g, S, x, y, z, content), Within(g, S, x, y, z, content),
           NEW u \in Users, NEW p, KeepsIn(u, p), u \notin Touch(g)
    PROVE  KeepsIn(u, p)'
<1>1. store[u] # NoObj /\ Matches(store[u], u, p)
  BY DEF KeepsIn
<1>2. store'[u] = store[u] /\ heap'[store[u]] = heap[store[u]]
  BY <1>1, OutOfReach
<1>3. store'[u] # NoObj /\ Matches(store[u], u, p)'
  BY <1>1, <1>2 DEF Matches
<1>4. ASSUME NEW f \in Handlers, Threat(f)' PROVE u \notin Touch(f)'
  <2>1. Touch(f)' \subseteq Touch(f) \union Touch(g)
    BY ReachSpreads
  <2>2. u \notin Touch(f)
    <3>1. CASE f = g
      BY <3>1
    <3>2. CASE f # g
      <4>1. Threat(f)
        BY <1>4, <3>2 DEF Threat, Turn
      <4> QED BY <4>1 DEF KeepsIn
    <3> QED BY <3>1, <3>2
  <2> QED BY <2>1, <2>2
<1> QED BY <1>3, <1>4 DEF KeepsIn

LEMMA WorksMoves ==
    ASSUME TypeInv, TypeInv', WorksInv, NEW g \in Handlers, Turn(g),
           NEW S, NEW x, NEW y, NEW z, NEW content,
           Change(g, S, x, y, z, content), Within(g, S, x, y, z, content),
           CarriesOwn(g)', UNCHANGED promised,
           \A u \in Users : promised[u] # Omitted => u \notin Touch(g)
    PROVE  WorksInv'
<1>1. Apart' /\ Carries'
  BY ApartMoves, CarriesMoves DEF WorksInv
<1>2. ASSUME NEW u \in Users, NEW p, p # Omitted, promised[u] = p
      PROVE  KeepsIn(u, p)'
  BY <1>2, KeepsMoves DEF WorksInv, Kept
<1>3. Kept'
  BY <1>2 DEF Kept
<1> QED BY <1>1, <1>3 DEF WorksInv

\* The users of a request that may write or delete have no promise.
LEMMA NoPromise ==
    ASSUME WorksInv, NEW g \in Handlers, Threat(g)
    PROVE  \A u \in Users : promised[u] # Omitted => u \notin Touch(g)
BY DEF WorksInv, Kept, KeepsIn

\* A handler that writes nothing, or deletes, brings no user into the reach of another.
LEMMA TouchShrinks ==
    ASSUME TypeInv, TypeInv', NEW g \in Handlers, Turn(g), NEW S,
           Change(g, S, NoObj, NoObj, NoObj, NoObj), NEW f \in Handlers \ {g}
    PROVE  Touch(f)' \subseteq Touch(f)
<1>1. req'[f] = req[f] /\ user'[f] = user[f] /\ NamesOf(req[f]) \subseteq Users
  BY NamesAreUsers DEF Turn, Change, Puts
<1>2. \A u \in Users : store'[u] \in {store[u], NoObj}
  BY DEF Change, Puts
<1>3. \A o : o \in Grip(f)' => o \in Grip(f)
  <2> SUFFICES ASSUME NEW o, o \in Grip(f)' PROVE o \in Grip(f)
    OBVIOUS
  <2>1. o # NoObj /\ (o = user'[f] \/ \E n \in NamesOf(req'[f]) : o = store'[n])
    BY InGrip DEF Grip, Holds
  <2> QED BY <1>1, <1>2, <2>1, InGrip
<1>4. \A o \in Grip(f)' : heap'[o] = heap[o]
  BY GripLiveNext DEF Change
<1> SUFFICES ASSUME NEW u \in Touch(f)' PROVE u \in Touch(f)
  OBVIOUS
<1>5. \/ u \in NamesOf(req[f])
      \/ \E o \in Grip(f)' : u = heap'[o].name
      \/ u \in Users /\ store'[u] \in Grip(f)'
  BY <1>1 DEF Touch, Touches, Grip, Holds, NamesOf
<1>6. NoObj \notin Grip(f)'
  BY GripLiveNext
<1> QED BY <1>2, <1>3, <1>4, <1>5, <1>6, InTouch

\* A handler that writes nothing, and then still has to look for its user.
LEMMA WorksQuiet ==
    ASSUME TypeInv, TypeInv', WorksInv, NEW g \in Handlers, Turn(g), Quiet(g, NoObj),
           UNCHANGED promised, ~Threat(g)', at'[g] # "add"
    PROVE  WorksInv'
<1>1. Within(g, {}, NoObj, NoObj, NoObj, NoObj) /\ Change(g, {}, NoObj, NoObj, NoObj, NoObj)
  BY DEF Within, Quiet
<1>2. Apart' /\ Carries'
  BY <1>1, ApartMoves, CarriesMoves DEF WorksInv, CarriesOwn
<1>3. /\ store' = store /\ Live' \subseteq Live /\ NoObj \notin Live'
      /\ \A o \in Live' : heap'[o] = heap[o]
  BY <1>1 DEF Change, Puts, TypeInv, StoreOK, Live
<1>4. \A f \in Handlers \ {g} : Touch(f)' \subseteq Touch(f)
  BY <1>1, TouchShrinks
<1>5. ASSUME NEW u \in Users, NEW p, KeepsIn(u, p) PROVE KeepsIn(u, p)'
  <2>1. store[u] # NoObj /\ Matches(store[u], u, p)
    BY <1>5 DEF KeepsIn
  <2>2. store[u] \in Live'
    BY <1>3, <2>1 DEF Live, Elems, TypeInv, StoreOK
  <2>3. store'[u] # NoObj /\ Matches(store[u], u, p)'
    BY <1>3, <2>1, <2>2 DEF Matches
  <2>4. ASSUME NEW f \in Handlers, Threat(f)' PROVE u \notin Touch(f)'
    <3>1. f # g
      BY <2>4
    <3>2. Threat(f)
      BY <2>4, <3>1 DEF Threat, Turn
    <3> QED BY <1>4, <1>5, <3>1, <3>2 DEF KeepsIn
  <2> QED BY <2>3, <2>4 DEF KeepsIn
<1>6. Kept'
  BY <1>5 DEF Kept, WorksInv
<1> QED BY <1>2, <1>6 DEF WorksInv


LEMMA TurnOfMove ==
    ASSUME TypeInv, NEW h \in Handlers, Answer(h) \/ \E call : GoOn(h, call)
    PROVE  /\ Turn(h)
           /\ Answer(h) => at'[h] = "idle"
           /\ \A call : GoOn(h, call) => /\ at'[h] = call /\ req'[h] = req[h]
                                         /\ alone'[h] = alone[h]
BY DEF Answer, GoOn, Turn, TypeInv, HandlersOK

LEMMA CreateWorks ==
    ASSUME TypeInv, TypeInv', WorksInv, NEW h \in Handlers, CreateFind(h)
    PROVE  WorksInv'
<1>1. at[h] = "find" /\ req[h].op = "create" /\ UNCHANGED promised /\ user[h] = NoObj
  BY DEF CreateFind, TypeInv, HandlersOK, PhaseOK
<1>2. CASE (GoOn(h, "find") \/ Answer(h)) /\ Quiet(h, NoObj)
  <2>1. Turn(h) /\ (at'[h] = "idle" \/ (at'[h] = "find" /\ req'[h] = req[h]))
    BY <1>2, TurnOfMove
  <2>2. ~Threat(h)' /\ at'[h] # "add"
    BY <1>1, <2>1 DEF Threat
  <2> QED BY <1>1, <1>2, <2>1, <2>2, WorksQuiet
<1>3. CASE /\ GoOn(h, "add") /\ store[req[h].name] = NoObj
           /\ Change(h, {}, NoObj, Fresh, Fresh, NewUser(h))
  <2>1. Fresh \in Objs /\ Fresh \notin Live /\ Fresh # NoObj
    BY SpareObject DEF TypeInv
  <2>2. Turn(h) /\ req'[h] = req[h]
    BY <1>3, TurnOfMove
  <2>3. NamesOf(req[h]) = {req[h].name}
    BY <1>1, RequestsAssumption DEF NamesOf, TypeInv, StoreOK, HandlersOK, PhaseOK
  <2>4. Grip(h) = {}
    BY <1>1, <1>3, <2>3 DEF Grip, Holds
  <2>5. \A u : u \in Touch(h) <=> u = req[h].name
    BY <2>3, <2>4, InTouch
  <2>6. Within(h, {}, NoObj, Fresh, Fresh, NewUser(h))
    BY <2>1, <2>5 DEF Within, NewUser
  <2>7. CarriesOwn(h)'
    <3>1. user'[h] = Fresh /\ Fresh \in Live'
      <4>1. user'[h] = Fresh /\ user'[h] \in Elems(user')
        BY <1>3 DEF Change, Puts, Elems
      <4> QED BY <2>1, <4>1 DEF Live, Elems
    <3>2. heap'[user'[h]] = NewUser(h)
      BY <1>3, <3>1 DEF Change
    <3> QED BY <2>2, <3>2 DEF CarriesOwn, NewUser
  <2>8. \A u \in Users : promised[u] # Omitted => u \notin Touch(h)
    BY <1>3, <2>5 DEF WorksInv, Kept, KeepsIn
  <2> QED BY <1>1, <1>3, <2>2, <2>6, <2>7, <2>8, WorksMoves
<1> QED BY <1>2, <1>3, CreateMoves

LEMMA UpdateWorks ==
    ASSUME TypeInv, TypeInv', WorksInv, NEW h \in Handlers, UpdateFind(h)
    PROVE  WorksInv'
<1> DEFINE o == store[req[h].name]
<1>1. at[h] = "find" /\ req[h].op = "update" /\ UNCHANGED promised
  BY DEF UpdateFind
<1>2. \A u \in Users : promised[u] # Omitted => u \notin Touch(h)
  BY <1>1, NoPromise DEF Threat
<1>3. req[h].name \in NamesOf(req[h])
  BY <1>1, RequestsAssumption DEF NamesOf, TypeInv, StoreOK, HandlersOK, PhaseOK
<1>4. Turn(h) /\ at'[h] # "add"
  BY UpdateMoves, TurnOfMove
<1>5. CarriesOwn(h)'
  BY <1>4 DEF CarriesOwn
<1>6. ASSUME NEW y, Quiet(h, y), y = NoObj \/ y = o PROVE WorksInv'
  <2>1. Within(h, {}, NoObj, y, NoObj, NoObj) /\ Change(h, {}, NoObj, y, NoObj, NoObj)
    BY <1>3, <1>6, InGrip DEF Within, Quiet
  <2> QED BY <1>1, <1>2, <1>4, <1>5, <2>1, WorksMoves
<1>7. CASE Change(h, {}, NoObj, Fresh, Fresh, heap[o]) /\ o # NoObj
  <2>1. Fresh \in Objs /\ Fresh \notin Live /\ Fresh # NoObj
    BY SpareObject DEF TypeInv
  <2>2. o \in Grip(h)
    BY <1>3, <1>7, InGrip
  <2>3. heap[o].name \in Touch(h)
    BY <2>2, InTouch
  <2> HIDE DEF o
  <2>4. Within(h, {}, NoObj, Fresh, Fresh, heap[o])
    BY <2>1, <2>3 DEF Within
  <2> QED BY <1>1, <1>2, <1>4, <1>5, <1>7, <2>4, WorksMoves
<1> QED BY <1>6, <1>7, UpdateMoves

LEMMA DecodeWorks ==
    ASSUME TypeInv, TypeInv', WorksInv, NEW h \in Handlers, UpdateDecode(h)
    PROVE  WorksInv'
<1>1. /\ at[h] = "decode" /\ UNCHANGED promised /\ user[h] # NoObj
      /\ req[h].op = "update"
  BY DecodedContent DEF UpdateDecode, TypeInv, HandlersOK, PhaseOK
<1>2. \A u \in Users : promised[u] # Omitted => u \notin Touch(h)
  BY <1>1, NoPromise DEF Threat
<1>3. user[h] \in Grip(h)
  BY <1>1, InGrip
<1>4. Decoded(h).name \in Touch(h)
  <2>1. heap[user[h]].name \in Touch(h)
    BY <1>3, InTouch
  <2>2. req[h].rename # Omitted => req[h].rename \in NamesOf(req[h])
    BY <1>1, RequestsAssumption DEF NamesOf, TypeInv, StoreOK, HandlersOK, PhaseOK
  <2> QED BY <2>1, <2>2, InTouch DEF Decoded
<1>5. \A y \in {user[h], NoObj} : Within(h, {}, NoObj, y, user[h], Decoded(h))
  BY <1>3, <1>4 DEF Within
<1>6. CASE Answer(h) /\ Change(h, {}, NoObj, NoObj, user[h], Decoded(h))
  <2>1. Turn(h) /\ CarriesOwn(h)'
    BY <1>6, TurnOfMove DEF CarriesOwn
  <2> QED BY <1>1, <1>2, <1>5, <1>6, <2>1, WorksMoves
<1>7. CASE GoOn(h, "add") /\ Change(h, {}, NoObj, user[h], user[h], Decoded(h))
  <2>1. Turn(h) /\ req'[h] = req[h]
    BY <1>7, TurnOfMove
  <2>2. heap'[user'[h]] = Decoded(h)
    <3>1. user'[h] = user[h] /\ user'[h] \in Elems(user')
      BY <1>7 DEF Change, Puts, Elems
    <3>2. user[h] \in Live'
      BY <1>1, <3>1 DEF Live, Elems
    <3> QED BY <1>7, <3>1, <3>2 DEF Change
  <2>3. CarriesOwn(h)'
    BY <2>1, <2>2 DEF CarriesOwn, Decoded
  <2> QED BY <1>1, <1>2, <1>5, <1>7, <2>1, <2>3, WorksMoves
<1> QED BY <1>6, <1>7, DecodeMoves

LEMMA OrgWorks ==
    ASSUME TypeInv, TypeInv', WorksInv, NEW h \in Handlers, OrgFind(h) \/ OrgAdd(h)
    PROVE  WorksInv'
<1>1. /\ at[h] \in {"findOrg", "addOrg"} /\ Quiet(h, NoObj) /\ UNCHANGED promised
      /\ GoOn(h, "findOrg") \/ GoOn(h, "addOrg") \/ Answer(h)
  BY OrgMoves DEF OrgFind, OrgAdd
<1>2. req[h].op \in {"create", "createOrg", "updateOrg"}
  BY <1>1 DEF TypeInv, HandlersOK, PhaseOK
<1>3. /\ Turn(h)
      /\ at'[h] = "idle" \/ (at'[h] \in {"findOrg", "addOrg"} /\ req'[h] = req[h])
  BY <1>1, TurnOfMove
<1>4. ~Threat(h)' /\ at'[h] # "add"
  BY <1>2, <1>3 DEF Threat
<1> QED BY <1>1, <1>3, <1>4, WorksQuiet

LEMMA DeleteWorks ==
    ASSUME TypeInv, TypeInv', WorksInv, NEW h \in Handlers, DeleteUser(h)
    PROVE  WorksInv'
<1>1. /\ at[h] = "remove" /\ UNCHANGED promised
      /\ GoOn(h, "remove") \/ Answer(h)
      /\ Change(h, {req[h].name}, NoObj, NoObj, NoObj, NoObj) \/ Quiet(h, NoObj)
  BY DeleteMoves DEF DeleteUser
<1>2. req[h].op = "delete"
  BY <1>1 DEF TypeInv, HandlersOK, PhaseOK
<1>3. req[h].name \in Touch(h)
  <2>1. req[h].name \in NamesOf(req[h])
    BY <1>1, <1>2, RequestsAssumption DEF NamesOf, TypeInv, StoreOK, HandlersOK, PhaseOK
  <2> QED BY <2>1, InTouch
<1>4. \A u \in Users : promised[u] # Omitted => u \notin Touch(h)
  BY <1>1, <1>2, NoPromise DEF Threat
<1>5. Turn(h) /\ CarriesOwn(h)'
  BY <1>1, TurnOfMove DEF CarriesOwn
<1>6. ASSUME NEW S \in {{}, {req[h].name}}, Change(h, S, NoObj, NoObj, NoObj, NoObj)
      PROVE  WorksInv'
  <2>1. Within(h, S, NoObj, NoObj, NoObj, NoObj)
    BY <1>3 DEF Within
  <2> QED BY <1>1, <1>4, <1>5, <1>6, <2>1, WorksMoves
<1> QED BY <1>1, <1>6 DEF Quiet


LEMMA SavedChange ==
    ASSUME TypeInv, NEW h \in Handlers, user[h] # NoObj, NEW y \in {user[h], NoObj},
           Saved(h, y), NEW n, n = heap[user[h]].name
    PROVE  /\ n \in Users /\ n \in Touch(h)
           /\ \E z : /\ Change(h, {n}, z, y, z, Hashed(user[h]))
                     /\ Within(h, {n}, z, y, z, Hashed(user[h]))
                     /\ z # NoObj /\ store'[n] = z /\ heap'[z] = Hashed(user[h])
                     /\ backend # "memory" => z # user[h]
<1>1. user[h] \in Grip(h) /\ user[h] \in Live /\ n \in Users
  BY InGrip, HoldsLive DEF Content
<1>2. n \in Touch(h)
  BY <1>1, InTouch
<1>3. Hashed(user[h]).name = n
  BY HashedContent
<1>4. Fresh \notin Live /\ Fresh # NoObj
  BY SpareObject DEF TypeInv
<1>5. ASSUME NEW z, z # NoObj, z \in Grip(h) \/ z \notin Live,
             Change(h, {n}, z, y, z, Hashed(user[h]))
      PROVE  /\ Within(h, {n}, z, y, z, Hashed(user[h]))
             /\ store'[n] = z /\ heap'[z] = Hashed(user[h])
  <2>1. Within(h, {n}, z, y, z, Hashed(user[h]))
    BY <1>1, <1>2, <1>3, <1>5 DEF Within
  <2>2. store'[n] = z /\ z \in Elems(store')
    BY <1>1, <1>5 DEF Change, Puts, Elems
  <2>3. z \in Live'
    BY <1>5, <2>2 DEF Live, Elems
  <2> QED BY <1>5, <2>1, <2>2, <2>3 DEF Change
<1>6. CASE backend # "memory" /\ Change(h, {n}, Fresh, y, Fresh, Hashed(user[h]))
  BY <1>1, <1>2, <1>4, <1>5, <1>6
<1>7. CASE backend = "memory" /\ Change(h, {n}, user[h], y, user[h], Hashed(user[h]))
  BY <1>1, <1>2, <1>5, <1>7
<1> QED BY <1>1, <1>2, <1>6, <1>7 DEF Saved

LEMMA PromiseWorks ==
    ASSUME TypeInv, TypeInv', WorksInv, NEW h \in Handlers, at[h] = "add", user[h] # NoObj,
           Saved(h, NoObj), Turn(h), at'[h] # "add", ~Threat(h)',
           alone[h], req[h].pass # Omitted,
           promised' = [promised EXCEPT ![heap[user[h]].name] = req[h].pass]
    PROVE  WorksInv'
<1>0. PICK n : n = heap[user[h]].name
  OBVIOUS
<1>1. n \in Users /\ n \in Touch(h)
  BY <1>0, SavedChange
<1>2. PICK z : /\ Change(h, {n}, z, NoObj, z, Hashed(user[h]))
               /\ Within(h, {n}, z, NoObj, z, Hashed(user[h]))
               /\ z # NoObj /\ store'[n] = z /\ heap'[z] = Hashed(user[h])
  BY <1>0, SavedChange
<1>3. Apart' /\ Carries'
  BY <1>2, ApartMoves, CarriesMoves DEF WorksInv, CarriesOwn
<1>4. \A u \in Users : promised'[u] = IF u = n THEN req[h].pass ELSE promised[u]
  BY <1>0 DEF TypeInv, HandlersOK
<1>5. ASSUME NEW u \in Users, u # n, NEW p, promised[u] = p, p # Omitted PROVE KeepsIn(u, p)'
  <2>1. u \notin Touch(h)
    BY <1>5, NoPromise DEF Threat, TypeInv, HandlersOK
  <2> QED BY <1>2, <1>5, <2>1, KeepsMoves DEF WorksInv, Kept
<1>6. ASSUME NEW p, p = req[h].pass PROVE KeepsIn(n, p)'
  <2>1. heap[user[h]].pass = Plain(p) /\ heap[user[h]] \in Content
    BY <1>6, HoldsLive DEF WorksInv, Carries
  <2>2. heap'[z].name = n /\ heap'[z].pass = Generate(Plain(p))
    BY <1>0, <1>2, <2>1 DEF Hashed, Content
  <2>3. store'[n] # NoObj /\ Matches(store[n], n, p)'
    BY <1>2, <2>2 DEF Matches, Compare
  <2>4. ASSUME NEW f \in Handlers, Threat(f)' PROVE n \notin Touch(f)'
    <3>1. f # h
      BY <2>4
    <3>2. Touch(h) \intersect Touch(f) = {}
      BY <3>1 DEF WorksInv, Apart
    <3>3. Touch(f)' \subseteq Touch(f)
      BY <1>2, <3>1, <3>2, ReachStaysApart
    <3> QED BY <1>1, <3>2, <3>3
  <2> QED BY <2>3, <2>4 DEF KeepsIn
<1>7. Kept'
  <2> SUFFICES ASSUME NEW u \in Users, NEW p, p = promised'[u], p # Omitted PROVE KeepsIn(u, p)'
    BY DEF Kept
  <2> QED BY <1>4, <1>5, <1>6
<1> QED BY <1>3, <1>7 DEF WorksInv

LEMMA SaveWorks ==
    ASSUME TypeInv, TypeInv', WorksInv, NEW h \in Handlers, Save(h) \/ OrgCreateAdd(h)
    PROVE  WorksInv'
<1>1. /\ at[h] = "add" /\ user[h] # NoObj
      /\ \/ /\ GoOn(h, "add") /\ UNCHANGED promised /\ backend # "memory"
            /\ Saved(h, user[h]) \/ Quiet(h, user[h])
         \/ /\ Answer(h) /\ UNCHANGED promised
            /\ Saved(h, NoObj) \/ Quiet(h, NoObj)
         \/ /\ Answer(h) \/ (GoOn(h, "findOrg") /\ req[h].op = "create")
            /\ Promise(h)
            /\ Saved(h, NoObj)
  BY SaveMoves
<1>2. \A u \in Users : promised[u] # Omitted => u \notin Touch(h)
  BY <1>1, NoPromise DEF Threat
<1>3. user[h] \in Grip(h)
  BY <1>1, InGrip
<1>4. ASSUME NEW y \in {user[h], NoObj}, Saved(h, y) \/ Quiet(h, y), Turn(h),
             UNCHANGED promised, CarriesOwn(h)'
      PROVE  WorksInv'
  <2>1. CASE Saved(h, y)
    <3>1. PICK n : n = heap[user[h]].name
      OBVIOUS
    <3>2. PICK z : /\ Change(h, {n}, z, y, z, Hashed(user[h]))
                   /\ Within(h, {n}, z, y, z, Hashed(user[h]))
      BY <1>1, <2>1, <3>1, SavedChange
    <3> QED BY <1>2, <1>4, <3>2, WorksMoves
  <2>2. CASE Quiet(h, y)
    <3>1. /\ Change(h, {}, NoObj, y, NoObj, NoObj)
          /\ Within(h, {}, NoObj, y, NoObj, NoObj)
      BY <1>3, <2>2 DEF Quiet, Within
    <3> QED BY <1>2, <1>4, <3>1, WorksMoves
  <2> QED BY <1>4, <2>1, <2>2
<1>5. CASE /\ GoOn(h, "add") /\ UNCHANGED promised /\ backend # "memory"
           /\ Saved(h, user[h]) \/ Quiet(h, user[h])
  <2>1. Turn(h) /\ req'[h] = req[h] /\ alone'[h] = alone[h]
    BY <1>5, TurnOfMove
  <2>2. user'[h] = user[h] /\ heap'[user[h]] = heap[user[h]]
    <3>1. PICK S, x, z, content : Change(h, S, x, user[h], z, content) /\ z # user[h]
      <4>1. Fresh \notin Live /\ user[h] \in Live
        BY <1>1, SpareObject, HoldsLive DEF TypeInv
      <4> QED BY <1>1, <1>5, <4>1 DEF Saved, Quiet
    <3>2. user'[h] = user[h] /\ user'[h] \in Elems(user')
      BY <3>1 DEF Change, Puts, Elems
    <3>3. user[h] \in Live'
      BY <1>1, <3>2 DEF Live, Elems
    <3> QED BY <3>1, <3>2, <3>3 DEF Change
  <2>3. CarriesOwn(h)'
    BY <1>1, <2>1, <2>2 DEF CarriesOwn, WorksInv, Carries
  <2> QED BY <1>4, <1>5, <2>1, <2>3
<1>6. CASE Answer(h) /\ UNCHANGED promised /\ (Saved(h, NoObj) \/ Quiet(h, NoObj))
  <2>1. Turn(h) /\ CarriesOwn(h)'
    BY <1>6, TurnOfMove DEF CarriesOwn
  <2> QED BY <1>4, <1>6, <2>1
<1>7. CASE /\ Answer(h) \/ (GoOn(h, "findOrg") /\ req[h].op = "create")
           /\ Promise(h) /\ Saved(h, NoObj)
  <2>1. /\ Turn(h)
        /\ at'[h] = "idle" \/ (at'[h] = "findOrg" /\ req'[h] = req[h] /\ req[h].op = "create")
    BY <1>7, TurnOfMove
  <2>2. CarriesOwn(h)' /\ at'[h] # "add" /\ ~Threat(h)'
    BY <2>1 DEF CarriesOwn, Threat
  <2>3. CASE UNCHANGED promised
    BY <1>4, <1>7, <2>1, <2>2, <2>3
  <2>4. CASE /\ alone[h] /\ req[h].pass # Omitted
             /\ promised' = [promised EXCEPT ![heap[user[h]].name] = req[h].pass]
    BY <1>1, <1>7, <2>1, <2>2, <2>4, PromiseWorks
  <2> QED BY <1>7, <2>3, <2>4 DEF Promise
<1> QED BY <1>1, <1>5, <1>6, <1>7


LEMMA BeginWorks ==
    ASSUME TypeInv, WorksInv, NEW h \in Handlers, NEW q \in Requests[plugin], Begin(h, q)
    PROVE  WorksInv'
<1>1. UNCHANGED <<store, heap, user>> /\ user[h] = NoObj
  BY DEF Begin, storeVars, TypeInv, HandlersOK, PhaseOK
<1>2. CASE UNCHANGED <<req, at, alone, promised>>
  <2>1. \A f \in Handlers : Touch(f)' = Touch(f) /\ Threat(f)' = Threat(f)
    BY <1>1, <1>2 DEF Touch, Touches, Holds, NamesOf, Threat
  <2> QED BY <1>1, <1>2, <2>1 DEF WorksInv, Apart, Carries, Kept, KeepsIn, Matches
<1>3. CASE Installed
  <2> DEFINE mine == Touches(q, NoObj)
             others == {g \in Handlers \ {h} : Overlap(q, g)}
  <2>1. /\ req' = [req EXCEPT ![h] = q]
        /\ at' = [at EXCEPT ![h] = IF q.op \in {"create", "update"} THEN "find"
                                   ELSE IF q.op = "delete" THEN "remove" ELSE "findOrg"]
        /\ alone' = [g \in Handlers |->
                       IF g = h THEN others = {} ELSE alone[g] /\ g \notin others]
        /\ promised' = [u \in Users |->
             IF q.op \in {"update", "delete"} /\ u \in mine THEN Omitted ELSE promised[u]]
    BY <1>3 DEF Begin
  <2>2. \A f \in Handlers \ {h} : req'[f] = req[f] /\ at'[f] = at[f]
    BY <2>1 DEF TypeInv, HandlersOK
  <2>3. req'[h] = q /\ at'[h] \notin {"idle", "add"}
    BY <2>1 DEF TypeInv, HandlersOK
  <2>4. \A f \in Handlers \ {h} : Touch(f)' = Touch(f) /\ Threat(f)' = Threat(f)
    BY <1>1, <2>2 DEF Touch, Touches, Holds, NamesOf, Threat
  <2>5. Touch(h)' = mine
    BY <1>1, <2>3 DEF Touch, Touches, Holds, NamesOf
  <2>6. \A g \in Handlers \ {h} : g \notin others => mine \intersect Touch(g) = {}
    BY DEF Overlap, Touch
  <2>7. Threat(h)' => q.op \in {"update", "delete"}
    BY <2>3 DEF Threat
  <2> HIDE DEF mine, others
  <2>8. Apart'
    <3> SUFFICES ASSUME NEW a \in Handlers, NEW b \in Handlers, a # b, alone'[a]
                 PROVE  Touch(a)' \intersect Touch(b)' = {}
      BY DEF Apart
    <3>1. CASE a = h
      <4>1. b # h /\ b \notin others
        BY <2>1, <3>1
      <4> QED BY <2>4, <2>5, <2>6, <3>1, <4>1
    <3>2. CASE a # h
      <4>1. alone[a] /\ a \notin others
        BY <2>1, <3>2
      <4>2. CASE b = h
        BY <2>4, <2>5, <2>6, <3>2, <4>1, <4>2
      <4>3. CASE b # h
        BY <2>4, <3>2, <4>1, <4>3 DEF WorksInv, Apart
      <4> QED BY <4>2, <4>3
    <3> QED BY <3>1, <3>2
  <2>9. Carries'
    <3> SUFFICES ASSUME NEW a \in Handlers, alone'[a], at'[a] = "add", req'[a].pass # Omitted
                 PROVE  heap'[user'[a]].pass = Plain(req'[a].pass)
      BY DEF Carries
    <3>1. a # h
      BY <2>3
    <3>2. alone[a] /\ req'[a] = req[a] /\ at[a] = "add"
      BY <2>1, <2>2, <3>1
    <3> QED BY <1>1, <3>2 DEF WorksInv, Carries
  <2>10. Kept'
    <3> SUFFICES ASSUME NEW u \in Users, NEW p, p = promised'[u], p # Omitted PROVE KeepsIn(u, p)'
      BY DEF Kept
    <3>1. p = promised[u] /\ (q.op \in {"update", "delete"} => u \notin mine)
      BY <2>1
    <3>2. KeepsIn(u, p)
      BY <3>1 DEF WorksInv, Kept
    <3>3. store'[u] # NoObj /\ Matches(store[u], u, p)'
      BY <1>1, <3>2 DEF KeepsIn, Matches
    <3>4. ASSUME NEW f \in Handlers, Threat(f)' PROVE u \notin Touch(f)'
      BY <2>4, <2>5, <2>7, <3>1, <3>2, <3>4 DEF KeepsIn
    <3> QED BY <3>3, <3>4 DEF KeepsIn
  <2> QED BY <2>8, <2>9, <2>10 DEF WorksInv
<1> QED BY <1>2, <1>3 DEF Begin

\* A step of a request on the route lets go of objects at most.
LEMMA TouchSame ==
    ASSUME TypeInv, TypeInv', UNCHANGED <<store, req, at, user, alone>>,
           \A o \in Live' : heap'[o] = heap[o], NEW f \in Handlers
    PROVE  Touch(f)' = Touch(f)
<1>1. Grip(f)' = Grip(f)
  BY DEF Grip, Holds, NamesOf
<1>2. Turn(f)
  BY DEF Turn
<1>3. \A o \in Grip(f) : heap'[o] = heap[o]
  BY <1>1, <1>2, GripLiveNext
<1>4. {heap'[o].name : o \in Grip(f)} = {heap[o].name : o \in Grip(f)}
  BY <1>3
<1>5. Touch(f)' = NamesOf(req[f]) \union {heap'[o].name : o \in Grip(f)}
                                  \union {u \in Users : store[u] \in Grip(f)}
  BY <1>1 DEF Touch, Touches, Grip, Holds, NamesOf
<1>6. Touch(f) = NamesOf(req[f]) \union {heap[o].name : o \in Grip(f)}
                                 \union {u \in Users : store[u] \in Grip(f)}
  BY DEF Touch, Touches, Grip
<1> QED BY <1>4, <1>5, <1>6

LEMMA StillWorks ==
    ASSUME TypeInv, TypeInv', WorksInv, UNCHANGED <<store, req, at, user, alone, promised>>,
           \A o \in Live' : heap'[o] = heap[o]
    PROVE  WorksInv'
<1>1. \A f \in Handlers : Threat(f)' = Threat(f)
  BY DEF Threat
<1>2. \A f \in Handlers : Touch(f)' = Touch(f)
  BY TouchSame
<1>3. Apart'
  BY <1>2 DEF WorksInv, Apart
<1>4. Carries'
  <2> SUFFICES ASSUME NEW f \in Handlers, alone[f], at[f] = "add", req[f].pass # Omitted
               PROVE  heap'[user[f]].pass = Plain(req[f].pass)
    BY DEF Carries
  <2>1. user[f] # NoObj /\ user[f] \in Elems(user')
    BY DEF TypeInv, HandlersOK, PhaseOK, Elems
  <2>2. user[f] \in Live'
    BY <2>1 DEF Live, Elems
  <2> QED BY <2>2 DEF WorksInv, Carries
<1>5. ASSUME NEW u \in Users, NEW p, KeepsIn(u, p) PROVE KeepsIn(u, p)'
  <2>1. store[u] # NoObj /\ Matches(store[u], u, p)
    BY <1>5 DEF KeepsIn
  <2>2. store[u] \in Live'
    BY <2>1 DEF Live, Elems, TypeInv, StoreOK
  <2>3. store'[u] # NoObj /\ Matches(store[u], u, p)'
    BY <2>1, <2>2 DEF Matches
  <2> QED BY <1>1, <1>2, <1>5, <2>3 DEF KeepsIn
<1>6. Kept'
  BY <1>5 DEF WorksInv, Kept
<1> QED BY <1>3, <1>4, <1>6 DEF WorksInv

LEMMA ClientWorks ==
    ASSUME TypeInv, TypeInv', WorksInv, NEW c \in Clients,
           ClientStep(c) \/ \E login \in Logins[plugin][c] : Arrive(c, login)
    PROVE  WorksInv'
<1>1. UNCHANGED <<store, handlerVars>> /\ (Collect(heap) \/ UNCHANGED heap)
  BY DEF ClientStep, FindAll, CompareName, ComparePassword, AuthFindOrg, Forward, Arrive, storeVars
<1>2. UNCHANGED <<store, req, at, user, alone, promised>>
  BY <1>1 DEF handlerVars
<1>3. \A o \in Live' : heap'[o] = heap[o]
  BY <1>1 DEF Collect
<1> QED BY <1>2, <1>3, StillWorks

LEMMA InitWorks == Init => WorksInv
BY DEF Init, WorksInv, Apart, Carries, Kept

LEMMA NextWorks == TypeInv /\ TypeInv' /\ WorksInv /\ [Next]_vars => WorksInv'
<1> SUFFICES ASSUME TypeInv, TypeInv', WorksInv, [Next]_vars PROVE WorksInv'
  OBVIOUS
<1>1. CASE UNCHANGED vars
  <2>1. UNCHANGED <<store, req, at, user, alone, promised, heap>>
    BY <1>1 DEF vars, storeVars, handlerVars
  <2> QED BY <2>1, StillWorks
<1>2. ASSUME NEW h \in Handlers, HandlerStep(h) PROVE WorksInv'
  BY <1>2, CreateWorks, UpdateWorks, DecodeWorks, SaveWorks, OrgWorks, DeleteWorks
     DEF HandlerStep
<1> QED BY <1>1, <1>2, BeginWorks, ClientWorks DEF Next

\* A password that an admin request set, while no other request could change its user,
\* lets the user in until the next PUT or DELETE that may reach it: whatever requests with
\* the same name or with the same object begin later, are retried, or fail half-way.
\* (Create, Update and Delete of basic_auth and organization_auth.)
THEOREM AcceptedCorrect == Spec => []AcceptedWorks
BY InitTypes, NextTypes, InitWorks, NextWorks, WorksIsAccepted, PTL DEF Spec

----------------------------------------------------------------------------
(* A user that was deleted is not let in.                                  *)

\* A request that may store a user.
Writer(g) == at[g] # "idle" /\ req[g].op \in {"create", "update"}

\* No stored object has the name u, and no request may give it to one.
Absent(u) ==
    /\ \A v \in Users : store[v] # NoObj => heap[store[v]].name # u
    /\ \A g \in Handlers : Writer(g) => u \notin Touch(g)

\* The request c has yet to find a user with its name.
ShutOut(c) ==
    /\ auth[c].at \in {"list", "compare", "refused"}
    /\ \A o \in auth[c].list : heap[o].name # auth[c].name

OutInv ==
    /\ \A u \in gone : Absent(u)
    /\ \A c \in Clients : barred[c] => auth[c].name \in gone /\ ShutOut(c)

\* What a handler does to the users, and that it only takes away unless it is a writer.
LEMMA HandlerReach ==
    ASSUME TypeInv, NEW h \in Handlers, HandlerStep(h)
    PROVE  /\ Turn(h) /\ at[h] # "idle"
           /\ \E S, x, y, z, content :
                /\ Change(h, S, x, y, z, content) /\ Within(h, S, x, y, z, content)
                /\ Writer(h) \/ (x = NoObj /\ y = NoObj /\ z = NoObj /\ content = NoObj)
<1>1. \A y \in {NoObj, user[h]} : Quiet(h, y) =>
        Change(h, {}, NoObj, y, NoObj, NoObj) /\ Within(h, {}, NoObj, y, NoObj, NoObj)
  BY InGrip DEF Quiet, Within
<1>2. req[h].op \in {"create", "update", "delete"} => req[h].name \in NamesOf(req[h])
  BY RequestsAssumption DEF NamesOf, NoRequest, TypeInv, StoreOK, HandlersOK
<1>3. Fresh \notin Live /\ Fresh # NoObj
  BY SpareObject DEF TypeInv
<1>4. CASE CreateFind(h)
  <2>1. Writer(h) /\ (Answer(h) \/ \E call : GoOn(h, call))
    BY <1>4, CreateMoves DEF Writer, CreateFind
  <2>2. CASE Change(h, {}, NoObj, Fresh, Fresh, NewUser(h))
    <3>1. NewUser(h).name \in Touch(h)
      BY <1>2, <2>1, InTouch DEF NewUser, Writer
    <3>2. Within(h, {}, NoObj, Fresh, Fresh, NewUser(h))
      BY <1>3, <3>1 DEF Within
    <3> QED BY <2>1, <2>2, <3>2, TurnOfMove DEF Writer
  <2> QED BY <1>1, <1>4, <2>1, <2>2, CreateMoves, TurnOfMove DEF Writer
<1>5. CASE UpdateFind(h)
  <2> DEFINE o == store[req[h].name]
  <2>1. Writer(h) /\ (Answer(h) \/ \E call : GoOn(h, call))
    BY <1>5, UpdateMoves DEF Writer, UpdateFind
  <2>2. o # NoObj => o \in Grip(h) /\ heap[o].name \in Touch(h)
    BY <1>2, <2>1, InGrip, InTouch DEF Writer
  <2>3. CASE Change(h, {}, NoObj, Fresh, Fresh, heap[o]) /\ o # NoObj
    <3> HIDE DEF o
    <3>1. Within(h, {}, NoObj, Fresh, Fresh, heap[o])
      BY <1>3, <2>2, <2>3 DEF Within
    <3> QED BY <2>1, <2>3, <3>1, TurnOfMove DEF Writer
  <2>4. CASE Quiet(h, o) /\ o # NoObj
    <3> HIDE DEF o
    <3>1. Change(h, {}, NoObj, o, NoObj, NoObj) /\ Within(h, {}, NoObj, o, NoObj, NoObj)
      BY <2>2, <2>4 DEF Quiet, Within
    <3> QED BY <2>1, <3>1, TurnOfMove DEF Writer
  <2> QED BY <1>1, <1>5, <2>1, <2>3, <2>4, UpdateMoves, TurnOfMove DEF Writer
<1>6. CASE UpdateDecode(h)
  <2>1. Writer(h) /\ user[h] # NoObj /\ (Answer(h) \/ \E call : GoOn(h, call))
    BY <1>6, DecodeMoves DEF Writer, UpdateDecode, TypeInv, HandlersOK, PhaseOK
  <2>2. user[h] \in Grip(h)
    BY <2>1, InGrip
  <2>3. Decoded(h).name \in Touch(h)
    <3>1. heap[user[h]].name \in Touch(h)
      BY <2>2, InTouch
    <3>2. req[h].op = "update"
      BY <1>6 DEF UpdateDecode, TypeInv, HandlersOK, PhaseOK
    <3>3. req[h].rename # Omitted => req[h].rename \in NamesOf(req[h])
      BY <1>2, <2>1, <3>2, RequestsAssumption
         DEF NamesOf, Writer, TypeInv, StoreOK, HandlersOK, PhaseOK
    <3> QED BY <3>1, <3>3, InTouch DEF Decoded
  <2>4. \A y \in {user[h], NoObj} : Within(h, {}, NoObj, y, user[h], Decoded(h))
    BY <2>2, <2>3 DEF Within
  <2> QED BY <1>6, <2>1, <2>4, DecodeMoves, TurnOfMove DEF Writer
<1>7. CASE Save(h) \/ OrgCreateAdd(h)
  <2>1. /\ Writer(h) /\ user[h] # NoObj /\ (Answer(h) \/ \E call : GoOn(h, call))
        /\ \E y \in {user[h], NoObj} : Saved(h, y) \/ Quiet(h, y)
    BY <1>7, SaveMoves DEF Writer, TypeInv, HandlersOK, PhaseOK
  <2>2. ASSUME NEW y \in {user[h], NoObj}, Saved(h, y)
        PROVE  \E n, z : /\ Change(h, {n}, z, y, z, Hashed(user[h]))
                         /\ Within(h, {n}, z, y, z, Hashed(user[h]))
    BY <2>1, <2>2, SavedChange
  <2> QED BY <1>1, <2>1, <2>2, TurnOfMove DEF Writer
<1>8. CASE OrgFind(h) \/ OrgAdd(h)
  <2>1. /\ at[h] # "idle" /\ Quiet(h, NoObj)
        /\ GoOn(h, "findOrg") \/ GoOn(h, "addOrg") \/ Answer(h)
    BY <1>8, OrgMoves
  <2> QED BY <1>1, <2>1, TurnOfMove
<1>9. CASE DeleteUser(h)
  <2>1. /\ at[h] # "idle" /\ req[h].op = "delete" /\ (GoOn(h, "remove") \/ Answer(h))
        /\ Change(h, {req[h].name}, NoObj, NoObj, NoObj, NoObj) \/ Quiet(h, NoObj)
    BY <1>9, DeleteMoves DEF TypeInv, HandlersOK, PhaseOK
  <2>2. Within(h, {req[h].name}, NoObj, NoObj, NoObj, NoObj)
    BY <1>2, <2>1, InTouch DEF Within
  <2> QED BY <1>1, <2>1, <2>2, TurnOfMove
<1> QED BY <1>4, <1>5, <1>6, <1>7, <1>8, <1>9 DEF HandlerStep

\* A user that is absent stays so, and so does one that no object of a list is named.
LEMMA AbsentMoves ==
    ASSUME TypeInv, TypeInv', NEW g \in Handlers, Turn(g), at[g] # "idle",
           NEW S, NEW x, NEW y, NEW z, NEW content,
           Change(g, S, x, y, z, content), Within(g, S, x, y, z, content),
           Writer(g) \/ (x = NoObj /\ y = NoObj /\ z = NoObj /\ content = NoObj),
           NEW u, Absent(u)
    PROVE  /\ Absent(u)'
           /\ \A o \in Live' : heap[o].name # u /\ o \in Live => heap'[o].name # u
<1>1. NoObj \notin Live'
  BY DEF Live
<1>2. \A o \in Live' : heap'[o] = IF o = z THEN content ELSE heap[o]
  BY DEF Change
<1>3. Writer(g) => u \notin Touch(g)
  BY DEF Absent
<1>4. \A o \in Live' : o = z => heap'[o].name # u
  BY <1>1, <1>2, <1>3 DEF Within
<1>5. ASSUME NEW v \in Users, store'[v] # NoObj PROVE heap'[store'[v]].name # u
  <2>1. store'[v] \in Live' /\ store'[v] = IF v \in S THEN x ELSE store[v]
    BY <1>5 DEF Change, Puts, Live, Elems, TypeInv, StoreOK
  <2>2. CASE store'[v] = z
    BY <1>4, <2>1, <2>2
  <2>3. CASE store'[v] # z /\ v \in S
    <3>1. Writer(g) /\ x \in Grip(g)
      BY <1>5, <2>1, <2>3 DEF Within
    <3>2. heap[x].name \in Touch(g)
      BY <3>1, InTouch
    <3> QED BY <1>2, <1>3, <2>1, <2>3, <3>1, <3>2
  <2>4. CASE store'[v] # z /\ v \notin S
    BY <1>2, <1>5, <2>1, <2>4 DEF Absent
  <2> QED BY <2>2, <2>3, <2>4
<1>6. ASSUME NEW f \in Handlers, Writer(f)' PROVE u \notin Touch(f)'
  <2>1. CASE Writer(g)
    <3>1. Writer(f)
      BY <1>6, <2>1 DEF Writer, Turn
    <3>2. Touch(f)' \subseteq Touch(f) \union Touch(g)
      BY ReachSpreads
    <3> QED BY <1>3, <2>1, <3>1, <3>2 DEF Absent
  <2>2. CASE ~Writer(g)
    <3>1. f # g
      BY <1>6, <2>2 DEF Writer, Turn, NoRequest
    <3>2. Writer(f)
      BY <1>6, <3>1 DEF Writer, Turn
    <3>3. Touch(f)' \subseteq Touch(f)
      BY <2>2, <3>1, TouchShrinks
    <3> QED BY <3>2, <3>3 DEF Absent
  <2> QED BY <2>1, <2>2
<1> QED BY <1>2, <1>4, <1>5, <1>6 DEF Absent

\* A user that was deleted alone is absent.
LEMMA DeletedAbsent ==
    ASSUME TypeInv, TypeInv', WorksInv, NEW h \in Handlers, DeleteUser(h),
           gone' # gone
    PROVE  \E u : gone' = gone \union {u} /\ Absent(u)'
<1>0. PICK u : u = req[h].name
  OBVIOUS
<1>1. /\ Remove(h, "ok") /\ Answer(h) /\ alone[h] /\ ~StoredElsewhere(u) /\ at[h] = "remove"
      /\ gone' = gone \union {u} /\ UNCHANGED auth
  BY <1>0 DEF DeleteUser, Dismiss, clientVars
<1>2. u \in NamesOf(req[h]) /\ u \in Users /\ user[h] = NoObj
  BY <1>0, <1>1, RequestsAssumption DEF NamesOf, TypeInv, StoreOK, HandlersOK, PhaseOK
<1>3. Delete(h)
  BY <1>1 DEF Remove, OrganizationRemove, InMemoryRemove, MongoRemove, CassandraRemove
<1>4. Change(h, {u}, NoObj, NoObj, NoObj, NoObj)
  <2>1. Puts(h, {u}, NoObj, NoObj)
    BY <1>0, <1>1, <1>3 DEF Puts, Delete, Answer, TypeInv, StoreOK, HandlersOK
  <2> QED BY <1>3, <2>1, DropChange DEF Delete
<1>5. Turn(h) /\ at'[h] = "idle"
  BY <1>1, TurnOfMove
<1>6. ASSUME NEW v \in Users, store'[v] # NoObj PROVE heap'[store'[v]].name # u
  <2>1. v # u /\ store'[v] = store[v]
    BY <1>4, <1>6 DEF Change, Puts
  <2>2. store'[v] \in Live' /\ NoObj \notin Live'
    BY <1>6 DEF Live, Elems, TypeInv, StoreOK
  <2>3. heap'[store[v]] = heap[store[v]]
    BY <1>4, <2>1, <2>2 DEF Change
  <2> QED BY <1>1, <1>6, <2>1, <2>3 DEF StoredElsewhere
<1>7. ASSUME NEW f \in Handlers, Writer(f)' PROVE u \notin Touch(f)'
  <2>1. f # h
    BY <1>5, <1>7 DEF Writer
  <2>2. u \in Touch(h) /\ Touch(h) \intersect Touch(f) = {}
    BY <1>1, <1>2, <2>1, InTouch DEF WorksInv, Apart
  <2>3. Touch(f)' \subseteq Touch(f)
    BY <1>4, <1>5, <2>1, TouchShrinks
  <2> QED BY <2>2, <2>3
<1> QED BY <1>1, <1>6, <1>7 DEF Absent

\* A request whose own state does not change.
LEMMA StaysBarred ==
    ASSUME OutInv, Witness, NEW c \in Clients, auth'[c] = auth[c], barred'[c]
    PROVE  barred[c] /\ ShutOut(c) /\ auth'[c].name \in gone' /\ auth[c].name \in gone
BY DEF Witness, OutInv

LEMMA HandlerOut ==
    ASSUME TypeInv, TypeInv', WorksInv, OutInv, Witness, NEW h \in Handlers, HandlerStep(h)
    PROVE  OutInv'
<1>1. UNCHANGED auth
  BY HandlersLeaveRequests DEF clientVars
<1>2. Turn(h) /\ at[h] # "idle"
  BY HandlerReach
<1>3. PICK S, x, y, z, content :
           /\ Change(h, S, x, y, z, content) /\ Within(h, S, x, y, z, content)
           /\ Writer(h) \/ (x = NoObj /\ y = NoObj /\ z = NoObj /\ content = NoObj)
  BY HandlerReach
<1>4. \A u \in gone : Absent(u)' /\ \A o \in Live' :
                                      heap[o].name # u /\ o \in Live => heap'[o].name # u
  BY <1>2, <1>3, AbsentMoves DEF OutInv
<1>5. \A u \in gone' : Absent(u)'
  <2>1. CASE gone' = gone
    BY <1>4, <2>1
  <2>2. CASE gone' # gone
    <3>1. DeleteUser(h)
      BY <2>2 DEF HandlerStep, CreateFind, UpdateFind, UpdateDecode, Save, OrgCreateAdd,
                  OrgFind, OrgAdd
    <3> QED BY <1>4, <2>2, <3>1, DeletedAbsent
  <2> QED BY <2>1, <2>2
<1>6. ASSUME NEW c \in Clients, barred'[c] PROVE auth'[c].name \in gone' /\ ShutOut(c)'
  <2>1. ShutOut(c) /\ auth'[c].name \in gone' /\ auth[c].name \in gone
    BY <1>1, <1>6, StaysBarred
  <2>2. auth[c].list \subseteq Live /\ auth'[c].list \subseteq Live'
    BY DEF Live, TypeInv, ClientsOK, AuthType, Objs, NoObj
  <2> QED BY <1>1, <1>4, <2>1, <2>2 DEF ShutOut
<1> QED BY <1>5, <1>6 DEF OutInv

LEMMA BeginOut ==
    ASSUME TypeInv, OutInv, Witness, NEW h \in Handlers, NEW q \in Requests[plugin],
           Begin(h, q)
    PROVE  OutInv'
<1>1. UNCHANGED <<store, heap, user, auth>> /\ user[h] = NoObj
  BY DEF Begin, storeVars, clientVars, TypeInv, HandlersOK, PhaseOK
<1>2. gone' \subseteq gone
  BY DEF Begin
<1>3. \A u \in gone' : Absent(u)'
  <2>1. CASE UNCHANGED <<req, at>>
    <3>1. \A f \in Handlers : Touch(f)' = Touch(f) /\ Writer(f)' = Writer(f)
      BY <1>1, <2>1 DEF Touch, Touches, Holds, NamesOf, Writer
    <3> QED BY <1>1, <1>2, <3>1 DEF OutInv, Absent
  <2>2. CASE Installed
    <3>1. /\ req' = [req EXCEPT ![h] = q]
          /\ \A f \in Handlers \ {h} : at'[f] = at[f]
          /\ q.op \in {"create", "update"} => gone' = gone \ Touches(q, NoObj)
      BY <2>2 DEF Begin, TypeInv, HandlersOK
    <3>2. req'[h] = q /\ \A f \in Handlers \ {h} : req'[f] = req[f]
      BY <3>1 DEF TypeInv, HandlersOK
    <3>3. \A f \in Handlers \ {h} : Touch(f)' = Touch(f) /\ Writer(f)' = Writer(f)
      BY <1>1, <3>1, <3>2 DEF Touch, Touches, Holds, NamesOf, Writer
    <3>4. Touch(h)' = Touches(q, NoObj)
      BY <1>1, <3>2 DEF Touch, Touches, Holds, NamesOf
    <3>5. Writer(h)' => q.op \in {"create", "update"}
      BY <3>2 DEF Writer
    <3> QED BY <1>1, <1>2, <3>1, <3>3, <3>4, <3>5 DEF OutInv, Absent
  <2> QED BY <2>1, <2>2 DEF Begin
<1>4. ASSUME NEW c \in Clients, barred'[c] PROVE auth'[c].name \in gone' /\ ShutOut(c)'
  BY <1>1, <1>4, StaysBarred DEF ShutOut
<1> QED BY <1>3, <1>4 DEF OutInv

----------------------------------------------------------------------------
(* The requests that are barred.                                           *)

LEMMA StepKeeps ==
    ASSUME TypeInv, NEW c \in Clients, NEW changes, Step(c, changes)
    PROVE  /\ \A d \in Clients \ {c} : auth'[d] = auth[d]
           /\ \A f \in {"at", "name", "list"} :
                auth'[c][f] = IF f \in DOMAIN changes THEN changes[f] ELSE auth[c][f]
<1>1. auth \in [Clients -> AuthType]
  BY DEF TypeInv, ClientsOK
<1>2. {"at", "name", "list"} \subseteq DOMAIN auth[c]
  BY <1>1 DEF AuthType
<1>3. auth'[c] = [f \in DOMAIN auth[c] |->
                    IF f \in DOMAIN changes THEN changes[f] ELSE auth[c][f]]
  BY <1>1 DEF Step
<1>4. \A d \in Clients \ {c} : auth'[d] = auth[d]
  BY <1>1 DEF Step
<1> QED BY <1>2, <1>3, <1>4

LEMMA StopShutsOut ==
    ASSUME TypeInv, NEW c \in Clients, Stop(c, "refused")
    PROVE  ShutOut(c)' /\ auth'[c].name = auth[c].name
BY StepKeeps DEF Stop, ShutOut

LEMMA JudgeShutsOut ==
    ASSUME TypeInv, NEW c \in Clients, Absent(auth[c].name),
           Judge(c, Elems(store) \ {NoObj})
    PROVE  ShutOut(c)' /\ auth'[c].name = auth[c].name
<1>1. \A o \in Elems(store) \ {NoObj} : ~Right(c, o)
  BY DEF Absent, Right, Matches, Elems, TypeInv, StoreOK
<1> QED BY <1>1, StopShutsOut DEF Judge

\* A request whose user is absent finds none with its name.
LEMMA ClientShutsOut ==
    ASSUME TypeInv, NEW c \in Clients, ClientStep(c), Absent(auth[c].name), ShutOut(c)
    PROVE  ShutOut(c)' /\ auth'[c].name = auth[c].name
<1>1. CASE FindAll(c)
  <2>1. CASE InMemoryFindAll(c)
    <3> DEFINE changes == [at |-> "compare", list |-> Elems(store) \ {NoObj}]
    <3>1. Step(c, changes) /\ UNCHANGED heap
      BY <1>1, <2>1 DEF InMemoryFindAll, FindAll, storeVars
    <3>2. /\ "at" \in DOMAIN changes /\ changes.at = "compare"
          /\ "list" \in DOMAIN changes /\ changes.list = Elems(store) \ {NoObj}
          /\ "name" \notin DOMAIN changes
      OBVIOUS
    <3> HIDE DEF changes
    <3>3. /\ auth'[c].at = "compare" /\ auth'[c].list = Elems(store) \ {NoObj}
          /\ auth'[c].name = auth[c].name
      BY <3>1, <3>2, StepKeeps
    <3> QED BY <3>1, <3>3 DEF ShutOut, Absent, Elems, TypeInv, StoreOK
  <2>2. CASE MongoFindAll(c)
    BY <2>2, JudgeShutsOut, StopShutsOut DEF MongoFindAll
  <2>3. CASE CassandraFindAll(c)
    <3>1. CASE UNCHANGED clientVars
      BY <1>1, <3>1 DEF clientVars, FindAll, storeVars, ShutOut
    <3> QED BY <2>3, <3>1, JudgeShutsOut, StopShutsOut DEF CassandraFindAll
  <2> QED BY <1>1, <2>1, <2>2, <2>3 DEF FindAll
<1>2. CASE CompareName(c)
  <2>1. CASE Stop(c, "refused")
    BY <2>1, StopShutsOut
  <2>2. ASSUME NEW o \in auth[c].list, Step(c, [list |-> auth[c].list \ {o}]), Collect(heap)
        PROVE  ShutOut(c)' /\ auth'[c].name = auth[c].name
    <3> DEFINE changes == [list |-> auth[c].list \ {o}]
    <3>1. Step(c, changes)
      BY <2>2
    <3>2. /\ "list" \in DOMAIN changes /\ changes.list = auth[c].list \ {o}
          /\ "at" \notin DOMAIN changes /\ "name" \notin DOMAIN changes
      OBVIOUS
    <3> HIDE DEF changes
    <3>3. /\ auth'[c].at = auth[c].at /\ auth'[c].list = auth[c].list \ {o}
          /\ auth'[c].name = auth[c].name
      BY <3>1, <3>2, StepKeeps
    <3>4. auth'[c].list \subseteq Live'
      BY <3>3 DEF Live, TypeInv, ClientsOK, AuthType, Objs, NoObj
    <3> QED BY <2>2, <3>3, <3>4 DEF ShutOut, Collect
  <2>3. ~\E o \in auth[c].list : heap[o].name = auth[c].name
    BY DEF ShutOut
  <2> QED BY <1>2, <2>1, <2>2, <2>3 DEF CompareName
<1> QED BY <1>1, <1>2 DEF ClientStep, ComparePassword, AuthFindOrg, Forward, ShutOut

LEMMA ArriveShutsOut ==
    ASSUME TypeInv, NEW c \in Clients, NEW login, Arrive(c, login), Installed
    PROVE  ShutOut(c)'
<1> DEFINE changes == [at |-> IF Installed THEN "list" ELSE "forwarded",
                       name |-> login.name, pass |-> login.pass]
<1>1. Step(c, changes) /\ auth[c].list = {}
  BY DEF Arrive, TypeInv, ClientsOK, ListOK
<1>2. "at" \in DOMAIN changes /\ changes.at = "list" /\ "list" \notin DOMAIN changes
  OBVIOUS
<1> HIDE DEF changes
<1> QED BY <1>1, <1>2, StepKeeps DEF ShutOut

LEMMA ClientOut ==
    ASSUME TypeInv, TypeInv', OutInv, Witness, NEW c \in Clients,
           ClientStep(c) \/ \E login \in Logins[plugin][c] : Arrive(c, login)
    PROVE  OutInv'
<1>1. UNCHANGED <<store, handlerVars>> /\ (Collect(heap) \/ UNCHANGED heap)
  BY DEF ClientStep, FindAll, CompareName, ComparePassword, AuthFindOrg, Forward, Arrive,
         storeVars
<1>2. UNCHANGED <<store, req, at, user, alone, gone>> /\ \A o \in Live' : heap'[o] = heap[o]
  BY <1>1 DEF handlerVars, Collect
<1>3. \A u \in gone' : Absent(u)'
  <2>1. \A f \in Handlers : Touch(f)' = Touch(f) /\ Writer(f)' = Writer(f)
    BY <1>2, TouchSame DEF Writer
  <2>2. \A v \in Users : store[v] # NoObj => store[v] \in Live'
    BY <1>2 DEF Live, Elems, TypeInv, StoreOK
  <2> QED BY <1>2, <2>1, <2>2 DEF OutInv, Absent
<1>4. ASSUME NEW d \in Clients \ {c}, barred'[d] PROVE auth'[d].name \in gone' /\ ShutOut(d)'
  <2>1. auth'[d] = auth[d]
    BY StepKeeps DEF ClientStep, FindAll, InMemoryFindAll, MongoFindAll, CassandraFindAll,
       CompareName, ComparePassword, AuthFindOrg, Forward, Arrive, Judge, LetIn, Stop,
       clientVars
  <2>2. ShutOut(d) /\ auth'[d].name \in gone'
    BY <1>4, <2>1, StaysBarred
  <2>3. auth'[d].list \subseteq Live'
    BY <2>1 DEF Live, TypeInv, ClientsOK, AuthType, Objs, NoObj
  <2> QED BY <1>2, <2>1, <2>2, <2>3 DEF ShutOut
<1>5. ASSUME barred'[c] PROVE auth'[c].name \in gone' /\ ShutOut(c)'
  <2>1. auth'[c].name \in gone' /\ (auth[c].at = "idle" => Installed)
        /\ (auth[c].at # "idle" => barred[c])
    BY <1>5 DEF Witness
  <2>2. CASE ClientStep(c)
    <3>1. auth[c].at # "idle"
      BY <2>2 DEF ClientStep, FindAll, CompareName, ComparePassword, AuthFindOrg, Forward
    <3>2. Absent(auth[c].name) /\ ShutOut(c)
      BY <2>1, <3>1 DEF OutInv
    <3> QED BY <2>1, <2>2, <3>2, ClientShutsOut
  <2>3. ASSUME NEW login, Arrive(c, login) PROVE ShutOut(c)'
    BY <2>1, <2>3, ArriveShutsOut DEF Arrive
  <2> QED BY <2>1, <2>2, <2>3
<1> QED BY <1>3, <1>4, <1>5 DEF OutInv

LEMMA InitOut == Init => OutInv
BY DEF Init, OutInv

LEMMA NextOut == TypeInv /\ TypeInv' /\ WorksInv /\ OutInv /\ [Next]_vars => OutInv'
<1> SUFFICES ASSUME TypeInv, TypeInv', WorksInv, OutInv, [Next]_vars PROVE OutInv'
  OBVIOUS
<1>1. CASE UNCHANGED vars
  <2>1. UNCHANGED <<store, req, at, user, alone, heap, auth, gone, barred>>
    BY <1>1 DEF vars, storeVars, handlerVars, clientVars
  <2>2. \A f \in Handlers : Touch(f)' = Touch(f) /\ Writer(f)' = Writer(f)
    BY <2>1, TouchSame DEF Writer
  <2> QED BY <2>1, <2>2 DEF OutInv, Absent, ShutOut
<1> QED BY <1>1, HandlerOut, BeginOut, ClientOut DEF Next

\* A user whose DELETE was answered, while no other request could change it, is not let in
\* by a request that arrives afterwards: whatever retries are late and whatever requests for
\* other users rename, share and store the objects, until a POST or a PUT that may add the
\* user begins.  (Update and Delete of basic_auth and organization_auth, their
\* repositories, and the loops of their middlewares.)
THEOREM DeletedCorrect == Spec => []DeletedStaysOut
<1>1. OutInv => DeletedStaysOut
  BY DEF OutInv, ShutOut, DeletedStaysOut
<1> QED BY <1>1, InitTypes, NextTypes, InitWorks, NextWorks, InitOut, NextOut, PTL DEF Spec

=============================================================================
