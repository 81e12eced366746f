------------------------------ MODULE HotReload ------------------------------
(***************************************************************************)
(* How an instance of the gateway keeps three things in step: the          *)
(* definitions in its memory, those in the datastore it shares with other  *)
(* instances, and the router that serves requests.                         *)
(*                                                                         *)
(* Requests of the admin API (pkg/web/api_handler.go) read the memory and  *)
(* send a message to the admin loop (pkg/server/server.go, startProvider), *)
(* which changes the memory, rebuilds the router and passes the message on *)
(* to the listener of the repository, which writes it to the datastore.    *)
(* The watcher of the repository reads the datastore at every tick, and    *)
(* the provider loop (listenProviders) replaces the memory by what it read *)
(* and rebuilds the router too.  Definitions are pointers: the handlers,   *)
(* the loops and the memory share the objects of one heap.                 *)
(***************************************************************************)
EXTENDS Integers, Sequences, FiniteSets, SequencesExt

CONSTANTS
    Names,        \* names of definitions, naturals: the datastore sorts by name
    Paths,        \* listen paths that are valid
    Initials,     \* what the datastore may hold when the process starts
    Bodies,       \* the definitions that POST requests carry
    Updates,      \* the definitions that PUT requests carry, valid or not
    Handlers,     \* goroutines that serve admin requests
    Objs,         \* identities of definition objects, naturals
    Persistent,   \* TRUE for mongodb and cassandra, FALSE for the repository in memory
    ChanMax,      \* capacity of configurationChan, 100 in the code
    MaxOps,       \* bound on accepted or started admin requests
    MaxElsewhere, \* bound on the writes of other instances to the datastore
    MaxFaults     \* bound on failed writes to the datastore

NoPath == "no path"
NoName == 0
NoObj == 0
NoRouter == 0

ASSUME NamesAssumption == Names \subseteq Nat \ {NoName} /\ IsFiniteSet(Names)
ASSUME PathsAssumption == NoPath \notin Paths
ASSUME InitialsAssumption == Initials \subseteq [Names -> Paths \union {NoPath}]
ASSUME RequestsAssumption ==
    \A c \in Bodies \union Updates : c \in [name : Names, path : {c.path}]
ASSUME ObjsAssumption ==
    /\ Objs \subseteq Nat \ {NoObj} /\ IsFiniteSet(Objs)
    /\ 1 .. Cardinality(Names) \subseteq Objs
ASSUME PersistentAssumption == Persistent \in BOOLEAN
ASSUME BoundsAssumption ==
    ChanMax \in Nat \ {0} /\ MaxOps \in Nat /\ MaxElsewhere \in Nat /\ MaxFaults \in Nat

\* Every path that a definition may have at some time.
AllPaths == Paths \union {c.path : c \in Updates}

Contents == [name : Names, path : AllPaths]

\* The two goroutines that rebuild the router, and the routers that can be in use.
Loops == {"admin", "provider"}
Routers == 1 .. 4

VARIABLES
    db,        \* db[n]: listen path of the definition n in the datastore, or NoPath
    defs,      \* s.currentConfigurations.Definitions, a sequence of objects
    heap,      \* heap[o]: the content of the live object o
    req,       \* req[h]: the admin request that goroutine h serves
    msg,       \* the message the admin loop works on
    base,      \* the definitions updateConfigurations read before it changes them
    pc,        \* pc[l]: where the loop l is
    todo,      \* todo[l]: objects that RegisterAPIs of l has still to register
    mine,      \* mine[l]: the router that handleEvent of l created
    target,    \* s.register.router
    served,    \* s.server.Handler
    routes,    \* routes[r]: what router r serves, the name behind each listen path
    stored,    \* the message the listener of the repository works on
    changes,   \* configurationChan
    expected,  \* expected[n]: the path the last accepted request wants for n
    crashed,   \* the process died of a panic
    ops, elsewhere, faults

memoryVars == <<defs, req, msg, base>>
routerVars == <<todo, mine, target, served, routes>>
storeVars == <<db, expected>>
countVars == <<ops, elsewhere, faults>>
vars == <<memoryVars, routerVars, storeVars, countVars, heap, pc, stored, changes, crashed>>

Idle == [op |-> "none", obj |-> NoObj]

\* Requests wait for their body ("put") or for the admin loop (the operations); the
\* listener holds a message whose definition it found "valid".
Requests ==
    [op : {"none", "put", "added", "updated", "removed", "valid"}, obj : Objs \union {NoObj}]

Elems(s) == {s[k] : k \in DOMAIN s}

\* The objects that some goroutine or the memory can reach.
Live ==
    (Elems(defs) \union Elems(base) \union {msg.obj, stored.obj}
       \union {req[h].obj : h \in Handlers} \union UNION {Elems(todo[l]) : l \in Loops})
    \ {NoObj}

\* The garbage collector: what nothing reaches is gone.
Collect(h) == heap' = [o \in Live' |-> h[o]]

InUse == ({served, target} \union {mine[l] : l \in Loops}) \ {NoRouter}

Valid(c) == c.path \in Paths

Least(S) == CHOOSE x \in S : \A y \in S : x <= y

Greatest(S) == CHOOSE x \in S : \A y \in S : y <= x

\* The elements of a set of naturals in their order.
Place(S, x) == Cardinality({y \in S : y <= x})

Nth(S, k) == CHOOSE x \in S : Place(S, x) = k

Fresh == Least(Objs \ Live)

EmptyRouter == [p \in Paths |-> NoName]

TypeOK ==
    /\ db \in [Names -> AllPaths \union {NoPath}]
    /\ defs \in Seq(Objs)
    /\ DOMAIN heap = Live
    /\ \A o \in Live : heap[o] \in Contents
    /\ req \in [Handlers -> Requests]
    /\ msg \in Requests /\ stored \in Requests
    /\ base \in Seq(Objs)
    /\ pc \in [Loops -> {"idle", "write", "begin", "register", "store"}]
    /\ todo \in [Loops -> Seq(Objs)]
    /\ mine \in [Loops -> Routers \union {NoRouter}]
    /\ target \in Routers /\ served \in Routers
    /\ DOMAIN routes = InUse
    /\ \A r \in InUse : routes[r] \in [Paths -> Names \union {NoName}]
    /\ changes \in Seq(Seq(Contents)) /\ Len(changes) <= ChanMax
    /\ expected \in [Names -> AllPaths \union {NoPath, "unknown"}]
    /\ crashed \in BOOLEAN
    /\ ops \in 0 .. MaxOps /\ elsewhere \in 0 .. MaxElsewhere /\ faults \in 0 .. MaxFaults

Sorted(store) ==
    LET held == {n \in Names : store[n] # NoPath}
    IN  [k \in 1 .. Cardinality(held) |->
            [name |-> Nth(held, k), path |-> store[Nth(held, k)]]]

\* The definition that is registered last has the path.
RouterOf(s) ==
    [p \in Paths |-> LET at == {k \in DOMAIN s : s[k].path = p}
                     IN  IF at = {} THEN NoName ELSE s[Greatest(at)].name]

\* StartWithContext has loaded the datastore and registered what it found.
Init ==
    /\ db \in Initials
    /\ defs = [k \in DOMAIN Sorted(db) |-> k]
    /\ heap = Sorted(db)
    /\ req = [h \in Handlers |-> Idle]
    /\ msg = Idle /\ base = <<>> /\ stored = Idle
    /\ pc = [l \in Loops |-> "idle"]
    /\ todo = [l \in Loops |-> <<>>]
    /\ mine = [l \in Loops |-> NoRouter]
    /\ target = 1 /\ served = 1 /\ routes = [r \in {1} |-> RouterOf(Sorted(db))]
    /\ changes = <<>>
    /\ expected = db
    /\ crashed = FALSE
    /\ ops = 0 /\ elsewhere = 0 /\ faults = 0

----------------------------------------------------------------------------
(* Requests of the admin API.                                              *)

Named(n) == {k \in DOMAIN defs : heap[defs[k]].name = n}

At(p) == {k \in DOMAIN defs : heap[defs[k]].path = p}

Exists(c) == Named(c.name) # {} \/ At(c.path) # {}

\* A request that is refused leaves no trace, unless it is a PUT (below).
Post(h, c) ==
    /\ req[h] = Idle
    /\ ops < MaxOps /\ ops' = ops + 1
    /\ Valid(c)
    /\ ~Exists(c)
    /\ Objs \ Live # {}
    /\ req' = [req EXCEPT ![h] = [op |-> "added", obj |-> Fresh]]
    /\ UNCHANGED <<defs, msg, base, routerVars, storeVars, elsewhere, faults, pc, stored,
                   changes, crashed>>
    /\ Collect([o \in Live \union {Fresh} |-> IF o = Fresh THEN c ELSE heap[o]])

Delete(h, n) ==
    /\ req[h] = Idle
    /\ ops < MaxOps /\ ops' = ops + 1
    /\ Named(n) # {}
    /\ req' = [req EXCEPT ![h] = [op |-> "removed", obj |-> defs[Least(Named(n))]]]
    /\ UNCHANGED <<defs, msg, base, routerVars, storeVars, elsewhere, faults, pc, stored,
                   changes, crashed, heap>>

\* PutBy finds the object, and then reads the body of the request.
Put(h, n) ==
    /\ Updates # {}
    /\ req[h] = Idle
    /\ ops < MaxOps /\ ops' = ops + 1
    /\ Named(n) # {}
    /\ req' = [req EXCEPT ![h] = [op |-> "put", obj |-> defs[Least(Named(n))]]]
    /\ UNCHANGED <<defs, msg, base, routerVars, storeVars, elsewhere, faults, pc, stored,
                   changes, crashed, heap>>

\* The body is decoded into the shared object before it is validated, and a request that
\* is refused does not undo that.  A change of the same object that is on its way to the
\* datastore is then written as the body says, or dropped: what was accepted is lost when
\* the body is refused or names another definition.
PutBody(h, c) ==
    LET o == req[h].obj
        old == heap[o]
        written == [heap EXCEPT ![o] = c]
        atPath == {k \in DOMAIN defs : written[defs[k]].path = c.path}
        refused == ~Valid(c) \/ (atPath # {} /\ written[defs[Least(atPath)]].name # c.name)
        lost == o \in {msg.obj, stored.obj} /\ (refused \/ c.name # old.name)
    IN
    /\ req[h].op = "put"
    /\ req' = [req EXCEPT ![h] = IF refused THEN Idle ELSE [op |-> "updated", obj |-> o]]
    /\ expected' = [n \in Names |-> IF lost /\ n \in {old.name, c.name} THEN "unknown"
                                                                       ELSE expected[n]]
    /\ UNCHANGED <<defs, msg, base, routerVars, db, countVars, pc, stored, changes, crashed>>
    /\ Collect(written)

----------------------------------------------------------------------------
(* The admin loop: updateConfigurations.                                   *)

\* The request is answered while its change is still to be made.
Receive(h) ==
    LET c == heap[req[h].obj] IN
    /\ pc["admin"] = "idle"
    /\ req[h].op \in {"added", "updated", "removed"}
    /\ msg' = req[h]
    /\ req' = [req EXCEPT ![h] = Idle]
    /\ base' = defs
    /\ pc' = [pc EXCEPT !["admin"] = "write"]
    /\ expected' = [expected EXCEPT ![c.name] = IF req[h].op = "removed" THEN NoPath
                      ELSE IF Valid(c) THEN c.path ELSE "unknown"]
    /\ UNCHANGED <<defs, routerVars, db, countVars, heap, stored, changes, crashed>>

\* The loop of RemovedOperation ranges over the slice as it was, while it shifts the
\* elements of the array below it and cuts the slice shorter.

\* Mutant of Shifted: the definition that is removed stays.
ShiftedLate(st, i) ==
    [k \in DOMAIN st.array |-> st.array[IF k > i /\ k < st.len THEN k + 1 ELSE k]]

Shifted(st, i) ==
    [k \in DOMAIN st.array |-> st.array[IF k >= i /\ k < st.len THEN k + 1 ELSE k]]

Turn(st, i, n) ==
    IF st.ok /\ heap[st.array[i]].name = n
      THEN [array |-> Shifted(st, i), len |-> st.len - 1, ok |-> i <= st.len]
      ELSE st

Turns(s, n) ==
    LET after[i \in 0 .. Len(s)] ==
            IF i = 0 THEN [array |-> s, len |-> Len(s), ok |-> TRUE]
            ELSE Turn(after[i - 1], i, n)
    IN  after

Removal(s, n) == Turns(s, n)[Len(s)]

Replaced(s, o) == [k \in DOMAIN s |-> IF heap[s[k]].name = heap[o].name THEN o ELSE s[k]]

Write ==
    LET gone == Removal(base, heap[msg.obj].name) IN
    /\ pc["admin"] = "write"
    /\ CASE msg.op = "added" -> defs' = Append(base, msg.obj) /\ crashed' = crashed
         [] msg.op = "updated" -> defs' = Replaced(base, msg.obj) /\ crashed' = crashed
         [] msg.op = "removed" ->
              /\ defs' = IF gone.ok THEN SubSeq(gone.array, 1, gone.len) ELSE base
              /\ crashed' = ~gone.ok
    /\ base' = <<>>
    /\ pc' = [pc EXCEPT !["admin"] = "begin"]
    /\ UNCHANGED <<req, msg, routerVars, storeVars, countVars, stored, changes>>
    /\ Collect(heap)

----------------------------------------------------------------------------
(* handleEvent, run by both loops.                                         *)

\* The admin loop registers what the memory holds now, the provider loop its snapshot.

\* Mutant of Begin: a loop does not rebuild the router while the other one is about to.
BeginAlone(l) ==
    LET r == Least(Routers \ InUse) IN
    /\ pc[l] = "begin"
    /\ \A k \in Loops \ {l} : pc[k] \notin {"begin", "register"}
    /\ mine' = [mine EXCEPT ![l] = r]
    /\ target' = r
    /\ todo' = [todo EXCEPT ![l] = IF l = "admin" THEN defs ELSE @]
    /\ pc' = [pc EXCEPT ![l] = "register"]
    /\ UNCHANGED <<memoryVars, served, storeVars, countVars, stored, changes, crashed, heap>>
    /\ routes' = [q \in InUse' |-> IF q = r THEN EmptyRouter ELSE routes[q]]

Begin(l) ==
    LET r == Least(Routers \ InUse) IN
    /\ pc[l] = "begin"
    /\ mine' = [mine EXCEPT ![l] = r]
    /\ target' = r
    /\ todo' = [todo EXCEPT ![l] = IF l = "admin" THEN defs ELSE @]
    /\ pc' = [pc EXCEPT ![l] = "register"]
    /\ UNCHANGED <<memoryVars, served, storeVars, countVars, stored, changes, crashed, heap>>
    /\ routes' = [q \in InUse' |-> IF q = r THEN EmptyRouter ELSE routes[q]]

\* A definition goes to the router the register holds now, whoever created that.
RegisterAPI(l) ==
    LET c == heap[Head(todo[l])] IN
    /\ pc[l] = "register"
    /\ todo[l] # <<>>
    /\ todo' = [todo EXCEPT ![l] = Tail(@)]
    /\ routes' = IF Valid(c) THEN [routes EXCEPT ![target][c.path] = c.name] ELSE routes
    /\ UNCHANGED <<memoryVars, mine, target, served, storeVars, countVars, pc, stored, changes,
                   crashed>>
    /\ Collect(heap)

Publish(l) ==
    /\ pc[l] = "register"
    /\ todo[l] = <<>>
    /\ served' = mine[l]
    /\ mine' = [mine EXCEPT ![l] = NoRouter]
    /\ pc' = [pc EXCEPT ![l] = IF l = "admin" /\ Persistent THEN "store" ELSE "idle"]
    /\ msg' = IF l = "admin" /\ ~Persistent THEN Idle ELSE msg
    /\ UNCHANGED <<defs, req, base, todo, target, storeVars, countVars, stored, changes, crashed>>
    /\ routes' = [q \in InUse' |-> routes[q]]
    /\ Collect(heap)

----------------------------------------------------------------------------
(* The listener of the repository.                                         *)

\* Mutant of HandOver: the loop does not wait for a listener that is busy.
HandOverOrDrop ==
    /\ pc["admin"] = "store"
    /\ stored' = IF stored = Idle THEN msg ELSE stored
    /\ msg' = Idle
    /\ pc' = [pc EXCEPT !["admin"] = "idle"]
    /\ UNCHANGED <<defs, req, base, routerVars, storeVars, countVars, changes, crashed>>
    /\ Collect(heap)

HandOver ==
    /\ pc["admin"] = "store"
    /\ stored = Idle
    /\ stored' = msg
    /\ msg' = Idle
    /\ pc' = [pc EXCEPT !["admin"] = "idle"]
    /\ UNCHANGED <<defs, req, base, routerVars, storeVars, countVars, changes, crashed, heap>>

\* add validates the definition as it is by now.
Validate ==
    /\ stored.op \in {"added", "updated"}
    /\ stored' = IF Valid(heap[stored.obj]) THEN [stored EXCEPT !.op = "valid"] ELSE Idle
    /\ UNCHANGED <<memoryVars, routerVars, storeVars, countVars, pc, changes, crashed>>
    /\ Collect(heap)

\* Then it writes what the definition is now.  A write that fails is only logged.
Store ==
    LET c == heap[stored.obj] IN
    /\ stored.op \in {"valid", "removed"}
    /\ \/ /\ db' = [db EXCEPT ![c.name] = IF stored.op = "removed" THEN NoPath ELSE c.path]
          /\ UNCHANGED <<expected, faults>>
       \/ /\ faults < MaxFaults /\ faults' = faults + 1
          /\ expected' = [expected EXCEPT ![c.name] = "unknown"]
          /\ UNCHANGED db
    /\ stored' = Idle
    /\ UNCHANGED <<memoryVars, routerVars, ops, elsewhere, pc, changes, crashed>>
    /\ Collect(heap)

----------------------------------------------------------------------------
(* The watcher of the repository and the provider loop.                    *)

Snapshot == Sorted(db)

\* Another instance, or somebody, changes the datastore.
Elsewhere(n, p) ==
    /\ Persistent
    /\ elsewhere < MaxElsewhere /\ elsewhere' = elsewhere + 1
    /\ db' = [db EXCEPT ![n] = p]
    /\ expected' = [expected EXCEPT ![n] = "unknown"]
    /\ UNCHANGED <<memoryVars, routerVars, ops, faults, heap, pc, stored, changes, crashed>>

\* Mutant of Tick: the watcher does not wait when the channel is full.
TickOn ==
    /\ Persistent
    /\ changes' = Append(changes, Snapshot)
    /\ UNCHANGED <<memoryVars, routerVars, storeVars, countVars, heap, pc, stored, crashed>>

Tick ==
    /\ Persistent
    /\ Len(changes) < ChanMax
    /\ changes' = Append(changes, Snapshot)
    /\ UNCHANGED <<memoryVars, routerVars, storeVars, countVars, heap, pc, stored, crashed>>

Loaded == [k \in DOMAIN defs |-> heap[defs[k]]]

\* Mutant of EqualsTo: two configurations of the same definitions are the same.
EqualNames(s, t) == {c.name : c \in Elems(s)} = {c.name : c \in Elems(t)}

EqualsTo(s, t) == s = t

\* The definitions of a snapshot are objects of their own.
Watch ==
    LET new == Head(changes)
        free == Objs \ Live
        objs == [k \in DOMAIN new |-> Nth(free, k)]
    IN
    /\ pc["provider"] = "idle"
    /\ changes # <<>>
    /\ changes' = Tail(changes)
    /\ Len(new) <= Cardinality(free)
    /\ UNCHANGED <<req, msg, base, mine, target, served, routes, storeVars, countVars, stored,
                   crashed>>
    /\ \/ EqualsTo(Loaded, new) /\ UNCHANGED <<defs, todo, pc, heap>>
       \/ /\ ~EqualsTo(Loaded, new)
          /\ defs' = objs
          /\ todo' = [todo EXCEPT !["provider"] = objs]
          /\ pc' = [pc EXCEPT !["provider"] = "begin"]
          /\ heap' = [o \in Live' |-> IF o \in Elems(objs) THEN new[Place(free, o)] ELSE heap[o]]

----------------------------------------------------------------------------
Admin(h) ==
    \/ \E c \in Bodies : Post(h, c)
    \/ \E n \in Names : Delete(h, n) \/ Put(h, n)
    \/ \E c \in Updates : PutBody(h, c)
    \/ Receive(h)

Reload(l) == Begin(l) \/ RegisterAPI(l) \/ Publish(l)

Next ==
    /\ ~crashed
    /\ \/ \E h \in Handlers : Admin(h)
       \/ Write
       \/ \E l \in Loops : Reload(l)
       \/ HandOver
       \/ Validate
       \/ Store
       \/ \E n \in Names, p \in Paths \union {NoPath} : Elsewhere(n, p)
       \/ Tick
       \/ Watch

Spec == Init /\ [][Next]_vars

(***************************************************************************)
(* The two loops, the listener and the watcher are goroutines that run on, *)
(* and the admin loop picks some request when there is one that waits.     *)
(* Nobody has to send requests, and a client may hold back the body of a   *)
(* PUT for ever.                                                           *)
(***************************************************************************)
AdminLoop == (\E h \in Handlers : Receive(h)) \/ Write \/ Reload("admin") \/ HandOver

ProviderLoop == Watch \/ Reload("provider")

Listener == Validate \/ Store

Fairness ==
    /\ WF_vars(~crashed /\ AdminLoop)
    /\ WF_vars(~crashed /\ ProviderLoop)
    /\ WF_vars(~crashed /\ Listener)
    /\ WF_vars(~crashed /\ Tick)

FairSpec == Spec /\ Fairness

----------------------------------------------------------------------------
(* Properties.                                                             *)

Repeats(s) == \E j, k \in DOMAIN s : j # k /\ heap[s[j]].name = heap[s[k]].name

Removes ==
    pc["admin"] = "write" /\ pc'["admin"] = "begin" /\ msg.op = "removed" /\ ~Repeats(base)
      => /\ ~crashed'
         /\ LET at == {k \in DOMAIN base : heap[base[k]].name = heap[msg.obj].name}
            IN  defs' = IF at = {} THEN base ELSE RemoveAt(base, Least(at))

\* A DELETE takes out the definition of that name and leaves the others in their order, and
\* the process does not panic, if only the names in memory do not repeat.
\* (updateConfigurations, which shifts and cuts the slice that its loop ranges over.)
DeleteRemoves == [][Removes]_vars

\* A request is answered some time, whatever the loop, the listener and the datastore do
\* to each other: none gets stuck because the channel is busy.  (startProvider.)
EveryRequestAnswered ==
    \A h \in Handlers :
        req[h].op \in {"added", "updated", "removed"}
            ~> crashed \/ req[h].op \notin {"added", "updated", "removed"}

\* When the changes end, the memory comes to hold what the datastore holds, though the
\* admin loop and the provider loop overwrite each other's work and writes fail.
StoreWins == <>[](crashed \/ Loaded = Snapshot)

\* When the requests end, the datastore holds for every name what the last accepted
\* request asked for, unless another instance wrote that name, the write failed, or a PUT
\* that was refused or that names another definition wrote into the definition before it
\* was stored.  (startProvider, MongoRepository.Listen.)
LastAcceptedWins ==
    <>[](crashed \/ \A n \in Names : expected[n] \in {db[n], "unknown"})

\* The router of an instance comes to serve what the datastore holds.
ServesStore ==
    <>[](crashed \/ \A n \in Names : db[n] # NoPath => routes[served][db[n]] # NoName)

=============================================================================
