------------------------------ MODULE Accounts ------------------------------
(***************************************************************************)
(* The users of the plugins basic_auth (pkg/plugin/basic) and              *)
(* organization_auth (pkg/plugin/organization): the handlers of the admin  *)
(* API that create, change and delete them, the repositories in memory, in *)
(* mongodb and in cassandra, and the middleware that checks the            *)
(* credentials of the requests of a route.  A handler is a goroutine that  *)
(* calls its repository once per step; the body of a PUT is decoded        *)
(* between two calls, over the user it found.  The repository in memory    *)
(* hands out the very objects it stores.                                   *)
(***************************************************************************)
EXTENDS FiniteSets, Cassandra

CONSTANTS
    Users,      \* user names
    Passwords,  \* passwords in clear text
    Orgs,       \* organizations
    Configs,    \* contents of an organization's configuration
    Setups,     \* records of a plugin and the datastore the gateway is configured with
    Handlers,   \* goroutines that serve admin requests
    Requests,   \* Requests[plugin]: the admin requests that may be sent
    Clients,    \* requests on the route, one each
    Logins,     \* Logins[plugin][c]: the credentials that client c may send
    MaxOps      \* MaxOps[backend]: bound on admin requests

ASSUME SetsAssumption ==
    /\ IsFiniteSet(Users) /\ IsFiniteSet(Handlers) /\ IsFiniteSet(Clients)
    /\ Handlers \union Clients \subseteq Callers
    /\ Setups \subseteq [plugin : {"basic", "organization"},
                         backend : {"memory", "mongo", "cassandra"}]
    /\ \A s \in Setups : MaxOps[s.backend] \in Nat

NoObj == 0
NoOrg == "no organization"
NoConfig == "no config"
Omitted == "omitted"

ASSUME RequestsAssumption ==
    \A s \in Setups : \A q \in Requests[s.plugin] :
        \/ /\ q.op \in {"create", "update", "delete"}
           /\ {"name", "rename"} \subseteq DOMAIN q /\ q.name \in Users
           /\ q.op # "update" => q.rename = Omitted
           /\ q.op = "create" => /\ q.pass \in Passwords /\ q.config \in Configs
                                 /\ q.org \in Orgs \union {NoOrg}
           /\ q.op = "update" => /\ q.rename \in Users \union {Omitted}
                                 /\ q.pass \in Passwords \union {Omitted}
                                 /\ q.org \in Orgs \union {NoOrg, Omitted}
                                 /\ q.wrong \in BOOLEAN
        \/ /\ q.op \in {"createOrg", "updateOrg"} /\ "name" \notin DOMAIN q
           /\ q.org \in Orgs /\ q.config \in Configs

ASSUME LoginsAssumption ==
    \A s \in Setups : \A c \in Clients : \A login \in Logins[s.plugin][c] :
        login.name \in Users /\ login.pass \in Passwords

\* Objects: a row or an entry of the map per user, and what each handler works on.
Objs == 1 .. Cardinality(Users) * (1 + Cardinality(Clients)) + Cardinality(Handlers) + 1

VARIABLES
    plugin,    \* the plugin of the route: "basic" or "organization"
    backend,   \* the repository: "memory", "mongo" or "cassandra"
    store,     \* store[u]: the object stored under the name u
    heap,      \* heap[o]: content of the live object o
    orgs,      \* orgs[g]: the configuration stored for organization g
    req,       \* req[h]: the admin request that h serves
    at,        \* at[h]: the call that h makes next
    user,      \* user[h]: the object h works on
    auth,      \* auth[c]: the request of client c and how far its checks are
    shared,    \* the variable organization that NewOrganization captures, one for all requests
    ops,       \* admin requests so far
    promised,  \* promised[u]: the password that must let u in
    alone,     \* alone[h]: no other request touched the user of h since h began
    gone,      \* the users whose DELETE was answered, and that no request added since
    barred     \* barred[c]: the user of c has been gone since c arrived

storeVars == <<store, heap, orgs>>
handlerVars == <<req, at, user, ops, promised, alone, gone>>
clientVars == <<auth, shared>>
vars == <<plugin, backend, storeVars, handlerVars, clientVars, queryVars, barred>>

Elems(f) == {f[x] : x \in DOMAIN f}

\* encrypt.Hash: a password that was hashed `rounds` times.
Plain(p) == [text |-> p, rounds |-> 0]
Generate(p) == [p EXCEPT !.rounds = @ + 1]
Compare(hash, p) == hash = Generate(Plain(p))

Live ==
    (Elems(store) \union Elems(user) \union UNION {auth[c].list : c \in Clients}) \ {NoObj}

\* The garbage collector: what nothing reaches is gone.
Collect(h) == heap' = [o \in Live' |-> h[o]]

Fresh == CHOOSE o \in Objs : o \notin Live

With(o, content) == [x \in Live \union {o} |-> IF x = o THEN content ELSE heap[x]]

NoRequest == [op |-> "none"]

Idle == [at |-> "idle", name |-> Omitted, pass |-> Omitted, list |-> {}, named |-> NoObj,
         org |-> NoOrg, header |-> NoOrg, config |-> NoOrg]

TypeOK ==
    /\ [plugin |-> plugin, backend |-> backend] \in Setups
    /\ store \in [Users -> Objs \union {NoObj}]
    /\ DOMAIN heap = Live
    /\ \A o \in Live : heap[o] \in
         [name : Users, org : Orgs \union {NoOrg},
          pass : [text : Passwords, rounds : 0 .. MaxOps[backend]]]
    /\ orgs \in [Orgs -> Configs \union {NoConfig}]
    /\ req \in [Handlers -> Requests[plugin] \union {NoRequest}]
    /\ at \in [Handlers -> {"idle", "find", "decode", "add", "remove", "findOrg", "addOrg"}]
    /\ user \in [Handlers -> Objs \union {NoObj}]
    /\ auth \in [Clients ->
         [at : {"idle", "list", "compare", "password", "findOrg", "header", "forwarded",
                "refused"},
          name : Users \union {Omitted}, pass : Passwords \union {Omitted},
          list : SUBSET Objs, named : Objs \union {NoObj}, org : Orgs \union {NoOrg},
          header : Orgs \union {NoOrg}, config : Orgs \union {NoOrg}]]
    /\ shared \in Orgs \union {NoOrg}
    /\ ops \in 0 .. MaxOps[backend]
    /\ promised \in [Users -> Passwords \union {Omitted}]
    /\ alone \in [Handlers -> BOOLEAN]
    /\ gone \in SUBSET Users
    /\ barred \in [Clients -> BOOLEAN]
    /\ QueryTypeOK

\* onStartup of organization_auth makes a repository for cassandra only: with any other
\* datastore its handlers have none and its routes get no middleware (setupOrganization).
OrganizationInstalled == backend = "cassandra"

\* onStartup of basic_auth makes one of its three repositories.
BasicInstalled == backend \in {"mongo", "cassandra", "memory"}

Installed == IF plugin = "basic" THEN BasicInstalled ELSE OrganizationInstalled

Init ==
    /\ \E s \in Setups : plugin = s.plugin /\ backend = s.backend
    /\ store = [u \in Users |-> NoObj]
    /\ heap = [o \in {} |-> NoObj]
    /\ orgs = [g \in Orgs |-> NoConfig]
    /\ req = [h \in Handlers |-> NoRequest]
    /\ at = [h \in Handlers |-> "idle"]
    /\ user = [h \in Handlers |-> NoObj]
    /\ auth = [c \in Clients |-> Idle]
    /\ shared = NoOrg
    /\ ops = 0
    /\ promised = [u \in Users |-> Omitted]
    /\ alone = [h \in Handlers |-> FALSE]
    /\ gone = {}
    /\ barred = [c \in Clients |-> FALSE]
    /\ QueryInit

\* What FindAll and the loop of the middlewares let in.
Matches(o, name, pass) == heap[o].name = name /\ Compare(heap[o].pass, pass)

LetsIn(name, pass) ==
    \E o \in Elems(store) \ {NoObj} : Matches(o, name, pass)

----------------------------------------------------------------------------
(* The repositories.                                                       *)

NoWrite == UNCHANGED store /\ Collect(heap)

\* Mutant of Hashed: the password goes to the table as it came.
HashedNot(o) == heap[o]

Hashed(o) == [heap[o] EXCEPT !.pass = Generate(@)]

\* The row of the user becomes what its handler holds, with the password hashed.
Upsert(h) ==
    /\ store' = [store EXCEPT ![heap[user[h]].name] = Fresh]
    /\ Collect(With(Fresh, Hashed(user[h])))

InMemoryAdd(h, result) ==
    /\ result = "ok"
    /\ Succeeds(h)
    /\ store' = [store EXCEPT ![heap[user[h]].name] = user[h]]
    /\ Collect(With(user[h], [heap[user[h]] EXCEPT !.pass = Generate(@)]))

MongoAdd(h, result) ==
    \/ result = "ok" /\ Succeeds(h) /\ Upsert(h)
    \/ result = "error" /\ Failure /\ UNCHANGED attempt /\ (Upsert(h) \/ NoWrite)

CassandraAdd(h, result) ==
    /\ Exec(h, result)
    /\ Upsert(h) \/ (result # "ok" /\ NoWrite)

\* The same statement with the organization as one more column.
OrganizationAdd(h, result) == CassandraAdd(h, result)

Add(h, result) ==
    \/ plugin = "organization" /\ OrganizationAdd(h, result)
    \/ plugin = "basic" /\ backend = "memory" /\ InMemoryAdd(h, result)
    \/ plugin = "basic" /\ backend = "mongo" /\ MongoAdd(h, result)
    \/ plugin = "basic" /\ backend = "cassandra" /\ CassandraAdd(h, result)

Stored(h) == store[req[h].name] # NoObj

InMemoryFind(h, result) ==
    Succeeds(h) /\ result = (IF Stored(h) THEN "found" ELSE "not found")

MongoFind(h, result) ==
    \/ InMemoryFind(h, result)
    \/ result = "error" /\ Failure /\ UNCHANGED attempt

\* err.Error() of a query that found the user, whose err is nil: the handler panics and
\* the recovery middleware answers.
CassandraFind(h, result) ==
    \E r \in {"found", "not found", "again", "error"} :
        Scan(h, Stored(h), r) /\ result = (IF r = "found" THEN "panic" ELSE r)

OrganizationFind(h, result) == Scan(h, Stored(h), result)

FindByUsername(h, result) ==
    \/ plugin = "organization" /\ OrganizationFind(h, result)
    \/ plugin = "basic" /\ backend = "memory" /\ InMemoryFind(h, result)
    \/ plugin = "basic" /\ backend = "mongo" /\ MongoFind(h, result)
    \/ plugin = "basic" /\ backend = "cassandra" /\ CassandraFind(h, result)

Delete(h) ==
    /\ store' = [store EXCEPT ![req[h].name] = NoObj]
    /\ Collect(heap)

InMemoryRemove(h, result) == result = "ok" /\ Succeeds(h) /\ Delete(h)

MongoRemove(h, result) ==
    \/ InMemoryRemove(h, result)
    \/ result = "error" /\ Failure /\ UNCHANGED attempt /\ (Delete(h) \/ NoWrite)

\* Mutant of CassandraRemove: the error of the statement is not looked at.
CassandraRemoveUnchecked(h, result) ==
    \E r \in {"ok", "error", "again"} :
        /\ Exec(h, r)
        /\ Delete(h) \/ (r # "ok" /\ NoWrite)
        /\ result = (IF r = "error" THEN "ok" ELSE r)

CassandraRemove(h, result) ==
    /\ Exec(h, result)
    /\ Delete(h) \/ (result # "ok" /\ NoWrite)

\* The row of the user goes, the configuration of the organization stays.
OrganizationRemove(h, result) == CassandraRemove(h, result)

Remove(h, result) ==
    \/ plugin = "organization" /\ OrganizationRemove(h, result)
    \/ plugin = "basic" /\ backend = "memory" /\ InMemoryRemove(h, result)
    \/ plugin = "basic" /\ backend = "mongo" /\ MongoRemove(h, result)
    \/ plugin = "basic" /\ backend = "cassandra" /\ CassandraRemove(h, result)

FindOrganization(c, g, result) == Scan(c, orgs[g] # NoConfig, result)

AddOrganization(h, g, config, result) ==
    /\ Exec(h, result)
    /\ \/ orgs' = [orgs EXCEPT ![g] = config]
       \/ result # "ok" /\ UNCHANGED orgs

----------------------------------------------------------------------------
(* The handlers of the admin API.                                          *)

Answer(h) ==
    /\ req' = [req EXCEPT ![h] = NoRequest]
    /\ at' = [at EXCEPT ![h] = "idle"]
    /\ user' = [user EXCEPT ![h] = NoObj]
    /\ alone' = [alone EXCEPT ![h] = FALSE]

\* The handler goes on with another call, or with another try of the same one.
GoOn(h, call) ==
    /\ at' = [at EXCEPT ![h] = call]
    /\ UNCHANGED <<req, alone>>

\* The names that a request changes: the one in its URL or body, and the one it renames to.
NamesOf(q) ==
    IF "name" \in DOMAIN q THEN {q.name} \union ({q.rename} \ {Omitted}) ELSE {}

\* What a request that works on the object o may change: in memory an object may be stored
\* under several names, and carry the name of another user.
Holds(q, o) == ({store[n] : n \in NamesOf(q)} \union {o}) \ {NoObj}

\* The users that it may change: by name, by the names of its objects, and by those under
\* which its objects are stored.
Touches(q, o) ==
    NamesOf(q) \union {heap[x].name : x \in Holds(q, o)}
               \union {u \in Users : store[u] \in Holds(q, o)}

Overlap(q, g) == Touches(q, NoObj) \intersect Touches(req[g], user[g]) # {}

Begin(h, q) ==
    LET others == {g \in Handlers \ {h} : Overlap(q, g)} IN
    /\ at[h] = "idle"
    /\ ops < MaxOps[backend]
    /\ ops' = ops + 1
    /\ IF ~Installed
       THEN UNCHANGED <<req, at, alone, promised, gone>>
       ELSE /\ req' = [req EXCEPT ![h] = q]
            /\ at' = [at EXCEPT ![h] =
                        IF q.op \in {"create", "update"} THEN "find"
                        ELSE IF q.op = "delete" THEN "remove" ELSE "findOrg"]
            /\ alone' = [g \in Handlers |->
                           IF g = h THEN others = {} ELSE alone[g] /\ g \notin others]
            /\ promised' = [u \in Users |->
                 IF q.op \in {"update", "delete"} /\ u \in Touches(q, NoObj) THEN Omitted
                 ELSE promised[u]]
            /\ gone' = IF q.op \in {"create", "update"} THEN gone \ Touches(q, NoObj) ELSE gone
    /\ UNCHANGED <<storeVars, user, clientVars, queryVars>>

\* Create: any answer but "not found" is taken for a user that exists.
CreateFind(h) ==
    /\ at[h] = "find"
    /\ req[h].op = "create"
    /\ UNCHANGED <<ops, promised, gone, clientVars, store, orgs>>
    /\ \E result \in {"found", "not found", "error", "panic", "again"} :
         /\ FindByUsername(h, result)
         /\ \/ /\ result = "again"
               /\ GoOn(h, "find")
               /\ UNCHANGED <<user, heap>>
            \/ /\ result = "not found"
               /\ GoOn(h, "add")
               /\ user' = [user EXCEPT ![h] = Fresh]
               /\ Collect(With(Fresh, [name |-> req[h].name, org |-> req[h].org,
                                       pass |-> Plain(req[h].pass)]))
            \/ /\ result \in {"found", "error", "panic"}
               /\ Answer(h)
               /\ UNCHANGED heap

UpdateFind(h) ==
    /\ at[h] = "find"
    /\ req[h].op = "update"
    /\ UNCHANGED <<ops, promised, gone, clientVars, store, orgs>>
    /\ \E result \in {"found", "not found", "error", "panic", "again"} :
         /\ FindByUsername(h, result)
         /\ \/ /\ result = "again"
               /\ GoOn(h, "find")
               /\ UNCHANGED <<user, heap>>
            \/ /\ result = "found"
               /\ GoOn(h, "decode")
               /\ IF backend = "memory"
                  THEN user' = [user EXCEPT ![h] = store[req[h].name]] /\ UNCHANGED heap
                  ELSE /\ user' = [user EXCEPT ![h] = Fresh]
                       /\ Collect(With(Fresh, heap[store[req[h].name]]))
            \/ /\ result \in {"not found", "error", "panic"}
               /\ Answer(h)
               /\ UNCHANGED heap

\* The fields that the body holds replace those of the user, even when the body then
\* turns out to be wrong; organization_auth puts the name of the URL back.
Decoded(h) ==
    LET q == req[h]
        old == heap[user[h]]
    IN  [name |-> IF q.rename = Omitted \/ plugin = "organization" THEN old.name ELSE q.rename,
         org |-> IF q.org = Omitted THEN old.org ELSE q.org,
         pass |-> IF q.pass = Omitted THEN old.pass ELSE Plain(q.pass)]

UpdateDecode(h) ==
    /\ at[h] = "decode"
    /\ IF req[h].wrong THEN Answer(h) ELSE GoOn(h, "add") /\ UNCHANGED user
    /\ UNCHANGED <<store, orgs, ops, promised, gone, clientVars, queryVars>>
    /\ Collect(With(user[h], Decoded(h)))

\* A password that was accepted while no other request touched its user must let it in.
Promise(h) ==
    promised' = IF alone[h] /\ req[h].pass # Omitted
                THEN [promised EXCEPT ![heap[user[h]].name] = req[h].pass]
                ELSE promised

\* The end of Create and Update of basic_auth and of Update of organization_auth.
Save(h) ==
    /\ at[h] = "add"
    /\ plugin = "basic" \/ req[h].op = "update"
    /\ UNCHANGED <<orgs, ops, gone, clientVars>>
    /\ \E result \in {"ok", "error", "again"} :
         /\ \/ result = "again" /\ GoOn(h, "add") /\ UNCHANGED <<user, promised>>
            \/ result = "ok" /\ Answer(h) /\ Promise(h)
            \/ result = "error" /\ Answer(h) /\ UNCHANGED promised
         /\ Add(h, result)

\* Create of organization_auth stores the user before it looks at the organization.
OrgCreateAdd(h) ==
    /\ at[h] = "add"
    /\ plugin = "organization" /\ req[h].op = "create"
    /\ UNCHANGED <<orgs, ops, gone, clientVars>>
    /\ \E result \in {"ok", "error", "again"} :
         /\ \/ result = "again" /\ GoOn(h, "add") /\ UNCHANGED <<user, promised>>
            \/ /\ result = "ok"
               /\ GoOn(h, "findOrg")
               /\ Promise(h)
               /\ user' = [user EXCEPT ![h] = NoObj]
            \/ result = "error" /\ Answer(h) /\ UNCHANGED promised
         /\ Add(h, result)

\* Create and CreateOrganization add what is not there; Create answers that it is done
\* when the organization could not be looked up, CreateOrganization that it exists.
OrgFind(h) ==
    /\ at[h] = "findOrg"
    /\ UNCHANGED <<ops, promised, gone, user, clientVars, storeVars>>
    /\ \E result \in {"found", "not found", "error", "again"} :
         /\ FindOrganization(h, req[h].org, result)
         /\ \/ result = "again" /\ GoOn(h, "findOrg")
            \/ /\ result = (IF req[h].op = "updateOrg" THEN "found" ELSE "not found")
               /\ GoOn(h, "addOrg")
            \/ /\ result \notin {"again", IF req[h].op = "updateOrg" THEN "found" ELSE "not found"}
               /\ Answer(h)

OrgAdd(h) ==
    /\ at[h] = "addOrg"
    /\ UNCHANGED <<ops, promised, gone, clientVars, store, heap>>
    /\ \E result \in {"ok", "error", "again"} :
         /\ AddOrganization(h, req[h].org, req[h].config, result)
         /\ \/ result = "again" /\ GoOn(h, "addOrg") /\ UNCHANGED user
            \/ result # "again" /\ Answer(h)

\* In memory a rename leaves a user under its old name too, and a DELETE of the new name
\* leaves that.
StoredElsewhere(u) ==
    \E v \in Users \ {u} : store[v] # NoObj /\ heap[store[v]].name = u

\* A user that was deleted while no other request touched it is gone.
Dismiss(h) ==
    gone' = IF alone[h] /\ ~StoredElsewhere(req[h].name) THEN gone \union {req[h].name} ELSE gone

DeleteUser(h) ==
    /\ at[h] = "remove"
    /\ UNCHANGED <<orgs, ops, promised, clientVars>>
    /\ \E result \in {"ok", "error", "again"} :
         /\ \/ result = "again" /\ GoOn(h, "remove") /\ UNCHANGED <<user, gone>>
            \/ result = "ok" /\ Answer(h) /\ Dismiss(h)
            \/ result = "error" /\ Answer(h) /\ UNCHANGED gone
         /\ Remove(h, result)

----------------------------------------------------------------------------
(* The middlewares NewBasicAuth and NewOrganization.                       *)

\* The fields that change, and their new values.
Step(c, changes) ==
    auth' = [auth EXCEPT ![c] = [f \in DOMAIN @ |-> IF f \in DOMAIN changes THEN changes[f]
                                                                         ELSE auth[c][f]]]

Stop(c, end) == Step(c, [at |-> end, list |-> {}, named |-> NoObj])

\* A route whose plugin could not be set up has no middleware.
Arrive(c, login) ==
    /\ auth[c].at = "idle"
    /\ Step(c, [at |-> IF Installed THEN "list" ELSE "forwarded",
                name |-> login.name, pass |-> login.pass])
    /\ UNCHANGED <<storeVars, handlerVars, shared, queryVars>>

Right(c, o) == Matches(o, auth[c].name, auth[c].pass)

\* The end of the loop over the users at one with the right name and password:
\* organization_auth notes its organization in the variable that all requests share.
LetIn(c, o) ==
    \/ plugin = "basic" /\ Stop(c, "forwarded") /\ UNCHANGED shared
    \/ /\ plugin = "organization"
       /\ shared' = heap[o].org
       /\ Step(c, [at |-> "findOrg", list |-> {}, named |-> NoObj, org |-> heap[o].org])

\* The loop over copies of the users, which nobody changes.
Judge(c, users) ==
    \/ \E o \in users : Right(c, o) /\ LetIn(c, o)
    \/ /\ \A o \in users : ~Right(c, o)
       /\ Stop(c, "refused")
       /\ UNCHANGED shared

\* FindAll: the repository in memory lists its objects, the others copy their rows.
InMemoryFindAll(c) ==
    /\ backend = "memory"
    /\ Succeeds(c)
    /\ Step(c, [at |-> "compare", list |-> Elems(store) \ {NoObj}])
    /\ UNCHANGED shared

MongoFindAll(c) ==
    /\ backend = "mongo"
    /\ \/ Succeeds(c) /\ Judge(c, Elems(store) \ {NoObj})
       \/ Failure /\ UNCHANGED attempt /\ Stop(c, "refused") /\ UNCHANGED shared

CassandraFindAll(c) ==
    /\ backend = "cassandra"
    /\ \E result \in {"ok", "error", "again"} :
         /\ ScanAndClose(c, result)
         /\ \/ result = "ok" /\ Judge(c, Elems(store) \ {NoObj})
            \/ result = "again" /\ UNCHANGED clientVars
            \/ result = "error" /\ Stop(c, "refused") /\ UNCHANGED shared

FindAll(c) ==
    /\ auth[c].at = "list"
    /\ InMemoryFindAll(c) \/ MongoFindAll(c) \/ CassandraFindAll(c)
    /\ UNCHANGED <<storeVars, handlerVars>>

\* The loop over the objects that the repository in memory stores reads the name of a
\* user, and then the password if the name is right.  A PUT may decode into that user, or
\* save it, in between.
CompareName(c) ==
    /\ auth[c].at = "compare"
    /\ \/ \E o \in auth[c].list :
            IF heap[o].name = auth[c].name THEN Step(c, [at |-> "password", named |-> o])
            ELSE Step(c, [list |-> auth[c].list \ {o}])
       \/ auth[c].list = {} /\ Stop(c, "refused")
    /\ UNCHANGED <<store, orgs, shared, handlerVars, queryVars>>
    /\ Collect(heap)

ComparePassword(c) ==
    LET o == auth[c].named IN
    /\ auth[c].at = "password"
    /\ IF Compare(heap[o].pass, auth[c].pass) THEN LetIn(c, o)
       ELSE /\ Step(c, [at |-> "compare", list |-> auth[c].list \ {o}, named |-> NoObj])
            /\ UNCHANGED shared
    /\ UNCHANGED <<store, orgs, handlerVars, queryVars>>
    /\ Collect(heap)

\* Mutant of ConfigOwner: the organization is read back from the variable.
ConfigOwnerShared(c) == shared

ConfigOwner(c) == auth[c].org

AuthFindOrg(c) ==
    /\ auth[c].at = "findOrg"
    /\ \E result \in {"found", "not found", "error", "again"} :
         /\ FindOrganization(c, ConfigOwner(c), result)
         /\ \/ result = "again" /\ UNCHANGED auth
            \/ result = "found" /\ Step(c, [at |-> "header", config |-> ConfigOwner(c)])
            \/ result \in {"not found", "error"} /\ Stop(c, "refused")
    /\ UNCHANGED <<storeVars, handlerVars, shared>>

Forward(c) ==
    /\ auth[c].at = "header"
    /\ Step(c, [at |-> "forwarded", header |-> shared])
    /\ UNCHANGED <<storeVars, handlerVars, shared, queryVars>>

----------------------------------------------------------------------------

HandlerStep(h) ==
    \/ CreateFind(h) \/ UpdateFind(h) \/ UpdateDecode(h) \/ Save(h) \/ OrgCreateAdd(h)
    \/ OrgFind(h) \/ OrgAdd(h) \/ DeleteUser(h)

ClientStep(c) ==
    FindAll(c) \/ CompareName(c) \/ ComparePassword(c) \/ AuthFindOrg(c) \/ Forward(c)

\* History for DeletedStaysOut: a request is barred while its user has been gone since
\* the request arrived.
Witness ==
    barred' = [c \in Clients |->
                 /\ auth[c].at = "idle" => Installed /\ auth'[c].at # "idle"
                 /\ auth[c].at # "idle" => barred[c]
                 /\ auth'[c].name \in gone']

Next ==
    /\ \/ \E h \in Handlers : HandlerStep(h) \/ \E q \in Requests[plugin] : Begin(h, q)
       \/ \E c \in Clients : ClientStep(c) \/ \E login \in Logins[plugin][c] : Arrive(c, login)
    /\ UNCHANGED <<plugin, backend>>
    /\ Witness

Spec == Init /\ [][Next]_vars

----------------------------------------------------------------------------
(* Properties.                                                             *)

\* No clear password reaches a table, whatever requests overlap, fail and are retried.
\* (Add of the mongodb and cassandra repositories.)
HashedAtRest ==
    backend # "memory" =>
        \A u \in Users : store[u] # NoObj => heap[store[u]].pass.rounds > 0

\* A password that an admin request set, while no other request touched its user, lets
\* the user in until the next PUT or DELETE for that user: not a POST with the same name,
\* not a request for another user that shares an object with it, not a late retry.
AcceptedWorks ==
    \A u \in Users : promised[u] # Omitted => LetsIn(u, promised[u])

\* A user is out once its DELETE was answered, if no other request touched it meanwhile: no
\* late retry and no request that still works on some user brings it back, and a request
\* that arrives afterwards is not forwarded, until a POST or a PUT that may add the user
\* begins.  (Remove of the repositories, Update of the handlers, NewBasicAuth.)
DeletedStaysOut == \A c \in Clients : barred[c] => auth[c].at \notin {"header", "forwarded"}

\* The configuration sent upstream is that of the organization of the user that was let
\* in, whatever requests share the variable of the middleware.
OwnConfig == \A c \in Clients : auth[c].config # NoOrg => auth[c].config = auth[c].org

\* The organization sent upstream is that of the user that was let in.
\* (docs/plugins/organization_auth.md.)
OwnHeader == \A c \in Clients : auth[c].header # NoOrg => auth[c].header = auth[c].org

=============================================================================
