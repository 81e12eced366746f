-------------------------------- MODULE OAuth --------------------------------
(***************************************************************************)
(* The plugin oauth2 (pkg/plugin/oauth2): the handlers of the admin API    *)
(* that create, change and delete OAuth servers, their repositories, the   *)
(* load of the servers at startup and at each reload, the middlewares that *)
(* a reload puts before the upstream of an API, and the secrets that are   *)
(* added to the requests of a token endpoint.                              *)
(*                                                                         *)
(* The repository in memory, which is the one of the files too, hands out  *)
(* the objects it stores: the routes that a load registers and the handler *)
(* of a PUT work on the same server and the same access rules.  With the   *)
(* other repositories each of them has a copy.                             *)
(*                                                                         *)
(* HotReload models how reloads come about and overlap; here there is one  *)
(* at a time.                                                              *)
(***************************************************************************)
EXTENDS FiniteSets, Sequences, Functions, Cassandra

CONSTANTS
    Names,      \* names of OAuth servers
    ApiServer,  \* the server_name in the configuration of the API's plugin
    Keys,       \* keys that sign tokens
    Claims,     \* claims of tokens, as far as rules tell them apart
    Apps,       \* client ids
    Backends,   \* "memory", "mongo", "cassandra"
    Stored,     \* Stored[backend]: the servers in the datastore when the gateway starts
    Loader,     \* the goroutine that loads the configuration
    Handlers,   \* goroutines that serve admin requests
    Requests,   \* the admin requests that may be sent
    Visits,     \* requests on the gateway
    Tokens,     \* the credentials of those requests: records of a key and a claim
    MaxOps,     \* MaxOps[backend]: bound on admin requests
    MaxLoads    \* bound on loads, the one at startup included

ASSUME SetsAssumption ==
    /\ IsFiniteSet(Names) /\ IsFiniteSet(Handlers) /\ IsFiniteSet(Visits)
    /\ ApiServer \in Names /\ Handlers \union {Loader} \subseteq Callers
    /\ MaxOps \in [Backends -> Nat] /\ MaxLoads \in Nat \ {0}

NoObj == 0
NoKey == "no key"
NoServer == [name |-> "no server"]
NoRoute == [route |-> "none"]
Open == [route |-> "open"]

\* Objects: servers in the datastore, behind the routes of two routers and in the hands of
\* handlers and requests, and those that a load or a write is about to make.
Objs == 1 .. 4 * Cardinality(Names) + Cardinality(Handlers) + Cardinality(Visits) + 3

VARIABLES
    backend,   \* the kind of repository
    servers,   \* servers[n]: the object stored under the name n
    heap,      \* heap[o]: content of the live object o
    req,       \* req[h]: the admin request that h serves
    at,        \* at[h]: what h does next
    obj,       \* obj[h]: the object h works on
    ops,       \* admin requests so far
    load,      \* the load in progress: its phase, and what it has put in its router
    loads,     \* loads begun so far
    guard,     \* what stands before the API in the router that serves
    tokens,    \* the objects behind the token endpoints of that router
    visit,     \* visit[v]: a request on the gateway
    up,        \* the gateway runs
    lookedUp,  \* the last load could look the server of the API up
    quiet,     \* the datastore did not change since the last load began
    posted,    \* posted[n]: the server that a POST stored and nothing has changed since
    alone,     \* alone[h]: no other request could touch the server of h since h began
    mustDeny   \* mustDeny[v]: the first rule has denied what v shows since it came

storeVars == <<servers, heap>>
handlerVars == <<req, at, obj, ops, alone>>
routeVars == <<load, loads, guard, tokens, lookedUp>>
history == <<quiet, posted, mustDeny>>
vars == <<backend, storeVars, handlerVars, routeVars, visit, up, queryVars, history>>

Elems(f) == {f[x] : x \in DOMAIN f}

\* What the predicate of a rule gives for the claims of a token: it may fail to evaluate for
\* some of them, and need not give a boolean.
Rule == [says : [Claims -> {"match", "no match", "error", "no boolean"}],
         allow : BOOLEAN, parsed : BOOLEAN]

Server == [name : Names, strategy : {"jwt", "introspection", "unknown"},
           settings : {"methods", "legacy", "map", "nil"}, key : Keys,
           secrets : SUBSET Apps, rules : Seq(Rule)]

\* What stands before an API: nothing yet, its route alone, or the checks of a server.
Guard ==
    {NoRoute, Open} \union
    [route : {"guarded"}, manager : {"jwt", "introspection"}, keys : SUBSET Keys,
     works : BOOLEAN, server : Objs, rules : Nat]

\* The body of a PUT has some of the fields of a server.
IsBody(b) ==
    /\ "name" \in DOMAIN b => b.name \in Names
    /\ "strategy" \in DOMAIN b => b.strategy \in {"jwt", "introspection", "unknown"}
    /\ "settings" \in DOMAIN b => b.settings \in {"methods", "legacy", "map", "nil"}
    /\ "key" \in DOMAIN b => b.key \in Keys
    /\ "secrets" \in DOMAIN b => b.secrets \subseteq Apps
    /\ "rules" \in DOMAIN b => b.rules \in Seq(Rule)

ASSUME StoredAssumption ==
    \A b \in Backends : \A s \in Stored[b] :
        s \subseteq Server /\ \A c, d \in s : c.name = d.name => c = d

ASSUME RequestsAssumption ==
    \A q \in Requests :
        \/ q.op = "post" /\ q.body \in Server
        \/ q.op = "put" /\ q.name \in Names /\ q.wrong \in BOOLEAN /\ IsBody(q.body)
        \/ q.op = "delete" /\ q.name \in Names

ASSUME TokensAssumption ==
    Tokens \subseteq [key : Keys \union {NoKey}, claim : Claims]

\* A rule forgets that it was parsed when it is encoded: the field is not exported.
Row(c) == [c EXCEPT !.rules = [i \in DOMAIN @ |-> [@[i] EXCEPT !.parsed = FALSE]]]

----------------------------------------------------------------------------
(* Token strategies: which servers make a manager, and which a guard.      *)

Known(c) == c.strategy \in {"jwt", "introspection"}

\* GetJWTSigningMethods: a list of methods, the legacy object with one secret, or nothing.
MethodsFail(c) == c.settings = "map"

SigningKeys(c) == IF c.settings = "nil" THEN {} ELSE {c.key}

\* Build: introspection decodes an object, a list is an error.
Builds(c) ==
    /\ Known(c)
    /\ IF c.strategy = "jwt" THEN ~MethodsFail(c) ELSE c.settings # "methods"

\* setupOAuth2 wants signing methods whatever the strategy is.
Guards(c) == Builds(c) /\ ~MethodsFail(c)

\* A plugin that fails leaves its route without its middlewares.
GuardOf(o, c) ==
    IF Guards(c)
    THEN [route |-> "guarded", manager |-> c.strategy, keys |-> SigningKeys(c),
          works |-> c.strategy = "jwt" \/ c.settings # "nil",
          server |-> o, rules |-> Len(c.rules)]
    ELSE Open

ServerOf(g) == IF g.route = "guarded" THEN {g.server} ELSE {}

Live ==
    (Elems(servers) \union Elems(obj) \union tokens \union load.tokens \union ServerOf(guard)
       \union ServerOf(load.guard) \union UNION {ServerOf(visit[v].guard) : v \in Visits})
    \ {NoObj}

\* The garbage collector: what nothing reaches is gone.
Collect(h) == heap' = [o \in Live' |-> h[o]]

Fresh == CHOOSE o \in Objs : o \notin Live

With(o, content) == [x \in Live \union {o} |-> IF x = o THEN content ELSE heap[x]]

NoRequest == [op |-> "none"]

Idle == [at |-> "idle", guard |-> NoRoute, key |-> NoKey, claim |-> "none", rule |-> 1,
         served |-> 0]

NoLoad == [at |-> "idle", guard |-> NoRoute, tokens |-> {}]

Ended == {"done", "denied", "refused"}

TypeOK ==
    /\ backend \in Backends
    /\ servers \in [Names -> Objs \union {NoObj}]
    /\ DOMAIN heap = Live
    /\ \A o \in Live : heap[o] \in Server
    /\ req \in [Handlers -> Requests \union {NoRequest}]
    /\ at \in [Handlers -> {"idle", "find", "decode", "decoding", "add", "save", "remove"}]
    /\ obj \in [Handlers -> Objs \union {NoObj}]
    /\ ops \in 0 .. MaxOps[backend]
    /\ load \in [at : {"idle", "start servers", "start apis", "apis", "servers", "swap"},
                guard : Guard, tokens : SUBSET Objs]
    /\ loads \in 0 .. MaxLoads
    /\ guard \in Guard /\ tokens \in SUBSET Objs
    /\ visit \in [Visits -> [at : {"idle", "key", "rule", "parse"} \union Ended,
                            guard : Guard, key : Keys \union {NoKey},
                            claim : Claims \union {"none"}, rule : Nat, served : Nat]]
    /\ <<up, lookedUp, quiet>> \in BOOLEAN \X BOOLEAN \X BOOLEAN
    /\ posted \in [Names -> Server \union {NoServer}]
    /\ alone \in [Handlers -> BOOLEAN] /\ mustDeny \in [Visits -> BOOLEAN]
    /\ QueryTypeOK

\* onStartup opens the repository; NewFileSystemRepository has put the files in it.
Init ==
    /\ backend \in Backends
    /\ \E s \in Stored[backend] :
         LET named == {c.name : c \in s}
             number == CHOOSE f \in Injection(named, Objs) : TRUE
         IN  /\ servers = [n \in Names |-> IF n \in named THEN number[n] ELSE NoObj]
             /\ heap = [o \in Elems(number) |->
                          CHOOSE c \in s : number[c.name] = o]
    /\ req = [h \in Handlers |-> NoRequest]
    /\ at = [h \in Handlers |-> "idle"]
    /\ obj = [h \in Handlers |-> NoObj]
    /\ ops = 0
    /\ load = [NoLoad EXCEPT !.at = "start servers"]
    /\ loads = 1
    /\ guard = NoRoute
    /\ tokens = {}
    /\ visit = [v \in Visits |-> Idle]
    /\ up = TRUE
    /\ lookedUp = FALSE
    /\ quiet = TRUE
    /\ posted = [n \in Names |-> NoServer]
    /\ alone = [h \in Handlers |-> FALSE]
    /\ mustDeny = [v \in Visits |-> FALSE]
    /\ QueryInit

----------------------------------------------------------------------------
(* The repositories.  The in-memory one takes a lock around each call.     *)

Store(n, o) == servers' = [servers EXCEPT ![n] = o]

NoWrite == UNCHANGED servers /\ Collect(heap)

\* The datastore gets a copy of what the handler holds.
Upsert(h) ==
    /\ Store(heap[obj[h]].name, Fresh)
    /\ Collect(With(Fresh, Row(heap[obj[h]])))

\* Mutant of Taken: the name is not looked up.
TakenNever(h) == FALSE

Taken(h) == servers[heap[obj[h]].name] # NoObj

InMemoryAdd(h, result) ==
    /\ Succeeds(h)
    /\ IF Taken(h)
       THEN result = "error" /\ NoWrite
       ELSE result = "ok" /\ Store(heap[obj[h]].name, obj[h]) /\ Collect(heap)

\* The collection has a unique index on the name.
MongoAdd(h, result) ==
    \/ Succeeds(h) /\ Taken(h) /\ result = "error" /\ NoWrite
    \/ Succeeds(h) /\ ~Taken(h) /\ result = "ok" /\ Upsert(h)
    \/ /\ result = "error" /\ Failure /\ UNCHANGED attempt
       /\ NoWrite \/ (~Taken(h) /\ Upsert(h))

\* Add of a new name, or of one that exists already.
CassandraAdd(h, result) ==
    /\ Exec(h, result)
    /\ Upsert(h) \/ (result # "ok" /\ NoWrite)

InMemorySave(h, result) ==
    /\ Succeeds(h)
    /\ result = "ok"
    /\ Store(heap[obj[h]].name, obj[h])
    /\ Collect(heap)

MongoSave(h, result) ==
    \/ Succeeds(h) /\ result = "ok" /\ Upsert(h)
    \/ result = "error" /\ Failure /\ UNCHANGED attempt /\ (Upsert(h) \/ NoWrite)

CassandraSave(h, result) ==
    /\ Exec(h, result)
    /\ Upsert(h) \/ (result # "ok" /\ NoWrite)

Delete(h) == Store(req[h].name, NoObj) /\ Collect(heap)

InMemoryRemove(h, result) ==
    /\ Succeeds(h)
    /\ IF servers[req[h].name] = NoObj
       THEN result = "error" /\ NoWrite
       ELSE result = "ok" /\ Delete(h)

MongoRemove(h, result) ==
    \/ Succeeds(h) /\ result = "ok" /\ Delete(h)
    \/ result = "error" /\ Failure /\ UNCHANGED attempt /\ (Delete(h) \/ NoWrite)

CassandraRemove(h, result) ==
    /\ Exec(h, result)
    /\ Delete(h) \/ (result # "ok" /\ NoWrite)

InMemoryFind(c, n, result) ==
    Succeeds(c) /\ result = (IF servers[n] = NoObj THEN "not found" ELSE "found")

MongoFind(c, n, result) ==
    \/ InMemoryFind(c, n, result)
    \/ result = "error" /\ Failure /\ UNCHANGED attempt

\* The error of the query is dropped: what was not read does not parse, as what is not there.
CassandraFind(c, n, result) ==
    \E r \in {"found", "not found", "again", "error"} :
        Scan(c, servers[n] # NoObj, r) /\ result = (IF r = "error" THEN "not found" ELSE r)

Add(h, result) ==
    \/ backend = "memory" /\ InMemoryAdd(h, result)
    \/ backend = "mongo" /\ MongoAdd(h, result)
    \/ backend = "cassandra" /\ CassandraAdd(h, result)

Save(h, result) ==
    \/ backend = "memory" /\ InMemorySave(h, result)
    \/ backend = "mongo" /\ MongoSave(h, result)
    \/ backend = "cassandra" /\ CassandraSave(h, result)

Remove(h, result) ==
    \/ backend = "memory" /\ InMemoryRemove(h, result)
    \/ backend = "mongo" /\ MongoRemove(h, result)
    \/ backend = "cassandra" /\ CassandraRemove(h, result)

FindByName(c, n, result) ==
    \/ backend = "memory" /\ InMemoryFind(c, n, result)
    \/ backend = "mongo" /\ MongoFind(c, n, result)
    \/ backend = "cassandra" /\ CassandraFind(c, n, result)

InMemoryFindAll(result) == Succeeds(Loader) /\ result = "ok"

MongoFindAll(result) ==
    \/ InMemoryFindAll(result)
    \/ result = "error" /\ Failure /\ UNCHANGED attempt

FindAll(result) ==
    \/ backend = "memory" /\ InMemoryFindAll(result)
    \/ backend = "mongo" /\ MongoFindAll(result)
    \/ backend = "cassandra" /\ ScanAndClose(Loader, result)

----------------------------------------------------------------------------
(* The handlers of the admin API.  None of them makes the gateway reload.  *)

Answer(h) ==
    /\ req' = [req EXCEPT ![h] = NoRequest]
    /\ at' = [at EXCEPT ![h] = "idle"]
    /\ obj' = [obj EXCEPT ![h] = NoObj]
    /\ alone' = [alone EXCEPT ![h] = FALSE]
    /\ UNCHANGED ops

GoOn(h, next) ==
    /\ at' = [at EXCEPT ![h] = next]
    /\ UNCHANGED <<req, ops, alone>>

\* Two requests that may touch one server: all do but two POSTs, of which the second fails
\* except on cassandra.
Overlap(p, q) ==
    /\ p.op # "none" /\ q.op # "none"
    /\ p.op # "post" \/ q.op # "post" \/ (backend = "cassandra" /\ p.body.name = q.body.name)

Begin(h, q) ==
    /\ at[h] = "idle"
    /\ ops < MaxOps[backend]
    /\ ops' = ops + 1
    /\ UNCHANGED <<servers, queryVars>>
    /\ req' = [req EXCEPT ![h] = q]
    /\ at' = [at EXCEPT ![h] =
                CASE q.op = "post" -> "add" [] q.op = "put" -> "find" [] q.op = "delete" -> "remove"]
    /\ IF q.op = "post"
       THEN obj' = [obj EXCEPT ![h] = Fresh] /\ Collect(With(Fresh, q.body))
       ELSE UNCHANGED <<obj, heap>>
    /\ alone' = [g \in Handlers |->
                   IF g = h THEN \A f \in Handlers \ {h} : ~Overlap(q, req[f])
                   ELSE alone[g] /\ ~Overlap(q, req[g])]
    /\ posted' = [n \in Names |->
                    IF q.op # "post" \/ (backend = "cassandra" /\ q.body.name = n) THEN NoServer
                    ELSE posted[n]]

Post(h) ==
    /\ at[h] = "add"
    /\ \E result \in {"ok", "error", "again"} :
         /\ IF result = "again" THEN GoOn(h, "add") /\ UNCHANGED obj ELSE Answer(h)
         /\ posted' = IF result = "ok" /\ alone[h] /\ posted[req[h].body.name] = NoServer
                      THEN [posted EXCEPT ![req[h].body.name] = Row(req[h].body)]
                      ELSE posted
         /\ Add(h, result)

\* PutBy looks at the name of what it found before it looks at the error: without a
\* server it panics, and the recovery middleware answers.
PutFind(h) ==
    /\ at[h] = "find"
    /\ UNCHANGED <<servers, posted>>
    /\ \E result \in {"found", "not found", "error", "again"} :
         /\ FindByName(h, req[h].name, result)
         /\ \/ result = "again" /\ GoOn(h, "find") /\ UNCHANGED <<obj, heap>>
            \/ /\ result = "found"
               /\ GoOn(h, "decode")
               /\ IF backend = "memory"
                  THEN obj' = [obj EXCEPT ![h] = servers[req[h].name]] /\ UNCHANGED heap
                  ELSE /\ obj' = [obj EXCEPT ![h] = Fresh]
                       /\ Collect(With(Fresh, heap[servers[req[h].name]]))
            \/ result \in {"not found", "error"} /\ Answer(h) /\ UNCHANGED heap

\* Decode over the server: fields of the body replace those of the server, secrets are
\* added to its map, and a rule of the body is written over the rule in its place, which
\* keeps what it knows of having been parsed.  (A body with fewer rules than the server has
\* is left out: the routes would keep the others.)
Decoded(c, body) ==
    [f \in DOMAIN c |->
        IF f \notin DOMAIN body THEN c[f]
        ELSE CASE f = "secrets" -> c.secrets \union body.secrets
               [] f = "rules" ->
                    [i \in DOMAIN body.rules |->
                        IF i \in DOMAIN c.rules
                        THEN [body.rules[i] EXCEPT !.parsed = c.rules[i].parsed]
                        ELSE body.rules[i]]
               [] OTHER -> body[f]]

PutDecode(h) ==
    /\ at[h] = "decode"
    /\ GoOn(h, "decoding")
    /\ UNCHANGED <<servers, obj, posted, queryVars>>
    /\ Collect(With(obj[h], Decoded(heap[obj[h]], req[h].body)))

\* A body that turns out to be wrong has been decoded up to there.
PutDecoded(h) ==
    /\ at[h] = "decoding"
    /\ IF req[h].wrong THEN Answer(h) ELSE GoOn(h, "save") /\ UNCHANGED obj
    /\ UNCHANGED <<servers, posted, queryVars>>
    /\ Collect(heap)

PutSave(h) ==
    /\ at[h] = "save"
    /\ UNCHANGED posted
    /\ \E result \in {"ok", "error", "again"} :
         /\ IF result = "again" THEN GoOn(h, "save") /\ UNCHANGED obj ELSE Answer(h)
         /\ Save(h, result)

DeleteBy(h) ==
    /\ at[h] = "remove"
    /\ UNCHANGED posted
    /\ \E result \in {"ok", "error", "again"} :
         /\ IF result = "again" THEN GoOn(h, "remove") /\ UNCHANGED obj ELSE Answer(h)
         /\ Remove(h, result)

----------------------------------------------------------------------------
(* The load.  At startup the router serves while the routes are added to   *)
(* it, the servers first; a reload fills a new router, the API first, and  *)
(* then serves with it.                                                    *)

Reload ==
    /\ load.at = "idle"
    /\ loads < MaxLoads
    /\ loads' = loads + 1
    /\ load' = [NoLoad EXCEPT !.at = "apis"]
    /\ UNCHANGED <<guard, tokens, lookedUp, storeVars, up, queryVars>>

\* setupOAuth2: the route of the API refers to the server that was found.
LoadApi ==
    /\ load.at \in {"apis", "start apis"}
    /\ UNCHANGED <<loads, tokens, up, servers>>
    /\ \E result \in {"found", "not found", "error", "again"} :
         /\ FindByName(Loader, ApiServer, result)
         /\ IF result = "again"
            THEN UNCHANGED <<load, guard, lookedUp, heap>>
            ELSE LET o == servers[ApiServer]
                     copy == IF backend = "memory" THEN o ELSE Fresh
                     g == IF result = "found" THEN GuardOf(copy, heap[o]) ELSE Open
                 IN  /\ lookedUp' = (result = "found" \/ o = NoObj)
                     /\ IF load.at = "apis"
                        THEN load' = [load EXCEPT !.at = "servers", !.guard = g] /\ UNCHANGED guard
                        ELSE load' = NoLoad /\ guard' = g
                     /\ Collect(IF ServerOf(g) = {} THEN heap ELSE With(copy, heap[o]))

\* Mutant of Loadable: the loop over the servers ends at the first one that it must skip.
LoadableUntilOneFails(c) == \A n \in Names : servers[n] # NoObj => Builds(heap[servers[n]])

\* getOAuthServers leaves out a server that is not well configured.
Loadable(c) == Builds(c)

\* The routes go into the router that the register has.
Loaded(objects) ==
    IF load.at = "servers"
    THEN load' = [load EXCEPT !.at = "swap", !.tokens = objects] /\ UNCHANGED tokens
    ELSE load' = [load EXCEPT !.at = "start apis"] /\ tokens' = objects

\* LoadDefinitions: the token endpoints of all servers, and those of no other.  A load that
\* cannot read them panics, outside of any request.
LoadServers ==
    /\ load.at \in {"servers", "start servers"}
    /\ UNCHANGED <<loads, guard, lookedUp, servers>>
    /\ \E result \in {"ok", "error", "again"} :
         /\ FindAll(result)
         /\ \/ result = "again" /\ UNCHANGED <<load, tokens, up, heap>>
            \/ result = "error" /\ up' = FALSE /\ UNCHANGED <<load, tokens, heap>>
            \/ /\ result = "ok"
               /\ UNCHANGED up
               /\ LET found == {o \in Elems(servers) \ {NoObj} : Loadable(heap[o])}
                      unused == Objs \ Live
                      copies == CHOOSE f \in Injection(found, unused) : TRUE
                  IN  IF backend = "memory"
                      THEN Loaded(found) /\ Collect(heap)
                      ELSE /\ Loaded(Elems(copies))
                           /\ Collect([x \in Live \union Elems(copies) |->
                                         IF x \in Elems(copies)
                                         THEN heap[CHOOSE o \in found : copies[o] = x]
                                         ELSE heap[x]])

Swap ==
    /\ load.at = "swap"
    /\ guard' = load.guard
    /\ tokens' = load.tokens
    /\ load' = NoLoad
    /\ UNCHANGED <<loads, lookedUp, servers, up, queryVars>>
    /\ Collect(heap)

----------------------------------------------------------------------------
(* Requests on the gateway.                                                *)

To(v, changes) ==
    visit' = [visit EXCEPT ![v] = [f \in DOMAIN @ |->
                IF f \in DOMAIN changes THEN changes[f] ELSE visit[v][f]]]

Finish(v, how, served) ==
    visit' = [visit EXCEPT ![v] = [Idle EXCEPT !.at = how, !.served = served]]

\* NewKeyExistsMiddleware: a request without a bearer token ends here.
Arrive(v, token) ==
    /\ visit[v].at = "idle"
    /\ guard.route # "none"
    /\ IF guard = Open THEN Finish(v, "done", 1)
       ELSE IF token.key = NoKey THEN Finish(v, "refused", 0)
       ELSE To(v, [at |-> "key", key |-> token.key, claim |-> token.claim, guard |-> guard])
    /\ UNCHANGED <<storeVars, up>>

\* IsKeyAuthorized of the JWT manager.
JWTAuthorized(v, result) ==
    /\ visit[v].guard.manager = "jwt"
    /\ result = (visit[v].key \in visit[v].guard.keys)

\* IsKeyAuthorized of the introspection manager: the provider says yes, or no, or does not
\* answer, which panics; without settings every request panics.
IntrospectionAuthorized(v, result) ==
    /\ visit[v].guard.manager = "introspection"
    /\ result => visit[v].guard.works

\* The middleware has the slice of rules that setupOAuth2 saw.
RulesOf(v) == SubSeq(heap[visit[v].guard.server].rules, 1, visit[v].guard.rules)

\* NewRevokeRulesMiddleware: without rules, or with a token that is not a JWT it can check,
\* the request goes on.
CheckKey(v) ==
    /\ visit[v].at = "key"
    /\ \E result \in BOOLEAN :
         /\ JWTAuthorized(v, result) \/ IntrospectionAuthorized(v, result)
         /\ IF ~result THEN Finish(v, "refused", 0)
            ELSE IF RulesOf(v) = <<>> \/ visit[v].key \notin visit[v].guard.keys
                 THEN Finish(v, "done", 1)
                 ELSE To(v, [at |-> "rule"])
    /\ UNCHANGED <<servers, up>>
    /\ Collect(heap)

\* The rule allows: the request is served here, and goes on to the next rule; the end of
\* the rules serves it once more.
Allowed(v) ==
    IF visit[v].rule = Len(RulesOf(v))
    THEN Finish(v, "done", visit[v].served + 2)
    ELSE To(v, [at |-> "rule", served |-> visit[v].served + 1, rule |-> visit[v].rule + 1])

\* A rule that cannot be evaluated is skipped.
Skipped(v) ==
    IF visit[v].rule = Len(RulesOf(v))
    THEN Finish(v, "done", visit[v].served + 1)
    ELSE To(v, [at |-> "rule", rule |-> visit[v].rule + 1])

Judge(v, allowed) == IF allowed THEN Allowed(v) ELSE Finish(v, "denied", visit[v].served)

\* Mutant of ParsedAllows: a rule that was parsed has nothing against the request.
ParsedAllowsAll(r) == TRUE

\* IsAllowed reads parsed without the lock.  A rule that was parsed is not evaluated again,
\* whatever its predicate says of the claims of this request.
ParsedAllows(r) == r.allow

IsAllowed(v) ==
    LET r == RulesOf(v)[visit[v].rule] IN
    /\ visit[v].at = "rule"
    /\ IF r.parsed THEN Judge(v, ParsedAllows(r)) ELSE To(v, [at |-> "parse"])
    /\ UNCHANGED <<servers, up>>
    /\ Collect(heap)

\* Another request may have parsed the rule by now.  A rule whose predicate gives no boolean
\* panics once it is marked as parsed, and the recovery middleware answers.
Parse(v) ==
    LET r == RulesOf(v)[visit[v].rule]
        says == r.says[visit[v].claim]
        s == visit[v].guard.server
    IN
    /\ visit[v].at = "parse"
    /\ \/ says = "error" /\ Skipped(v)
       \/ says = "no boolean" /\ Finish(v, "refused", visit[v].served)
       \/ says \in {"match", "no match"} /\ Judge(v, says = "match" => r.allow)
    /\ UNCHANGED <<servers, up>>
    /\ Collect([heap EXCEPT ![s].rules[visit[v].rule].parsed = @ \/ says # "error"])

\* The secret middleware of a token endpoint adds the secret of the client that the request
\* names, and panics when there is none.  A PUT that is writing the map of the same server
\* may stop the whole program.
Token(v, o, app) ==
    /\ visit[v].at = "idle"
    /\ o \in tokens
    /\ IF app \in heap[o].secrets
       THEN Finish(v, "done", 1)
       ELSE Finish(v, "refused", 0)
    /\ up' \in IF \E h \in Handlers : at[h] = "decoding" /\ obj[h] = o
                                         /\ "secrets" \in DOMAIN req[h].body
               THEN BOOLEAN ELSE {TRUE}
    /\ UNCHANGED storeVars

----------------------------------------------------------------------------

HandlerStep(h) ==
    /\ UNCHANGED <<routeVars, visit, up>>
    /\ \/ Post(h) \/ PutFind(h) \/ PutDecode(h) \/ PutDecoded(h) \/ PutSave(h) \/ DeleteBy(h)
       \/ \E q \in Requests : Begin(h, q)

LoadStep ==
    /\ UNCHANGED <<handlerVars, posted, visit>>
    /\ Reload \/ LoadApi \/ LoadServers \/ Swap

VisitStep(v) ==
    /\ UNCHANGED <<handlerVars, routeVars, queryVars, posted>>
    /\ \/ CheckKey(v) \/ IsAllowed(v) \/ Parse(v)
       \/ \E token \in Tokens : Arrive(v, token)
       \/ \E o \in tokens, app \in Apps : Token(v, o, app)

\* History: what the datastore holds, and what the first rule says of a request.
StoreView == [n \in Names |-> IF servers[n] = NoObj THEN NoServer ELSE Row(heap[servers[n]])]

FirstDenies(v) ==
    LET g == visit[v].guard IN
    /\ g.route = "guarded"
    /\ visit[v].key \in g.keys
    /\ RulesOf(v) # <<>>
    /\ RulesOf(v)[1].says[visit[v].claim] = "match" /\ ~RulesOf(v)[1].allow

\* The datastore changes.  In memory an object in the place of an equal one is a change: what
\* the routes have is then no longer what the datastore has.
Changed ==
    StoreView' # StoreView \/ (backend = "memory" /\ servers' # servers)

History ==
    /\ quiet' = IF loads' # loads THEN TRUE ELSE quiet /\ ~Changed
    /\ mustDeny' = [v \in Visits |->
                      IF visit[v].at = "idle" THEN FirstDenies(v)'
                      ELSE mustDeny[v] /\ (visit'[v].at \in Ended \/ FirstDenies(v)')]

Next ==
    /\ up
    /\ \/ \E h \in Handlers : HandlerStep(h)
       \/ LoadStep
       \/ \E v \in Visits : VisitStep(v)
    /\ UNCHANGED backend
    /\ History

Spec == Init /\ [][Next]_vars

----------------------------------------------------------------------------
(* Properties.                                                             *)

\* When nothing has changed in the datastore since the last load began, the API has the
\* guard that its server calls for, and the token endpoints are those of all well
\* configured servers and of no other.  (handleEvent, onReload, setupOAuth2.)
RoutesFollowStore ==
    (up /\ quiet /\ load.at = "idle") =>
        /\ {Row(heap[o]) : o \in tokens} =
             {StoreView[n] : n \in {m \in Names : servers[m] # NoObj
                                                    /\ Builds(heap[servers[m]])}}
        /\ lookedUp =>
             LET c == StoreView[ApiServer] IN
             IF c = NoServer \/ (c # NoServer /\ ~Guards(c)) THEN guard = Open
             ELSE /\ guard.route = "guarded"
                  /\ guard.manager = c.strategy
                  /\ guard.keys = SigningKeys(c)
                  /\ Row(heap[guard.server]) = c

\* A request that the first rule denies, as long as it was checked, reaches no upstream:
\* not when another request has parsed the rule first, not when a reload changes the
\* routes, not when a PUT works on the same rule.  (AccessRule.IsAllowed.)
DenyHolds ==
    \A v \in Visits : (mustDeny[v] /\ visit[v].at \in Ended) =>
        visit[v].served = 0

\* A server that a POST stored is there, as it came, until a PUT or DELETE begins: no other
\* POST of the name replaces it.  (On cassandra, which upserts, another POST may.)
PostedStays ==
    \A n \in Names : posted[n] # NoServer =>
        servers[n] # NoObj /\ Row(heap[servers[n]]) = posted[n]

=============================================================================
