# Janus in TLA+

Specifications, model checking and proofs for the Janus API gateway in this repository
(`src/janus`) and the demo backends beside it (`src/user-service`, `src/product-service`,
`src/order-service`). Paths below are relative to `src/janus/pkg` unless they begin with
`src/`.

The gateway is a Go program. Requests, loops and monitors are goroutines that share
memory under a few locks; nodes of a cluster talk over HTTP and share a datastore. What is
hard to get right in it, and hard to test, is what happens *between* the locks. That is
what the modules are about.

## 1. Inventory

### Parts with a state of their own

| part | code | state | operations |
|---|---|---|---|
| cluster membership, election, registry | `web/health_check.go` | `leaderID`, `aliveNodes`, `registeredNodes`; `proxy/balancer.ActiveNodes` | monitor loop: elect, probe backends or copy the leader's registry, rewrite the health map; register handler; crash handler |
| registration of backends | `src/*-service/discovery.go` | position in `REGISTRY_URLS` | post to one node after the other, for ever |
| round robin balancer | `proxy/balancer/rr.go` | cursor per route, the health map | `Elect` |
| weighted balancer | `proxy/balancer/weight.go` | none | `Elect` |
| notification hub | `web/notification.go` | `history`, `seen`, `subscribers`, one channel each | publish, replicate, subscribe, stream, unsubscribe |
| admin API of definitions | `web/api_handler.go`, `api/api.go` | the definitions themselves, which handlers share by pointer | POST, PUT, DELETE |
| configuration loops | `server/server.go`, `loader/api_loader.go`, `proxy/register.go` | `currentConfigurations`, the `Register` and its router, the served handler, `configurationChan` | admin loop, provider loop, `handleEvent` |
| repositories | `api/*_repository.go` | the datastore | load, listen, watch |
| lifecycle | `server/server.go`, `web/provider.go`, `cmd/server.go`, `cmd/context.go`, `plugin/events.go` | the context, the server, channels that are closed, what the startup hooks made | connect, start, signal, close, end |
| cassandra wrapper | `src/janus/cassandra/wrapper` | the session, the datastore's keyspaces and tables | `Initialize` with the schema file, retried queries and iterators |
| organization and basic auth | `plugin/organization`, `plugin/basic` | users and organizations, which the repository in memory shares by pointer; a variable that all requests of a route capture | create, change and delete; the check of credentials |
| oauth2 | `plugin/oauth2`, `jwt` | OAuth servers, the routes and token endpoints made from them, access rules that remember that they were parsed | create, change and delete; load at startup and reload; token, key and rule checks |
| transport registry | `proxy/transport` | transports by parameters | get or create, purge idle connections |

The rest (middleware, metrics, rendering, transformers, body limit, CORS, compression,
login, configuration, status page) rewrites one request or reads what others wrote.
`PROJECT.json` lists each part with the files it stands for and why it is left out.

### How they interact

- **Backend → register handler → registry → health map → balancer.** A backend posts its
  URL to every node. The handler adds it under the lock of the registry and then copies
  the registry into the health map under the lock of the balancer. The balancer skips
  targets that the map says are down.
- **Monitor ↔ monitor.** Every few seconds a node asks its peers for their status, elects
  the least id it heard, and then probes the registered backends itself (leader) or
  replaces its registry by the leader's (follower).
- **Admin handler → admin loop → memory, router, listener → datastore.** A handler checks
  the memory and sends a message. The admin loop changes the memory, rebuilds the router
  and passes the message on to the listener, which writes the datastore.
- **Datastore → watcher → provider loop → memory, router.** The watcher reads the whole
  datastore at every tick; the provider loop replaces the memory if it differs.
- **Hub → hub.** The node that takes a notification posts it once to each peer.
- **Command → datastore → server.** `RunServerStart` connects, applies the schema file,
  starts the goroutines and waits. A signal cancels the context; `Close` then closes the
  server and the channels that handlers, loops and watcher still use.
- **Reload → plugins → repositories.** A reload asks each plugin for the middlewares of a
  route, and the hook of oauth2 for its token endpoints. What they find in the datastore
  stays behind the route until the next reload: a copy, or with the repository in memory
  the stored object itself.
- **Admin handler of a plugin → repository ← middleware.** They share the datastore and
  nothing else orders them.

### What is hard, and what makes each part correct

| part | hard | correct when |
|---|---|---|
| cluster | snapshots read under one lock and written under another; chains of copies between registries; lost probes; restarts with empty state | healthy backends stay at their leader; only announced backends are marked up; leaders and balancers converge once faults end |
| round robin | one cursor for all requests; the health map changes between two turns | turns go round fairly; an election tries every host before it fails; elections end |
| notification hub | duplicates, eviction, full channels, closed channels, one try per peer | the dedup set *is* the history; no send on a closed channel; streams are ordered and repeat nothing; peers are reached |
| hot reload | two loops that both replace the memory and rebuild one shared register; objects shared by pointer; failing writes; a blocking hand over | requests are answered; the memory ends as the datastore; the datastore ends as the last accepted requests asked, if no refused or renaming PUT spoils them |
| lifecycle | double close, send on a closed channel, reload before startup, a schema applied halfway | a gateway that has started stays up; waiting means closed; no sender is stuck; a signal ends the process; the tables of the file are there |
| users | attempts that fail and were carried out; objects shared by pointer; names and passwords read without a lock; a captured variable | what is stored is hashed; an accepted password works; a deleted user stays out; each request carries its own organization |
| OAuth servers | a load between requests, writes and reloads; rules shared by routes and handlers; a parse without a lock | routes follow the datastore; a denial of the first rule is not overtaken; a POST does not replace |

Every hazard found while reading, at its line, is in `PROJECT.json` under `hazards`, with
the properties that cover it or the reason why none does yet.

## 2. The modules

| module | what it is |
|---|---|
| `Cluster` | nodes, monitors, heartbeats, crashes |
| `RoundRobin` | the elections of the requests in flight on one route |
| `BoundedLog` | abstract: one log of distinct entries per node, with a capacity |
| `NotificationHub` | hubs, replication, streams; implements `BoundedLog` |
| `HotReload` | admin API, both loops, router, listener, watcher, datastore |
| `Cassandra` | the retried queries of one caller, and the failures of the datastore |
| `Accounts` | basic and organization auth: handlers, repositories, middlewares; extends `Cassandra` |
| `OAuth` | oauth2: handlers, repositories, loads, guards and token endpoints; extends `Cassandra` |
| `Schema` | how a schema file is read, and what its statements do |
| `Lifecycle` | one process from its start to its end and its next start; extends `Schema` |
| `MC…` | instances for TLC |
| `…Proofs` | theorems about the module of that name |

`Cluster` and `RoundRobin` meet in the health map: `SyncBalancer` and
`RegisterSyncBalancer` of the first are the `SyncHealth` of the second, which lets the map
change to any set of marked backends at any time, so it covers whatever `Cluster` does.
`known` and `marked` are the same variables in both. `HotReload` and `RoundRobin` meet in
a reload, which makes new balancers: the list of hosts never changes in `RoundRobin`.

`Lifecycle`, `HotReload` and `OAuth` cut one system in three. `HotReload` has the
definitions, the routers and the loops that replace them, between startup and shutdown.
`Lifecycle` has the same loops without the data: when they begin, what a reload needs of
the startup (`HandleEvent`), and when they end. `OAuth` has what a reload does for the
plugin, one reload at a time: how two of them overlap is the matter of `HotReload`.

### Cluster

Each read or write under a lock is a step, and so is each HTTP request between them. The
monitor of node `n` goes through `pc[n]`:
`elect` (`ProbePeer`, `ElectLeader`) → leader: `list`, `check`, `remove`
(`ListBackends`, `CheckBackend`, `RemoveBackend`), or follower: `fetch`, `replace`,
`resnapshot`, `reapply`, `snapshot` (`FetchServices`, `ReplaceRegistry`, and the call of
`syncBalancerHealth` inside `setActiveServices`) → `apply` (`ReadRegistry`,
`SyncBalancer`). A backend goes through `hbPc[s]`: `post`, `snapshot`, `apply`
(`Register`, `RegisterReadRegistry`, `RegisterSyncBalancer`).

- A peer that fails to answer is either down or a *fault* (a timeout, an error status).
  The same holds for backends and for the leader's answer.
- A crash empties the node: all its state is in memory. `suspect` remembers the backends
  that had a reason to be removed. It is history: no guard reads it.
- `Least` takes node ids as numbers; the code sorts strings.

### RoundRobin

A turn is two steps, because `Elect` takes the host under one lock and asks for its health
under another. `Alive` is `isTargetAlive`: local targets, the empty map, the URL and then
its health key. `lap`, `refused` and `disturbed` are history variables.

### NotificationHub

`publishNotification`, `subscribe` and `unsubscribe` hold the lock of the hub, so each is
one step. A replication request may arrive any time after it was sent, also after its
sender gave up on it. `Accept` is the whole of `publishNotification`: duplicate check,
history, eviction, fan out with non-blocking sends. A crash takes the hub, its streams,
the requests on their way to it and the posts its goroutines had still to make.

### HotReload

Definitions are objects on a heap, because the code passes pointers: a PUT decodes into
the object that the memory, and perhaps a pending write, refers to. `Collect` drops what
nothing reaches, which keeps the state space small and changes no behaviour.

- The content of a definition is its name, its listen path and whether it is valid.
- Slices are values: the in place shift of `RemovedOperation` is modelled for its own
  result, not for readers that hold the old slice. `Turn` is a turn of that loop, which
  ranges over the slice as it was, so its elements move under it, while the slice it cuts
  gets shorter; a turn past the end of that is the slice bounds panic. `Removes` says what
  is left when the names of the definitions do not repeat.
- `RegisterAPI` is a step per definition; the decoding of a body is one step.
- A write to the datastore is one step that happens or fails. `expected` is history: what
  the last accepted request wants for each name, or `"unknown"` when nothing is promised.
- An accepted change waits at the listener as a pointer. A second PUT for the same
  definition decodes into that object before it is checked (`web/api_handler.go:77`). When
  it is refused, the listener validates what it finds (`api/mongodb_repository.go:153`) and
  stores the wrong content or drops the accepted change; when it names another definition,
  the change is stored under that name. `PutBody` makes the names of such a change unknown
  (`lost`), so `LastAcceptedWins` does not count them. The same happens to a DELETE, which
  then takes away what the object is called by now. Without the excuse TLC finds the
  property violated.
- Once the loop panics (`crashed`) the process is gone and nothing more happens. In the
  bounds of the passing runs no behaviour gets there: it takes three requests.

### Cassandra

`Exec` and `Scan` run a failed query again, up to `Attempts` times; `attempt[c]` counts the
failures of the query that `c` runs. `ScanAndClose` repeats only `Close` of its iterator,
and gocql keeps an iterator's error, so its later turns fail without a query. A failed
attempt may have been carried out: the callers say `Upsert(h) \/ NoWrite` for it.

### Accounts

One call of a repository is one step of a handler, and the decoding of a PUT is a step
between two of them. Passwords are a text and the number of times it was hashed; `Compare`
is true for exactly one time. Users are objects on a heap (`Collect`, `Fresh` as in
`HotReload`) because the repository in memory hands out what it stores: a PUT that turns
out to be wrong halfway has changed the user by then, and a rename leaves one object under
two names.

- The middleware loops over the objects themselves when the repository is in memory, and
  reads the name of a user before its password, without a lock: `CompareName` and
  `ComparePassword` are two steps for each user, and a PUT may decode or save in between. It
  may let in an old name with a new password, a pair that never was a user's; no property
  forbids it. With mongodb and cassandra the loop is over copies (`Judge`).
- `shared` is the variable `organization` that `NewOrganization` captures: `LetIn` writes
  it, `Forward` reads it, and between them is the query for the configuration.
- `promised`, `alone`, `gone` and `barred` are history: which password must work, whether
  another request touched the same user, which users were deleted and not added since, and
  which requests came after that.
- In memory a PUT that renames a user leaves it under the old name too, and a DELETE of the
  new name leaves that entry, which still lets in the new name. `Dismiss` does not count
  such a user as gone (`StoredElsewhere`).
- `Touches` says which users a request may change: those it names, those whose names its
  objects carry, and those its objects are stored under. The last two matter in memory. A
  PUT for `u1` whose body renames to `u2` and is wrong afterwards leaves the object of `u1`
  with the name `u2`; the next PUT for `u1`, whatever it says, stores that object in the
  place of `u2`, whose password is gone (`Update` in `plugin/basic/handler.go`, `Add` in
  `in_memory_repository.go`). `AcceptedWorks` counts such a PUT as one for `u2` too. It
  takes four requests; looking for the invariant of its proof found it.
- A PUT without a password hashes the stored hash once more, so the old password no longer
  works; `promised` ends with the begin of every PUT.
- `Create` of an organization user answers 201 also when its last part, the lookup of the
  organization, failed; `OrgFind` has it. A route whose plugin could not be set up is open.

### OAuth

Handlers, repositories and the heap are as in `Accounts`. A server is its name, its token
strategy, the shape of its settings, a key, its client ids and its rules. `Builds` and
`Guards` say which servers make a manager and which a guard: they differ, because
`setupOAuth2` wants signing methods whatever the strategy. `guard` and `tokens` are what
the serving router has for the API and for the token endpoints. At startup they are filled
while it serves; a reload fills new ones and swaps.

- `says` is what the predicate of a rule gives for each kind of claims: a match or none, an
  error, after which the rule is skipped, or a value that is no boolean. The last panics
  after the rule was marked as parsed, and the recovery middleware answers: this request is
  refused, and the next ones get what the action of the rule says.
- A rule is `parsed` once for all requests. Afterwards it is not evaluated again: it allows
  or denies whatever the claims are. `Parse` is a step of its own, as `IsAllowed` looks at
  the mark without the lock. An allowing rule serves the request, and so do the next ones
  and the end of the list: with `n` of them a request is served `n + 1` times. A rule that
  denies stops only what comes after it, so `DenyHolds` is about the first rule.
- `visit` is a request on the gateway; `Token` is one on a token endpoint, which reads the
  map of secrets that a PUT may be writing: Go then stops the program (`up`).
- `quiet`, `posted`, `alone`, `mustDeny` are history. `quiet` ends with every change of the
  datastore, and in memory also when a PUT puts its object back in the place of an equal
  one: routes share the objects that were stored when they were loaded, so the next PUT
  changes the datastore and not the routes. That takes four admin requests and is out of
  the bounds of the run; the proof of `RoutesFollowStore` found it.
- `Objs` has an object for whatever can hold one at the same time, so `Fresh` and the copies
  of a load always exist; the proofs count them.
- Left out: a PUT body with fewer rules than the server has. `json` then shortens the slice
  of the server, and the routes keep the longer one.

### Schema and Lifecycle

A schema file is a sequence of clauses, strings, comments and semicolons (`IsFile`).
`Reading` reads it as `getStmtsFromFile` does, token by token, and `Statements` is what it
ends with; `Asked` says what tables the file asks for without regard to that. The wrapper
takes any statement with the word `USE` in it for a `USE` statement, in strings too.
`SchemaApplied` is therefore about files in which each `USE` stands alone
(`UsesStandAlone`), as in those of the repository: no string has the word in it, and no
`USE` shares its statement with another clause. Statements are executed one by one, and
each failure ends the process, possibly after the statement was carried out.

The goroutines of one process are the fields of `proc`: `main` is `RunServerStart`, then
`signal`, `closer` (the deferred calls of `Close`, last one first), `http`, `admin`,
`listener`, `watcher`, `provider` and the admin requests in `sender`. `Dies` stands for a
panic that nothing recovers and for `log.Fatal`; the panics of handlers are recovered.
Facts of the code that the model has and that a reader may not expect:

- Every orderly shutdown ends in a panic or a fatal error: `Serve` returns an error when
  the server closes, the deferred `Close` of the command closes what is closed, and a
  listener that sees its channel closed before the context takes a nil message.
- A signal before the `select` is lost, and a second signal is sent on a closed channel.
- When the definitions cannot be read, `StartWithContext` returns an error that nobody
  looks at. The process waits with the provider loop and without an admin API.
- The hook of oauth2 leaves its loader nil when the repository fails with mongodb or
  files; the next reload panics. `StaysUp` excuses that by the failure.
- Before the gateway has `Started`, a reload may meet a nil server or loader.

## 3. What TLC checks

| run | question | bounds |
|---|---|---|
| `cluster` | are healthy backends kept, is every mark announced, do balancers converge? | 2 nodes, 1 backend, 2 faults |
| `election` | do all nodes end with the least running node? | 3 nodes, 3 faults |
| `round_robin` | are turns fair, sweeps full, and do elections end? | 2 requests, 3 targets, 2 health keys |
| `streams` | what do subscribers and the history see? | 1 node that posts to itself, 2 clients, 3 notifications, history of 2, channels of 1, 1 crash or lost request |
| `replication` | is every peer reached? | 2 nodes, 3 notifications, 1 crash or lost request |
| `hot_reload` | are requests answered, and does the last accepted one win? | 2 handlers, 2 names, 2 requests (POST, PUT or DELETE), 1 failed write; an empty datastore or one definition |
| `hot_reload_store` | does a DELETE take out one definition, and does the memory end as the datastore? | 1 request, 1 write from elsewhere, 1 failed write |
| `hot_reload_served` | does the router end as the datastore? **no** | 1 handler, 2 requests |
| `accounts` | is what is stored hashed, do accepted passwords work, do deleted users stay out, is the configuration one's own? | both plugins, 3 datastores, 2 users, 2 handlers, 2 clients, 2 to 5 admin requests (5 in memory), 2 failures, 2 attempts |
| `organization_header` | does a request carry its own organization? **no** | the same, organization auth on cassandra |
| `oauth` | do routes follow the datastore, do denials of the first rule hold, do POSTs keep off each other? | 3 datastores, 2 servers, 2 handlers, 2 visits, 2 loads, 1 to 2 admin requests, 2 failures |
| `lifecycle` | is the schema applied, does a started gateway stay up, does everything come to its end? | 3 datastores, 6 schema files, 1 handler, channel of 1, 1 failure, 2 signals for each process |

Why the bounds are enough to be of interest:

- *Cluster.* A wrong mark needs a copy that is older than a change; two nodes give a
  leader and a follower, both roles for both nodes, and with two faults a node can crash
  and a probe be lost, or a node crash twice. Three nodes are the least where two followers
  may disagree. The deployment in `src/docker-compose.yml` has two nodes.
- *RoundRobin.* Two requests are the least that disturb each other; of three targets one
  is a key of the map, one is found by its health key and one is unknown to it. The
  proofs cover all other numbers.
- *NotificationHub.* Three ids and a history of two give an eviction and a copy that
  arrives after it; a channel of one fills at once; node 1 is its own peer, which is what
  `JANUS_PEERS` can say, so that copies come back.
- *HotReload.* One place in `configurationChan` makes the watcher wait and a snapshot old.
  Two requests overlap in the loops and at the listener: a PUT that is refused for its path
  and one that renames (`MCSpoils`) meet a POST, a PUT or a DELETE of the same definition.
  The store run has one request, a PUT of a path that another definition has, of an invalid
  path, or of another name (`MCUpdates`), because a write from elsewhere makes its third. Objects: eight (nine for the PUT
  runs) are never used up in these bounds; `Watch` and `Post` would be disabled otherwise.
- *Accounts.* Requests that change one user, rename it to the other, with and without a
  body that is wrong, create the other, delete a user and create it again; two failures are
  as many as attempts, so a query may be given up. Two clients of different organizations
  share the variable. In memory the objects that two names share take four requests to do
  harm, hence five; the tables have no such objects.
- *OAuth.* The server of the API comes with a list of methods, with the legacy object, with
  an unusable map, with and without rules, beside a server that is not well configured;
  requests rename it, change its rules and keys, and delete it. Two loads: the one at
  startup and a reload. Two visits race for the parse of one rule. `Handlers` and `Visits`
  are symmetric: no definition tells them apart and no liveness is checked.
- *Lifecycle.* The files are the one of the repository with two of its tables, one with
  everything the reader must skip, one that lacks a table, one that uses a keyspace nobody
  created, one with `USE` in a string, which sends the wrapper to that keyspace instead of
  making the table, and none. The keyspace may exist before. One place in `configurationChan` makes
  the watcher wait. Two signals: the one that cancels, and one that is lost or too much.
  After its end the process may start again on what the last one left in the datastore.

`CHECK_DEADLOCK FALSE` is set where the system may really stop: in the runs of
`NotificationHub`, `HotReload`, `Accounts` and `OAuth`, when every notification was
published or the requests are used up, and in `lifecycle`, whose process waits for a signal
when all is quiet.

What several register handlers do to one node at the same time is not an instance of its
own: `AnnouncedFirst` and `HealthyKept` are proved for every number of backends.

Every property has a mutant in `PROJECT.json`: a change of one mapped definition, of the
kind a programmer makes, under which TLC finds the property violated.

### Fairness

- `Cluster`: `Monitor(n)` and `Heartbeat(s)` are weakly fair. Both are endless loops
  without a blocking operation other than HTTP requests, and they make the next step while
  their process runs. The heartbeat's `http.Post` has no timeout, so this assumes that a
  node that accepts a connection answers or dies. Crashes, faults and **restarts** are not
  fair: a node may stay down.
- `RoundRobin`: a request that is in `Elect` runs on.
- `NotificationHub`: the replication goroutine runs on and a request on its way is served.
  Streams need no fairness, and `MCStreams` states none.
- `HotReload`: each loop, the listener and the watcher run on. The admin loop picks *some*
  waiting request: the channel's senders are not served in a stated order. No client is
  fair, and a PUT may hold its body back for ever.
- `Lifecycle`: main, `Close`, the HTTP server, the admin loop, the listener and the recovery
  of a handler are weakly fair: they run on while the process does. `Receive(h)` is
  strongly fair, because a Go channel queues its senders and the loop takes the one that
  has waited longest. The watcher and the provider loop need no fairness here. Nobody has
  to send a request or a signal, and nobody has to start the process again.
- `Accounts` and `OAuth` state safety only, without fairness.

### Findings

1. `hot_reload_served`: both loops swap the router of the one `Register` while the other
   fills it. The one that publishes last may publish an empty router. Afterwards the
   memory equals every snapshot, so nothing rebuilds it and the routes answer 404.
2. `organization_header`: the requests of a route share one variable. A request writes the
   organization of its user to it, queries the datastore, and copies the variable to
   `X-Organization`; a request of another user in between has changed it. The
   configuration header is right (`OwnConfig`), as its organization is kept apart.

More facts of the code have no run of their own, because no document of the repository
says otherwise, and are told in the hazards:

- two elections that share the cursor may both miss the one host that is alive
  (`proxy/balancer/rr.go`; `FullSweep` is about elections that had the cursor for
  themselves);
- a PUT changes the stored definition before it looks for the path, so it finds itself and
  listen paths may repeat (`web/api_handler.go`);
- an accepted change that waits at the listener is lost when a refused PUT writes into the
  same definition;
- two POSTs of one name that are in flight at the same time are both accepted. A POST that
  comes after the other was applied is answered 409, as `features/API.feature` expects;
- basic auth in memory may let in a name and a password that were never a user's together;
- an access rule that denies does not undo that an earlier rule, which allows or does not
  match, has had the request served.

## 4. What TLAPS proves

For all constants that meet the named assumptions of the modules (node ids are naturals,
the list of registries is not empty, the history holds at least one entry, hosts have a
health key, `configurationChan` has room for at least one message, a schema file is a
sequence of tokens, users, handlers and clients are finitely many, requests and
credentials are well formed, OAuth servers, handlers and requests are finitely many, a
stored server has a name of its own, a query is tried at least once, definitions and their
objects are finitely many and the requests for them carry a name and a path):

| theorem | argument |
|---|---|
| `ClusterProofs`: `TypeCorrect` | inductive as it stands, one step per action |
| `AnnouncedFirstHolds` | `AnnouncedFirst` speaks of the health map only, which is written from copies of registries that came from other registries. `IInv` adds the same claim for registries, for the copy a monitor carries (`CopiesAnnounced`) and for the copy of a handler. `AnnouncedGrows`: once announced, always announced, because a backend stops serving only by becoming suspect |
| `HealthyKeptHolds` | needs that a node in `fetch` or `replace` follows somebody else (`RoleMatchesLeader`), so a leader never replaces its registry, and that what it removes is suspect (`RemovesSuspects`) |
| `HealthMapNeverShrinksHolds` | from the type invariant, action by action |
| `RoundRobinProofs`: `TypeCorrect` | with `LoopInv`: a request at the top of the loop has turns left |
| `FairTurnsHolds` | `LapInv`: the slots of the lap are exactly those below the cursor |
| `FullSweepHolds` | `SweepInv`: what an undisturbed election refused is the window of `tries` slots that ends at the cursor, cyclically; a window of length `N` is the list |
| `NotificationHubProofs`: `TypeCorrect` | lemmas on what `Tail` and `Append` keep |
| `SeenIsHistoryHolds` | dropping the head of a sequence of distinct entries drops exactly that entry (`TailElems`), so the set and the sequence shrink alike |
| `SendsOnOpenHolds` | with `OneHub`: a client is in the map of one hub at most, or a crash of one would leave its closed channel in another |
| `ImplementsBoundedLog` | refinement, history for log: `HubStep` says that a step changes no history, appends to one (with the eviction), or empties one; with `SeenIsHistory`, "not seen" is "not in the log" |
| `StreamsInOrderHolds`, `OncePerStreamHolds` | `StreamsFollow` has two parts. `Handed`: what a stream was handed is in the history, or was evicted. `InOrder`: of what is still there the order is that of the history. An entry that is kept moves by the same distance as all others (`KeptPlaces`), and a new one comes last in both; that it was in neither before is `SeenIsHistory` |
| `LifecycleProofs`: `TypeCorrect` | `TypeInv` adds that there is a statement left while the session carries statements out, so that `Head` and `Tail` are defined, and that the keyspace of the system exists. What an action does to the fields of `proc` is stated apart from the action (`MainMoves`, `CloseMoves`, `LoopMoves`). `RemainingSteps`: the tail of a rest is a rest |
| `SchemaCorrect` | Two halves. About reading, by induction over the tokens (`ReadingType`, `ReadingGrows`, `StatementTokens`): from the end of one statement to the next semicolon the reader makes one statement, of just the tokens between them that are no comments (`StatementEnds`). About the session, `SchemaInv`: while statements remain, there is a token `i` such that the statements up to `i` are carried out (`CarriedOut`): the session is in the keyspace of the last `USE` up to there, and every table asked for up to there exists. A `USE` that stands alone changes the keyspace and asks for nothing (`UseStatement`); any other statement that Cassandra accepts has one clause and adds what it asks for (`OtherStatement`). When nothing remains, no semicolon does (`NoneLeft`) |
| `WaitBlocksHolds` | `IInv` has three parts. `ClosedInOrder`: the server is closed once `Close` has begun with the channels, and the closed channels are those that the calls made so far close, so `stop` is the last |
| `StaysUpHolds` | `SetUp`: once the definitions were found and main waits, the loader is set or a failure was counted; a server that serves is not nil. By `ClosedInOrder` no channel is closed before the context is cancelled. Of every action that ends the process, its guard then contradicts `Started`, or the context is done, or a failure was counted. `Shape` keeps the few types that this needs |
| `AccountsProofs`: `TypeCorrect` | `TypeInv` adds what each phase of a handler has in hand, and how often a password was hashed (`RoundsOK`): at most once for each request that began and is past its save. With mongodb and cassandra a request hashes its own copy, so it counts from the time it found its user, however often it tries. `SpareObject` counts rows, handlers and lists. Each step of a handler is first shown to be a `Change`: of which names, which object in hand, and one content |
| `OwnConfigHolds` | `ConfigLast`: a request has no configuration until its organization is fixed, and then the one of that organization |
| `HashedAtRestHolds` | `TableInv`: with mongodb and cassandra no handler holds the object of a row (`Rows`), no client holds a list (`NoLists`), and who adds has a user (`HasUser`). That a new object is none of those in use is `FreshIsFree`, which counts them |
| `AcceptedCorrect` | `WorksInv` has three parts. `Apart`: a request that is alone has users of its own (`Touch`), and so it keeps them: a step changes the users of its own request only, and another request gets none but those (`ReachSpreads`, `ReachStaysApart`). `Carries`: such a request still holds the password it was sent when it saves. `Kept`: the password of a promised user is behind its name, and no request that may still write or delete reaches that user; a POST that has yet to look for its user finds it |
| `DeletedCorrect` | `OutInv`, on top of the types and of `WorksInv`. `Absent`: no object that is stored carries the name of a deleted user, and no request that may still write reaches it. It holds when the DELETE is answered (`DeletedAbsent`) and is kept (`AbsentMoves`, `HandlerReach`): a handler writes only users that it touches, and `Begin` takes those out of `gone`. A request that came afterwards lists no such object and waits behind none, so it is not let in; without the part about requests that still work, a late save would bring the user back |
| `OAuthProofs`: `TypeCorrect` | `TypeInv` adds to `TypeOK` what each phase of a handler, a load and a request has in hand, and that a router has at most one token endpoint for each server: with it `FreshIsFree` and `CopiesOK` count the objects in use |
| `DenyCorrect` | `DenyInv`: a request that must be denied has ended, or stands at the first rule, which still denies it. A rule keeps what it denies when another request parses it (`Parse` sets a mark), and history forgets the duty when a PUT changes the rule |
| `PostedCorrect` | `PostInv` has three parts. `Unshared`: the object of a POST is nobody else's until it is stored. `AloneInv`: who is alone overlaps with nobody. `PostedOK`: while a POST counts, no handler has a PUT or a DELETE that may change it |
| `RoutesCorrect` | `FitInv` follows the load: `RoutesFit` says of each phase which of its router's guard and endpoints already fit the datastore; a step that changes no row of the datastore keeps them (`FitKept`), for routes and datastore are compared row by row. `CopiesApart`: with mongodb and cassandra no handler works on an object behind a route. In memory they share it, and then the two change together |
| `HotReloadProofs`: `TypeCorrect` | `TypeInv` adds what each phase of a handler, a loop and the listener has in hand (`PhasesOK`). A loop that is about to rebuild holds no router, so of the four one is free (`RouterFree`). `Live` is computed again for each action, because `Collect` drops what it leaves out. The lists that the watcher reads exist because every place of a finite set is taken (`Places`, by induction), and so do the objects that a snapshot gets |
| `DeleteRemovesHolds` | by induction over the turns of the loop in `RemovedOperation`: before the one turn that finds the name nothing moves, after it no element that is read has the name, although each has moved (`RemovalOfOne`, `RemovalOfNone`); what is left is the list without that place (`CutRemoves`) |
| `CassandraProofs` (lemmas) | the attempts and failures of a query keep their type through each of its answers |

Only model checked is liveness (`BalancerConverges`, `LeaderConverges`, `ElectionEnds`,
`EveryPeerReached`, `SendersReleased`, `SignalEnds`, and the properties of `HotReload` that
say what is answered and what ends up where), because the prover does not reason about
fairness here. Every invariant and every action property that a passing run checks is
proved.

The induction theorems of the library take an operator as a parameter, which the provers
cannot instantiate. `LifecycleProofs` does without them: that every set of naturals that
is not empty has a least element (`LeastNatural`) follows from two theorems about
well-founded relations, and gives an induction over a *set* of positions (`Induction`).
That `Reading` is defined at all, as a function that is recursive, is shown the same way
(`ReadingExists`). `HotReloadProofs` does both for the turns of the loop that removes a
definition (`TurnsExist`, `TurnSteps`).

## 5. Not modelled, and why

- Formatting and parsing of messages, headers, logging, metrics, tracing, rendering.
- Handlers that only read (status, lists, history, stats).
- A node or backend that hangs without dying, and the demo stress handler beyond the crash
  it provokes.
- Data races on single words that the Go memory model leaves open; the models take every
  unlocked read or write of a variable as one step. The fields that the body of a PUT holds
  reach the object in one step, and so do the checks and the write of `Add` in the
  repository in memory, which reads, hashes and writes back the password of the object
  under the lock of the repository, though readers of the object do not take it.
- What the watcher of files does to the definitions: it replaces them by those of the one
  file that changed. `Lifecycle` has its beginning and its end.
- `Stop` of `server/server.go`: nothing calls it.
- The weighted balancer and the rewriting of URLs: functions of one request. The registry
  of transports: two routes with the same parameters may make two of them, the later one
  stays, and nothing else depends on which.
- Retry, rate limit and circuit breaker configure libraries that are not in the repository.
- The startup hooks of the other plugins open a repository and no more. No plugin hooks the
  shutdown event.
- Body limit, transformer, compression, CORS, the status page, the guard of the admin API
  and the login: each handles one request and changes nothing that others read.
- Configuration is read once, before main begins.

## 6. Plan

Done: the modules above, and the proofs of every invariant and action property that the
runs check.

Next, in this order:

1. A safety statement about the router that is published: when no other loop was rebuilding
   between the begin of a rebuild and its end, it serves exactly the valid definitions the
   rebuild began with. `hot_reload_served` shows what happens otherwise.
2. Transports and the weighted balancer, as operators that are checked against reference
   definitions.
3. An instance of `Cluster` with three nodes and two backends for safety, with symmetry of
   the backends.

The abstract specifications worth stating next are a store with one writer order, which
the admin loop and the listener implement together, and a lifecycle that closes each
channel once.
