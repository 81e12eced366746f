------------------------------- MODULE Lifecycle -------------------------------
(***************************************************************************)
(* The life of one process of the gateway: cmd/server.go connects to the   *)
(* datastore and sets up its tables, pkg/server/server.go starts the       *)
(* goroutines that serve, and closes their channels when a signal has      *)
(* cancelled the context.  Many of them may panic, which ends the process. *)
(*                                                                         *)
(* Definitions and routers are left out: HotReload models what a reload    *)
(* does to them, this module when a reload may happen and what else goes   *)
(* on at the time.                                                         *)
(***************************************************************************)
EXTENDS Schema, SequencesExt

CONSTANTS
    Kinds,        \* "cassandra", "mongodb", "file"
    Files,        \* schema files
    App,          \* keyspace of the application
    Definitions,  \* table of the API definitions
    Servers,      \* table of the OAuth servers
    Handlers,     \* goroutines that serve admin requests
    ChanMax,      \* capacity of configurationChan, 100 in the code
    MaxFailures,  \* bound on the failures of the datastore in the life of one process
    MaxSignals    \* bound on the signals that one process is sent

ASSUME FilesAssumption == \A f \in Files : IsFile(f)
ASSUME BoundsAssumption ==
    ChanMax \in Nat \ {0} /\ MaxFailures \in Nat /\ MaxSignals \in Nat

VARIABLES
    kind, file,         \* the configuration of the gateway
    keyspaces, tables,  \* what Cassandra holds
    up,                 \* the process runs
    proc,               \* its goroutines and its memory, see Processes
    failures, signals   \* in the life of the process

storeVars == <<keyspaces, tables>>
vars == <<kind, file, storeVars, up, proc, failures, signals>>

Phases == {"connect", "schema", "statements", "session", "start", "find", "provide",
           "watch", "hooks", "register", "wait"}

\* What Close closes after the server: its deferred calls run last to first.

\* Mutant of Deferred: they run in the order they are written in.
DeferredFirstToLast == <<"stop", "changes", "admin">>

Deferred == <<"admin", "changes", "stop">>

Channels == ToSet(Deferred) \union {"listener"}

AllFiles == Files \union {<<>>}

\* The tables that each file names.
Named ==
    [f \in AllFiles |-> {f[i].table : i \in ClausesOf(f, "table")}]

\* What remains of the statements of each file.
Remaining ==
    [f \in AllFiles |->
        LET stmts == Statements(f)
        IN  {SubSeq(stmts, k, Len(stmts)) : k \in 1 .. Len(stmts) + 1}]

Tables == [f \in AllFiles |-> Asked(f)]

Readable == {f \in AllFiles : UsesStandAlone(f)}

Processes == [
    main      : Phases,                                       \* RunServerStart
    session   : keyspaces, todo : Remaining[file],            \* the schema session
    signal    : {"off", "notified", "selects", "closed"},     \* ContextWithSignal
    cancelled : BOOLEAN,                                      \* the context is done
    closer    : 0 .. Len(Deferred) + 1,                       \* calls of Close made
    http      : {"off", "starting", "made", "serving"},       \* startHTTPServers
    server    : {"nil", "made", "closed"},                    \* s.server
    web       : BOOLEAN, configs : BOOLEAN, loader : BOOLEAN, \* pointers that are set
    closed    : SUBSET Channels,
    changes   : 0 .. ChanMax,                                 \* configurationChan
    admin     : {"off", "starting", "idle", "reloading", "storing", "ended"},
    listener  : {"off", "idle", "storing", "ended"},
    watcher   : {"off", "idle", "sending", "ended"},
    provider  : {"off", "idle", "reloading", "ended"},
    sender    : [Handlers -> {"idle", "sending"}]]

TypeOK ==
    /\ kind \in Kinds /\ file \in AllFiles /\ up \in BOOLEAN
    /\ tables \subseteq (keyspaces \X Named[file])
    /\ failures \in 0 .. MaxFailures /\ signals \in 0 .. MaxSignals
    /\ proc \in Processes

\* A process that has just been started, or has ended.
Fresh == [
    main |-> "connect", session |-> System, todo |-> <<>>,
    signal |-> "off", cancelled |-> FALSE, closer |-> 0,
    http |-> "off", server |-> "nil", web |-> FALSE, configs |-> FALSE, loader |-> FALSE,
    closed |-> {}, changes |-> 0,
    admin |-> "off", listener |-> "off", watcher |-> "off", provider |-> "off",
    sender |-> [h \in Handlers |-> "idle"]]

Init ==
    /\ kind \in Kinds
    /\ file \in IF kind = "cassandra" THEN Files ELSE {<<>>}
    /\ keyspaces \in IF kind = "cassandra" THEN {{System}, {System, App}} ELSE {{System}}
    /\ tables = {}
    /\ up = TRUE /\ proc = Fresh
    /\ failures = 0 /\ signals = 0

Goes(p) == up /\ up' = up /\ proc' = p /\ UNCHANGED <<kind, file, signals>>

\* A panic that nothing recovers, or log.Fatal.
Dies == up /\ up' = FALSE /\ proc' = Fresh /\ UNCHANGED <<kind, file, signals>>

\* The datastore, or the disk, fails once.
Failure == failures < MaxFailures /\ failures' = failures + 1

\* Only Cassandra needs the table that a query is about.
Known(t) == kind = "cassandra" => <<App, t>> \in tables

Answers(t) == Known(t) /\ UNCHANGED failures

QueryFails == kind # "file" /\ Failure

Refuses(t) == QueryFails \/ (~Known(t) /\ UNCHANGED failures)

----------------------------------------------------------------------------
(* BuildRepository: the connection and, with Cassandra, the schema.        *)

\* The loop of the Cassandra wrapper tries until its time is over.
Connect ==
    /\ proc.main = "connect"
    /\ UNCHANGED storeVars
    /\ \/ /\ Goes([proc EXCEPT !.main = IF kind = "cassandra" THEN "schema" ELSE "start"])
          /\ UNCHANGED failures
       \/ Failure /\ Dies
       \/ Failure /\ kind = "cassandra" /\ Goes(proc)

ReadSchema ==
    LET stmts == Statements(file) IN
    /\ proc.main = "schema"
    /\ UNCHANGED storeVars
    /\ \/ /\ Goes([proc EXCEPT !.todo = stmts, !.main = IF stmts = <<>> THEN "session"
                                                                        ELSE "statements"])
          /\ UNCHANGED failures
       \/ stmts # <<>> /\ Failure /\ Dies

\* A USE opens a session of its own, which the later statements run in.
SessionAfter(stmt) == IF IsUse(stmt) THEN KeyspaceOf(stmt) ELSE proc.session

Accepted(stmt) ==
    IF IsUse(stmt) THEN KeyspaceOf(stmt) \in keyspaces
                   ELSE Executable(stmt, proc.session, keyspaces)

Execute(stmt) ==
    IF IsUse(stmt) THEN UNCHANGED storeVars
    ELSE /\ keyspaces' = KeyspacesAfter(stmt, keyspaces)
         /\ tables' = TablesAfter(stmt, proc.session, tables)

\* Mutant of StatementFails: the error is logged, like those of the listener.
StatementFailsLogged(next) == Goes(next)

StatementFails(next) == Dies

\* One statement at a time.  One that fails may have been carried out all the same.
Statement ==
    LET stmt == Head(proc.todo)
        next == [proc EXCEPT !.todo = Tail(@), !.session = SessionAfter(stmt),
                             !.main = IF Tail(proc.todo) = <<>> THEN "session" ELSE @]
    IN
    /\ proc.main = "statements"
    /\ \/ Accepted(stmt) /\ Execute(stmt) /\ Goes(next) /\ UNCHANGED failures
       \/ /\ Accepted(stmt) /\ Failure /\ StatementFails(next)
          /\ Execute(stmt) \/ UNCHANGED storeVars
       \/ ~Accepted(stmt) /\ StatementFails(next) /\ UNCHANGED <<storeVars, failures>>

\* NewCassandraRepository panics when it cannot use the keyspace of the application.
OpenSession ==
    /\ proc.main = "session"
    /\ UNCHANGED storeVars
    /\ \/ App \in keyspaces /\ Goes([proc EXCEPT !.main = "start"]) /\ UNCHANGED failures
       \/ App \notin keyspaces /\ Dies /\ UNCHANGED failures
       \/ Failure /\ Dies

----------------------------------------------------------------------------
(* RunServerStart and StartWithContext, up to Wait.                        *)

\* The context, and the goroutines that do not wait for the definitions.
Start ==
    /\ proc.main = "start"
    /\ Goes([proc EXCEPT !.main = "find", !.signal = "notified", !.http = "starting",
                         !.provider = "idle"])
    /\ UNCHANGED <<storeVars, failures>>

\* When StartWithContext fails, nobody looks at its error.
Find ==
    /\ proc.main = "find"
    /\ UNCHANGED storeVars
    /\ \/ Answers(Definitions) /\ Goes([proc EXCEPT !.main = "provide", !.configs = TRUE])
       \/ Refuses(Definitions) /\ Goes([proc EXCEPT !.main = "wait"])

\* web.Server.Start: the admin API serves from now on.
Provide ==
    /\ proc.main = "provide"
    /\ Goes([proc EXCEPT !.main = "watch", !.web = TRUE])
    /\ UNCHANGED <<storeVars, failures>>

Watch ==
    /\ proc.main = "watch"
    /\ Goes([proc EXCEPT !.main = "hooks", !.admin = "starting", !.watcher = "idle"])
    /\ UNCHANGED <<storeVars, failures>>

\* Mutant of LoaderAfterStartup: the hook goes by what the reload created.
LoaderNever == proc.loader

LoaderAfterStartup == TRUE

\* onStartup of oauth2: the indexes, or the files, and then the loader and its first load,
\* which panics when it fails.
StartupEvent ==
    /\ proc.main = "hooks"
    /\ UNCHANGED storeVars
    /\ \/ Answers(Servers) /\ Goes([proc EXCEPT !.main = "register", !.loader = LoaderAfterStartup])
       \/ Refuses(Servers) /\ Dies
       \/ kind # "cassandra" /\ Failure /\ Goes([proc EXCEPT !.main = "register"])

RegisterAPIs ==
    /\ proc.main = "register"
    /\ Goes([proc EXCEPT !.main = "wait"])
    /\ UNCHANGED <<storeVars, failures>>

\* Once Wait returns, the second Close closes what is closed.
Wait ==
    /\ proc.main = "wait"
    /\ "stop" \in proc.closed
    /\ Dies
    /\ UNCHANGED <<storeVars, failures>>

Main ==
    \/ Connect \/ ReadSchema \/ Statement \/ OpenSession
    \/ Start \/ Find \/ Provide \/ Watch \/ StartupEvent \/ RegisterAPIs \/ Wait

----------------------------------------------------------------------------
(* Signals and Close.                                                      *)

\* A signal is dropped while nobody receives from the channel, which has no buffer, and the
\* first one closes the channel that the next one is sent on.
Signal ==
    /\ up
    /\ signals < MaxSignals /\ signals' = signals + 1
    /\ CASE proc.signal \in {"off", "closed"} -> up' = FALSE /\ proc' = Fresh
         [] proc.signal = "notified" -> UNCHANGED <<up, proc>>
         [] proc.signal = "selects" ->
              up' = up /\ proc' = [proc EXCEPT !.cancelled = TRUE, !.signal = "closed"]
    /\ UNCHANGED <<kind, file, storeVars, failures>>

AwaitSignal ==
    /\ proc.signal = "notified"
    /\ Goes([proc EXCEPT !.signal = "selects"])
    /\ UNCHANGED <<storeVars, failures>>

\* Mutant of CloseServer: it waits for the admin loop first.
CloseServerAfterLoop ==
    /\ proc.cancelled /\ proc.closer = 0
    /\ proc.admin = "ended"
    /\ IF proc.server = "nil" THEN Dies
       ELSE Goes([proc EXCEPT !.server = "closed", !.closer = 1])
    /\ UNCHANGED <<storeVars, failures>>

\* After the grace time.
CloseServer ==
    /\ proc.cancelled /\ proc.closer = 0
    /\ IF proc.server = "nil" THEN Dies
       ELSE Goes([proc EXCEPT !.server = "closed", !.closer = 1])
    /\ UNCHANGED <<storeVars, failures>>

\* webServer is nil when the definitions were not found.
CloseChannel ==
    /\ proc.closer \in DOMAIN Deferred
    /\ IF Deferred[proc.closer] = "admin" /\ ~proc.web THEN Dies
       ELSE Goes([proc EXCEPT !.closed = @ \union {Deferred[proc.closer]}, !.closer = @ + 1])
    /\ UNCHANGED <<storeVars, failures>>

Close == CloseServer \/ CloseChannel

MakeServer ==
    /\ proc.http = "starting"
    /\ Goes([proc EXCEPT !.server = "made", !.http = "made"])
    /\ UNCHANGED <<storeVars, failures>>

\* The port may be in use.
Listen ==
    /\ proc.http = "made"
    /\ Dies \/ (proc.server # "closed" /\ Goes([proc EXCEPT !.http = "serving"]))
    /\ UNCHANGED <<storeVars, failures>>

\* Serve returns an error when the server is closed, and that error is fatal.
ServeEnds ==
    /\ proc.http = "serving" /\ proc.server = "closed"
    /\ Dies
    /\ UNCHANGED <<storeVars, failures>>

StartHTTPServers == MakeServer \/ Listen \/ ServeEnds

----------------------------------------------------------------------------
(* The admin API, the admin loop and the listener of the repository.       *)

\* Mutant of IsListener: the loop passes messages on whether or not somebody listens.
IsListenerAlways == TRUE

IsListener == kind # "file"

Send(h) ==
    /\ proc.web /\ proc.sender[h] = "idle"
    /\ Goes([proc EXCEPT !.sender[h] = "sending"])
    /\ UNCHANGED <<storeVars, failures>>

\* A send on a channel that is closed panics, and the middleware recovers.
Recovers(h) ==
    /\ proc.sender[h] = "sending" /\ "admin" \in proc.closed
    /\ Goes([proc EXCEPT !.sender[h] = "idle"])
    /\ UNCHANGED <<storeVars, failures>>

BeginLoop ==
    /\ proc.admin = "starting"
    /\ Goes([proc EXCEPT !.admin = "idle", !.listener = IF kind = "file" THEN "off" ELSE "idle"])
    /\ UNCHANGED <<storeVars, failures>>

Receive(h) ==
    /\ proc.admin = "idle" /\ proc.sender[h] = "sending" /\ "admin" \notin proc.closed
    /\ Goes([proc EXCEPT !.admin = "reloading", !.sender[h] = "idle"])
    /\ UNCHANGED <<storeVars, failures>>

\* handleEvent: the hook uses the loader, the last line uses the server, and a load that
\* fails panics.
HandleEvent(next) ==
    \/ proc.loader /\ proc.server # "nil" /\ Goes(next) /\ UNCHANGED failures
    \/ proc.loader /\ QueryFails /\ Dies
    \/ /\ ~proc.loader \/ proc.server = "nil"
       /\ Dies /\ UNCHANGED failures

AdminReload ==
    /\ proc.admin = "reloading"
    /\ HandleEvent([proc EXCEPT !.admin = IF IsListener THEN "storing" ELSE "idle"])
    /\ UNCHANGED storeVars

HandOver ==
    /\ proc.admin = "storing" /\ proc.listener = "idle"
    /\ Goes([proc EXCEPT !.admin = "idle", !.listener = "storing"])
    /\ UNCHANGED <<storeVars, failures>>

EndLoop ==
    /\ proc.admin = "idle"
    /\ \/ /\ proc.cancelled
          /\ Goes([proc EXCEPT !.admin = "ended", !.closed = @ \union {"listener"}])
       \/ "admin" \in proc.closed /\ Goes([proc EXCEPT !.admin = "ended"])
    /\ UNCHANGED <<storeVars, failures>>

AdminLoop == BeginLoop \/ AdminReload \/ HandOver \/ EndLoop

\* A write that fails is only logged.
Store ==
    /\ proc.listener = "storing"
    /\ Goes([proc EXCEPT !.listener = "idle"])
    /\ UNCHANGED <<storeVars, failures>>

\* The message of a closed channel says to remove the configuration nil.
EndListener ==
    /\ proc.listener = "idle"
    /\ \/ proc.cancelled /\ Goes([proc EXCEPT !.listener = "ended"])
       \/ "listener" \in proc.closed /\ Dies
    /\ UNCHANGED <<storeVars, failures>>

Listener == Store \/ EndListener

----------------------------------------------------------------------------
(* The watcher of the repository and the provider loop.                    *)

Tick ==
    /\ proc.watcher = "idle"
    /\ Goes([proc EXCEPT !.watcher = "sending"])
    /\ UNCHANGED <<storeVars, failures>>

\* Mutant of Room: the channel is taken for a buffer without an end.
RoomAlways == TRUE

Room == proc.changes < ChanMax

SendChange ==
    /\ proc.watcher = "sending"
    /\ IF "changes" \in proc.closed THEN Dies
       ELSE Room /\ Goes([proc EXCEPT !.watcher = "idle", !.changes = @ + 1])
    /\ UNCHANGED <<storeVars, failures>>

\* The watcher of the files ends with the first error of the notifier too.
EndWatcher ==
    /\ proc.watcher = "idle"
    /\ proc.cancelled \/ kind = "file"
    /\ Goes([proc EXCEPT !.watcher = "ended"])
    /\ UNCHANGED <<storeVars, failures>>

Watcher == SendChange \/ EndWatcher

\* EqualsTo takes the definitions of the memory, which must be there.
Compare ==
    /\ proc.provider = "idle" /\ proc.changes > 0
    /\ IF ~proc.configs THEN Dies
       ELSE \E next \in {"idle", "reloading"} :
              Goes([proc EXCEPT !.changes = @ - 1, !.provider = next])
    /\ UNCHANGED <<storeVars, failures>>

ProviderReload ==
    /\ proc.provider = "reloading"
    /\ HandleEvent([proc EXCEPT !.provider = "idle"])
    /\ UNCHANGED storeVars

EndProvider ==
    /\ proc.provider = "idle"
    /\ "stop" \in proc.closed \/ ("changes" \in proc.closed /\ proc.changes = 0)
    /\ Goes([proc EXCEPT !.provider = "ended"])
    /\ UNCHANGED <<storeVars, failures>>

ProviderLoop == Compare \/ ProviderReload \/ EndProvider

----------------------------------------------------------------------------
\* Somebody starts the process again.
Restart ==
    /\ ~up /\ up' = TRUE
    /\ failures' = 0 /\ signals' = 0
    /\ UNCHANGED <<kind, file, storeVars, proc>>

Next ==
    \/ Main
    \/ Signal \/ AwaitSignal
    \/ Close \/ StartHTTPServers
    \/ \E h \in Handlers : Send(h) \/ Recovers(h) \/ Receive(h)
    \/ AdminLoop \/ Listener
    \/ Tick \/ Watcher \/ ProviderLoop
    \/ Restart

Spec == Init /\ [][Next]_vars

(***************************************************************************)
(* Goroutines run on; nothing here needs the watcher and the provider loop *)
(* to.  The admin loop takes the request that has waited longest, so none  *)
(* waits for ever while others are taken.  Nobody has to send a signal or  *)
(* a request, and nobody has to start the process again.                   *)
(***************************************************************************)
Fairness ==
    /\ WF_vars(Main) /\ WF_vars(Close) /\ WF_vars(StartHTTPServers)
    /\ WF_vars(AdminLoop) /\ WF_vars(Listener)
    /\ \A h \in Handlers : WF_vars(Recovers(h)) /\ SF_vars(Receive(h))

FairSpec == Spec /\ Fairness

----------------------------------------------------------------------------
(* Properties.                                                             *)

\* When Initialize has returned, Cassandra holds every table that the schema file asks
\* for, in the keyspace the file asks for it in, whatever comments and strings the file
\* has, if only each USE stands alone, and wherever earlier processes were stopped.
\* (wrapper.Initialize.)
SchemaApplied ==
    kind = "cassandra" /\ file \in Readable
        /\ proc.main \notin {"connect", "schema", "statements"}
        => Tables[file] \subseteq tables

\* StartWithContext has done its work, and the gateway serves.
Started == up /\ proc.main = "wait" /\ proc.configs /\ proc.http = "serving"

\* A gateway that has started goes on until its context is cancelled, unless the datastore
\* or the disk fails: no reload meets a loader, a server or a configuration that is not
\* there yet, and no goroutine uses a channel that is closed.  (StartWithContext.)
StaysUp ==
    [][Started /\ ~up' => proc.cancelled \/ failures' > 0]_vars

\* "Wait blocks until server is shut down": when it returns, the server is closed, and so
\* are the channels of the admin API and of the watcher.  (Server.Wait and Close.)
WaitBlocks ==
    "stop" \in proc.closed =>
        proc.server = "closed" /\ {"admin", "changes"} \subseteq proc.closed

\* A handler of the admin API is not stuck on its channel for ever, neither before the
\* loop begins to receive nor after it has ended.  (startProvider and Close.)
SendersReleased ==
    \A h \in Handlers : proc.sender[h] = "sending" ~> proc.sender[h] = "idle"

\* A signal that is received ends the process some time, though everybody else may wait
\* for somebody.  (StartWithContext.)
SignalEnds == proc.cancelled ~> ~up

=============================================================================
