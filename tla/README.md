# Verification of the service template

TLA+ specifications of this repository's service (a Go template with REST, gRPC
and Kafka front ends over one MySQL table), the TLC runs that check them and the
theorems TLAPS proves about them. `PROJECT.json` lists the runs, the source lines
behind every definition, the known hazards and the findings.

    tlc -config ItemTx.cfg MCItemTx.tla      # check a run
    tlapm ItemTx_proofs.tla                  # check the proofs

## 1. The system and its hazards

| component | state | operations | interacts with |
|---|---|---|---|
| item service and repository (`services/item`, `repositories/item`) | the `items` table | create, list, get, update, delete | database access; the external service before an update |
| database access (`infrastructure/db/db.*.go`) | a `database/sql` pool of 30 connections, one `sql.Tx` per write | `WithTransaction`, `ExecContext` (in the context's transaction or on the pool), queries | MySQL; the context of the caller |
| migrations (`infrastructure/db/migrate.go`) | `schema_migrations`: version and dirty flag; the schema | `RunMigrations`: Up, then on a dirty version Force, Steps(-1) (`retry`), Up | golang-migrate; every other instance on the same schema |
| restart after a panic (`infrastructure/supervisor`, `pkg/lifecycle/notify_systemd.go`, `examples/systemd`) | two systemd units, the requests a supervisor is handling | `RequestRestart`, `OnStartUp`, `handle` (stop, restart) | recover hooks of the three servers; systemd |
| lifecycle and shutdown (`pkg/lifecycle`, `cmd/start_*.go`) | registered hooks, listener, done channel | `Run`, `CloseServerListener`, `ShutdownServer`, `Start` | signals; the servers; the log file |
| Kafka consumer (`server/kafka`) | committed offset, what was fetched, the message being handled | `Start`, `handleMessage`, reply | item service; Kafka; restart |
| outbound Kafka (`outbound/service/example/kafka.go`) | a reply topic and a deadline per call | `PublishItem`, `PublishItemAndWait` | the consumer, through Kafka |
| logger (`pkg/logger`) | shared core, open files, watchers | `NewLogger`, `Handle`, `reopenFile`, `CloseLogFile` | everything that logs; an external log rotation |
| REST pipeline (`server/rest`), gRPC server (`server/grpc`) | per request | recover, log, format errors, authenticate, route, handle | item service; restart |
| outbound HTTP and gRPC (`outbound/transport`) | a request under construction | builders, send, decode | external services |
| configuration, JWT, codes, validation, utilities | set once at start-up | pure helpers | - |

What makes each hard, and what it means for it to be correct:

- *Items and transactions*: concurrent calls lock rows, contexts end at any
  moment (and `database/sql` then rolls back from another goroutine), a COMMIT
  may be answered by nobody. Correct: callers see an atomic table, no connection
  is lost, every call is answered.
- *Migrations*: MySQL commits every DDL statement by itself, so a crash leaves half a script;
  other instances act between any two migrate operations. Correct: whoever
  serves does so on the newest, consistent schema, and every start gets there.
- *Restart*: every supervisor request runs in a goroutine of its own, units fail
  and start again on their own. Correct: a panicked process is replaced, the
  temporary one covers for it and goes away afterwards.
- *Lifecycle and requests*: the signal path and the start goroutine race for the
  listener, the log file and the end of the process while requests are in flight.
  Correct: a request gets exactly one response that says whose fault it was, is
  not cut before its time, and the signal ends the process.
- *Kafka*: the offset is committed before the message is handled, writers retry
  without waiting for the broker, replies come late or never, and a member that lost
  the partition can still commit what it has fetched. Correct: a message
  is handled at most once, plus once for each time the partition was moved, an answered
  caller was served, consumption goes on.
- *Logger*: files are replaced under the feet of writers, and loggers outlive the core
  that `CloseLogFile` closed. Correct: lines go to the
  files that are there now, until `CloseLogFile` are lost only while files change, and no
  file of the core leaks.

## 2. Modules

| module | models | refines |
|---|---|---|
| `ItemStore` | what callers of the item service may rely on | - |
| `ItemTx` | service, repository, `WithTransaction`, the pool, `sql.Tx`, MySQL sessions | `ItemStore` |
| `ItemTxInv`, `ItemTx_proofs` | the inductive invariant of `ItemTx`, and the proofs | - |
| `Migrations` | `RunMigrations` by several instances on one schema | - |
| `MigrationsInv`, `Migrations_proofs` | the inductive invariant of `Migrations`, and the proofs | - |
| `Restart` | restart requests, the supervisor's handlers and the two units | - |
| `RestartInv`, `Restart_proofs` | the inductive invariant of `Restart`, and the proofs | - |
| `Delivery` | what publishers and callers of the items topic may rely on | - |
| `KafkaRpc` | publisher, topic, consumer group, `handleMessage`, replies | `Delivery` |
| `KafkaRpcInv`, `KafkaRpc_proofs` | the inductive invariant of `KafkaRpc`, and the proofs | - |
| `Pipeline` | a request in the REST middlewares, the gRPC interceptors, the handlers and the services | - |
| `Server` | a process: `Start`, `Run`, hooks, listener, log file; composes `Pipeline` | - |
| `PipelineInv`, `Pipeline_proofs` | the inductive invariant of a request, and the lemmas for each step of it | - |
| `ServerInv`, `Server_proofs` | the inductive invariant of `Server`, which includes that of its requests, and the proofs | - |
| `LogFiles` | the logger core, its watchers, writers and `CloseLogFile` | - |
| `LogFilesInv`, `LogFiles_proofs` | the inductive invariant of `LogFiles`, and the proofs | - |
| `MCItemTx`, `MCMigrations`, `MCKafkaRpc`, `MCLogFiles` | constants for TLC | - |

**ItemTx.** `pc[r]` is where the goroutine of call `r` is: `fetch` (the
external service, update only), `begin` (`BeginTx`, waiting for the pool),
`exec` (the closure), `commit`/`committing` and `rollback`/`rolling`
(`tx.Commit`, `tx.Rollback` before and after their request is on the wire),
`query`/`scan` for reads, and a final answer. `goTx` is the client's `sql.Tx`,
`srvTx` the session in MySQL; they are separate because they part: the client
can give up on a COMMIT the server still performs (`CommitLost`, `ServerCommit`),
and the server can end a session the client thinks open (`ServerAbort`). `Reap`
and `ReapEnd` are the goroutine of `database/sql` that rolls back when the
transaction's context ends, which is also how the deferred `cancel` of
`WithTransaction` cleans up. `Statement` stands for the three SQL writes: an
INSERT takes the next id even if it is never committed; UPDATE and DELETE wait
for the row lock and may find no row. `ExecReady` is the choice `ExecContext`
makes between the context's transaction and the pool. Panics in the closure are
`ExecFail`: the recovery rolls back and returns an error, as an error does.

**ItemStore** has no pool, context or transaction: a write is applied in one
step, between the call and the successful answer, at most once; a failed call
changes nothing unless its commit was under way, in which case its outcome is
unknown to the caller and it may still be applied once; a read sees one instant.
The mapping is in `ItemTx` (`Status`, `Effect`): a call has taken effect when its
session is committed, or when its query has run.

**Migrations.** Each `migrate` operation (the first Up, Force, Steps(-1), the second
Up) takes MySQL's `GET_LOCK` on its own (`Lock`), looks at version and dirty
flag (`FindDirty`, `UpToDate`, `StartUp`, `StartDown`, `StepsFail`, `ForceVersion`), and
for a script records the target version as dirty, runs it statement by statement
(`Run`) and records it clean (`Finish`). Scripts have the shape of
`migrations/000001_initial`: two tables, then their sample rows; down drops them
in reverse order. `dup` marks rows inserted twice. `Fault` ends an instance
anywhere in `FaultStages`: a crash, or an error RunMigrations returns. An error
before READY counts as a failure for a Type=notify unit even though the process
exits with 0, so it is started again.

**Restart.** `phase` is what a unit is doing: `boot` (process started),
`told` (main only: "stop temp" has been sent), `up` (READY, serving), `draining`
(SIGTERM), `auto` (failed, waiting for Restart=on-failure), `off` (also after a
server stopped with an error once READY: status 0, no restart). The `Job*` operators
are systemd's: a start on a unit that stops waits and follows the stop, a stop
cancels a start, restarts merge. `req[h]` is the handler of restart request `h`:
blocked in `systemctl start` (`wait`), polling `is-active` (`poll`), about to
restart main (`restart`). Polling ends when the unit is active or at the
deadline, which can be at any time: one action covers both. `alone` is a history
variable: no other request was handled beside this one. The supervisor may die
(`SupervisorDies`): its handlers and what was sent to it and not yet read are lost, the
jobs it gave systemd stay, and until somebody starts it again (`Listen`) a request or a stop
cannot be sent, which the application logs. `missed` is the history variable of
that: the stop of the temporary unit, or the request that would have led to one, was
lost, and no new main has sent another.

**KafkaRpc.** `topic` is the one partition of the items topic, `committed` the
offset of the group, `taken` the highest it has been, `owner` the member that has the partition, and
`next[c]` the message that the Reader of consumer `c` fetches next (0: it has none). `pc[c]` is
where a consumer's goroutine is: `read` and `commit` are the two halves of
`ReadMessage` (`Fetch`, `Commit`), `handle` is `handleMessage` up to the service
call, `reply` the write of the answer; `down` is a crashed process, `ended` one whose
`Start` returned because `ReadMessage` failed. `Revoke` takes the partition from a member that
runs, which keeps its Reader until it joins the next generation (`Rejoin`): kafka-go hands a commit that waits to
that generation, and the broker asks who commits, not whose the partition is. So `Commit` is open to the owner and
to a member that has rejoined; the latter may set `committed` back while `taken` stays, and its message
is carried out although another may have had it. A message keeps what the consumer can
tell apart: its format, its action, whether it wants a reply. `Decoded` is the
decoding: a bare item is a valid event without an action; `old` is an item that is no event, for
which alone the fallback is tried; `garbage` is neither. `did` and the copies that
`Arrive` may append (a retried write) are what *at most once* is about: once per
message of the topic, not per call. **Delivery** has no group, offset or process:
a message is queued, taken in the order of the topic, then perhaps run, once and once more for
each `Move`.

**Pipeline.** `stage[r]` is the part of the program that has request `r`, in the
order `GetRESTServer` stacks the middlewares; gRPC enters at `build`. `sent` is
what was written to the connection, `held` what `statusInterceptWriter` keeps back,
`ctx` what the context carries, `client` whose logger the outbound clients hold, and
`cause` (a history variable) whose fault the outcome is. The kinds of token,
the codes and their HTTP and gRPC values are the data that is kept.

**Server.** `start` and `run` are the program counters of the two goroutines of `main`,
`hooks` what the one registered for the other. `End` ends the process and cuts the
requests in flight. `Serve` is `Pipeline!Process` together with its effect on the log file: a
logger made after `CloseLogFile` makes a new core (`log = "reopened"`). A Kafka message
is one step here; its steps are in `KafkaRpc`. The listener's field is shared without
synchronisation, so `CloseListener` may miss one that was just opened.

**LogFiles.** `handles` are the files opened so far, `gen[p]` how many files were
created at path `p`, so that a handle of an older generation is a renamed file. `Init` is
`initLoggerCore` with `startWatchers`: it opens one file per configured *name* of a level, in any order (the
configuration is a map), and `ParseLogLevel` makes a level of the name, `INFO` of one it does not know; of
several names for a level the last file stays and the others are `overwritten`, open and nobody's. If a file
cannot be opened, what was kept is closed and there is no core (`closing = "failed"`).
`core` is what `loggerCore` holds and `handler` what `pipeHandler` writes to; they differ
while `rebuildHandler` runs (`RebuildDefault`, `RebuildWriters`), which does not take
the handler's lock. `line` is the one line that is being written (the handler's lock admits one),
`todo` the files it still goes to, and `disturbed` says that a reopen ran meanwhile. `Swap` merges closing the
old file and assigning the new one: both are done under `c.mu`, and a writer sees neither until the handler
is rebuilt, except that the old file is closed. `CloseLogFile` takes `c.mu` at no
point and is three steps; closing all watchers is one, since a watcher only stops. Loggers keep the core
after it, so `Emit` goes on and its lines are dropped.

## 3. Runs

| run | what it asks | result |
|---|---|---|
| `items_calls` | `TypeOK`, `ConnReturned`, `CreatedStands`, `ImplementsItemStore` for three concurrent calls | holds |
| `items_live` | `CallsAnswered`, `ImplementsItemStore` for two calls of any operation and one free connection | holds |
| `items_update` | does a successful update find an item? (`UpdateFindsItem`) | violated |
| `migrations_restart` | `ServingAtHead`, `ServingConsistent`, `NoDropWhileServing` when instances start one at a time and do not crash between Force and Steps | holds |
| `migrations_together` | `TypeOK`, `StartedServes` when they start together and crash anywhere | holds |
| `migrations_crash` | `ServingConsistent` when a crash may come anywhere | violated |
| `migrations_stale` | `NoDropWhileServing` when instances start together | violated |
| `restart` | `TypeOK`, `Covered`, `Handover`, `Renewed`, `Retired`, `Serves` with three panics, two failures and one death of the supervisor | holds |
| `kafka` | `TypeOK`, `OnceUnlessMoved`, `ImplementsDelivery`, `Consumed` for a waiting publisher, another message, two copies, two consumers, one move of the partition and two faults | holds |
| `kafka_old_format` | is a bare item created, as the fallback means it to be? (`OldFormatCreates`) | violated |
| `server` | `TypeOK`, `OneResponse`, `Problems`, `RightBlame`, `Authenticated`, `OwnIdentity`, `PanicRestarts`, `CutOnlyLate`, `LoggedWhileListening`, `Ends` for two requests in each server | holds |
| `logfiles` | `TypeOK`, `Current`, `LostOnlyDisturbed`, `NoLeak`, `Refreshed` for two rotations, two failures and three configurations | holds |

**Bounds.** *items_calls*: three calls that create, update and read one row are
enough for every pair of transactions on a row together with a reader; ids up to
3 leave room for one per call besides the first row; `MaxOpen` 3 with one connection pinned by the migration driver makes
calls wait for the pool. Calls are symmetric. *items_live* has every operation,
including deletes and updates of present and absent rows, with a single free
connection, the case in which a second one would be waited for for ever.
*migrations_\**: two versions give a script with a predecessor and one without;
two instances are what a deployment that overlaps has, and what the restart with a
temporary unit has; two or three faults let recovery itself fail. *restart*: three requests
overlap in every way two can while a third is on its way, and two failures hit
both units or one twice; one death of the supervisor falls between any two of these
steps, before or after it is started again. *kafka*: two consumers hand one partition over in both
directions, by a crash as well as by the move, after which a commit may still come; two copies of the
caller's message and one of another give a retry, an
order and a bystander; two faults are one on the way and one in the handling. *server*: two requests share the listener, the log file and the outbound
clients in every way, one of them may come over the connection of the other, and `Ops` has an
operation of each shape (protected or not, with and without a fetch, with client
errors, server errors and a panic). *logfiles*: with two rotations a reopen meets the next
one, with two failures it gives up; the configurations give each level a path of
its own, both the same path, and one level two names, of which one has the path of the default file. `MaxFaults`, `MaxPanics`, `MaxFails`, `MaxAway`,
`MaxId`, `MaxCopies`, `MaxMoves`, `MaxRotations` and the one use of each call and request are bounds of the runs, not of the
code; `maxReopenRetries` is 50 in the code and 2 in the run, where only the last attempt differs.

**Fairness.** Goroutines run, so every step of a call, a migration, a
supervisor request or a process is weakly fair; the external service, the driver and the server
answer or fail in the end (client timeouts, lock wait timeouts). MySQL hands
`GET_LOCK` to a waiter that keeps asking (`SF` on `Lock`) and notices a session
whose client is gone (`WF` on `ServerAbort` of an orphan; without it a row lock of
a lost commit is held for ever). A stopped instance is started again (`SF` on
`Boot`; the units say Restart=on-failure). A consumer's goroutine goes on, the broker
gives a free partition to a member, members join the next generation, and a crashed consumer is started again, but not
one that ended by itself (`Consumed` exempts the case that all have). In `Server` only
`Run` is fair, and the handlers of gRPC calls: `GracefulStop` waits for them without a limit,
so `Ends` needs them to return; for REST it does not, because `Shutdown` has a deadline
(`Expire`), and a message is not waited for at all. In `LogFiles` some watcher
that can go on does. Nothing makes a caller call or cancel,
a request arrive or panic, the supervisor die or be started again (its unit has no
Restart=), a file rotate, an instance crash or be stopped.

**Deadlock** is checked for the migrations, which go on for ever; the other models come
to rest when every call is answered, the process has ended, nothing is left to rotate, or the logger could not be set up.

**What the properties leave open**, because the code does: a line is lost when a
reopen closes its file (`LostOnlyDisturbed` says when at most), and every line written to a core after its
`CloseLogFile` is; of two names for one level (`"info"` and
`"INFO"`, or any that is unknown) the file opened first is overwritten in the core's map, and nobody writes to it, watches it or
closes it, not even `CloseLogFile` (`overwritten`); a message may be handled again when the
partition has moved; levels that share a
path, or have the default file's, are not kept current (`OwnPath`); a reopen that overlaps
`CloseLogFile` may leave its file open (`raced`); `Shutdown` expires and cuts a REST request
at the write timeout, at once if that is 0; the Kafka consumer's message is cut by
shutdown; without keys, which is how `initDependencies` calls it, the JWT service
refuses every token and no item operation is reachable over REST or gRPC.

### What the violated runs show

1. `items_update`: `Update` ignores `RowsAffected`, so updating an item that does
   not exist, or was deleted a moment ago, answers with success and the item.
   The service's comment says "an existing item", and the tests' repository stub answers
   `ErrItemNotFound`.
2. `migrations_crash`: `Force` clears the dirty flag before `Steps(-1)` undoes the
   script. If the process ends in between, the next start takes the version for clean and
   serves a half-applied schema, which the README's "ensuring the database is left in a
   consistent state" excludes.
3. `migrations_stale`: the lock is released between the operations. A second
   instance that starts between Force and Steps(-1) finds a clean newest version
   and serves; the first one then drops its tables.
4. `kafka_old_format`: the consumer tries the old format when decoding as an event
   fails. A bare item does decode, with an empty action, and is dropped as unknown; a waiting
   publisher is answered with `null`, which it takes for an item of zeros. Bare items are what
   `PublishItem` and `PublishItemAndWait` write.

## 4. Proofs

`ItemTx_proofs` proves, for any set of calls, operations, names, ids, initial table and
pool size that meet the assumptions of `ItemTx` (`BoundAssumption`, `AbsentAssumption`, `OpsAssumption`,
`TableAssumption`):

| theorem | property |
|---|---|
| `Invariance` | `[]IInv` |
| `TypeCorrect` | `[]TypeOK` |
| `ConnReturnedCorrect` | `[]ConnReturned` |
| `CreatedStandsCorrect` | `[]CreatedStands` |
| `Refinement` | `ImplementsItemStore` |

None of the properties is inductive. `IInv` (module `ItemTxInv`) adds: `Flow`,
where a goroutine can be together with its `sql.Tx`, its session and its
connection (a committed session belongs to a call that is committing, has
succeeded or has lost its COMMIT; a connection is held exactly in the states
between its taking and its return); `Locks`, that a row changed by an open
statement is as the statement found it and is locked by nobody else, and that ids not yet handed
out have no row; and `Creates`, that created ids are distinct and a committed
creation stands unless an update or delete of that row was committed. For the
refinement every step is shown to be a step of the store or a stutter: the
statement's locked row is what makes the commit, possibly much later, an atomic
`Apply`.

`KafkaRpc_proofs` proves, for any callers, other messages, actions and consumers and any bounds that
meet `ConstantsAssumption` of `KafkaRpc`:

| theorem | property |
|---|---|
| `Invariance` | `[]IInv` |
| `TypeCorrect` | `[]TypeOK` |
| `OnceUnlessMovedCorrect` | `[]OnceUnlessMoved` |
| `Refinement` | `ImplementsDelivery` |

That a message was dispatched once, or twice after a move, says nothing of who is about to dispatch it. `IInv` (module
`KafkaRpcInv`) adds: `Readers`, the owner has a Reader, none is ahead of what was taken but by the message it
commits, and what is handled was taken; `Untouched`, what
was not taken was not carried out; `Earned`, a reply is to a message that was carried
out; `Entries`, that topic and history grow together; and `Budget`, the account on which the bound rests: every
move leaves at most one member with a commit of its old generation (`Late`), and such a commit either
repeats its own message or sets the offset back, once, before the messages after it. For every message, how often it was
carried out, who handles it, the late members and the owner's coming read (`Ahead`) are together at
most one more than the moves. The set of late members changes by one at a time, so the proof counts with
the library's theorems on cardinality; it assumes that the consumers are finitely many. Without a
move the commit before the handling is what makes a crash lose a message instead of
repeating it. For the refinement a commit beyond `taken` is the `Take` and the dispatch is the
`Run` of `Delivery`; a late commit below it stutters, as does everything that only answers inside a process.

`Migrations_proofs` proves, for any number of instances, versions and faults that meet
`ConstantsAssumption` of `Migrations`:

| theorem | property | assumed besides |
|---|---|---|
| `Invariance` | `[]IInv` | |
| `TypeCorrect` | `[]TypeOK` | |
| `ServingAtHeadCorrect` | `[]ServingAtHead` | `~Overlap` |
| `ServingConsistentCorrect` | `[]ServingConsistent` | `~Overlap`, `"steps" \notin FaultStages` |
| `NoDropWhileServingCorrect` | `NoDropWhileServing` | `~Overlap` |

The two assumptions are the conditions under which the code keeps these promises, and the
violated runs `migrations_stale` and `migrations_crash` show what happens without each: instances start one at a time,
and no rollback is interrupted between Force and the end of Steps. `IInv` (module
`MigrationsInv`) has a part for each: `Held` and `Recorded` (MySQL's lock admits one operation, and the
version of a running script is on record as dirty) need neither; `Orderly` says that nobody serves from the
dirty Up to the end of the rollback, and that Force forces the version that Up found; `Schema` says what
tables a script has made or dropped at each of its statements, and that all other versions
are whole. A serving instance then has a clean newest version that nobody is undoing.

`Restart_proofs` proves, for any number of requests, panics, failures and deaths of the supervisor
that meet `BoundsAssumption` of `Restart`:

| theorem | property |
|---|---|
| `Invariance` | `[]IInv` |
| `TypeCorrect` | `[]TypeOK` |
| `CoveredCorrect` | `Covered` |
| `HandoverCorrect` | `Handover` |

`Covered` speaks of the moment at which main is restarted; `IInv` (module `RestartInv`) keeps its reason from
the moment the request is read (`Alone`): no other request is in flight, no stop is on
its way, and once the start of the temporary unit has returned that unit serves, unless an instance failed. `Handover` speaks of the moment at which a serving temporary unit is stopped;
`Relieved` says why a new main is initialised then: it sent the stop and has not gone since.
That the stop requests are bounded, which `TypeOK` says, needs an account (`Budget`): each is
sent by a start of main, and each such start comes from a panic or a failure, whatever systemd merges or
cancels.

`Pipeline_proofs` and `Server_proofs` prove, for any number of requests, any operations that meet `OpsAssumption` of `Pipeline`
and each of the three servers:

| theorem | property |
|---|---|
| `Invariance` | `[]IInv` |
| `TypeCorrect` | `[]TypeOK` |
| `OneResponseCorrect` | `[]OneResponse` |
| `ProblemsCorrect` | `[]Problems` |
| `RightBlameCorrect` | `[]RightBlame` |
| `AuthenticatedCorrect` | `[]Authenticated` |
| `OwnIdentityCorrect` | `[]OwnIdentity` |
| `PanicRestartsCorrect` | `[]PanicRestarts` |
| `CutOnlyLateCorrect` | `[]CutOnlyLate` |
| `LoggedWhileListeningCorrect` | `[]LoggedWhileListening` |

What a response must be is decided stages before it is written. `PipelineInv` says, for each part of the program that may have a
request, what is true of it there: which front end it came through (`Located`), that nothing is
written before the result and that afterwards a response is written or held back, never both
(`Answered`), what its context and its clients carry (`Carrying`), that it was let through only with a valid token
(`Permitted`), and that what is to be answered blames whoever is at fault (`Blaming`, `Told`). `Pipeline_proofs` has one lemma per step of
the pipeline; `Server_proofs` adds the process. `ServerInv` says why a cut needs one of the reasons `CutOnlyLate` lists: until
`Run` closes something `Serve` cannot have returned (`NotYetClosed`), requests come only when `Run` can already find the
hook that drains them (`Hooked`), and only the end of the process cuts (`CutAtEnd`); and the log file
outlives the listener because `Start` has both (`LogOpen`).

`LogFiles_proofs` proves, for any levels, names of levels, paths and configurations and any number of rotations and
failures that meet `ConstantsAssumption` of `LogFiles` (levels and names are finite, `INFO` is a level):

| theorem | property |
|---|---|
| `Invariance` | `[]IInv` |
| `TypeCorrect` | `[]TypeOK` |
| `CurrentCorrect` | `[]Current` |
| `LostOnlyDisturbedCorrect` | `[]LostOnlyDisturbed` |
| `NoLeakCorrect` | `[]NoLeak` |

The three properties speak of quiet moments; `IInv` (module `LogFilesInv`) says what holds in
between. `Mutex` is what `c.mu` gives: one watcher at a time is between `Lock` and the end of `rebuildHandler`. On it rest
`Distinct`, `Opened` and `Accounted` (each of the core's files has a handle of its own, a file opened anew is not yet the core's, and there is no
third kind of open handle besides the overwritten ones), `Intact` and `Built` (the core's handles are open until `CloseLogFile`, and the handler has them but while it is
rebuilt). `Undisturbed` follows a line from `emit` to its last file; `Unraced` follows a `CloseLogFile` that meets no
reopen, and a set-up that failed. `AllFresh` is the reason for `Current`: a watcher has been told of a rename it has not dealt with, or the file at the path is
that of the handle that is in place or about to be put there. It holds of levels with a path of their own only:
of several with one path a swap refreshes one.
`NoLeak` speaks of all handles but the `overwritten` ones, which nothing in the code closes.

Each inductive invariant also holds in all states of its component's run, by TLC: the `*Inv` modules have no
proof in them, so a module that extends one together with the run's module can be checked with the run's constants and `INVARIANT IInv`.

Only model-checked: the liveness properties (`CallsAnswered`, `StartedServes`,
`Renewed`, `Retired`, `Serves`, `Consumed`, `Ends`, `Refreshed`), which need fairness and `ENABLED`. Every
other property of a passing run is stated by a theorem.

## 5. Plan

Modelled first was what the data depends on, items and transactions, then
migrations and restarts, then the topic, the process with its requests, and the
log files; proofs followed in the same order, and every safety property has one. What is left:
consequences of the abstract specifications worth a theorem of their own (what callers of `ItemStore` may conclude from
several answers), the safety parts of the liveness properties (that a call, a request
or a start which is not at its end always has a step that is not waiting for itself), and levels that share
a path, of which only `NoLeak` says something.

## 6. Not modelled

SQL text, JSON, the wording and layout of logs; the once-only connection and `Close` of
the pool; the expiry of pooled connections (`SetConnMaxLifetime`), which database/sql hides;
TLS, token cryptography, signing and refresh tokens; the contents of files that handlers read and
write; the gRPC client and the query filter of `outbound`, which nothing calls; path
normalisation, masking and unique ids (pure string functions); documentation pages; configuration parsing
(done once, before anything is concurrent); generated protocol code. Several partitions of the items topic
are independent copies of the one in `KafkaRpc`. A call of `NewLogger` after one that failed or after `CloseLogFile` makes a new
core with the steps of `LogFiles` again, and what Go's memory model lets a line see of the handler's fields, which
`rebuildHandler` assigns without their lock, is narrowed to the values before and after each assignment. In `Server` the configuration has the fields the servers use, and memory, sockets and
the platform are there.
In `Restart` both units are configured for supervision, as the comments in them say.
Components, with the state of each, are listed in `PROJECT.json`.
