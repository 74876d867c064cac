# Replication and read routing of the bulletin board: models, checks and proofs

The repository is a laboratory for *Designing Data-Intensive Applications*: a
bulletin board (users, threads, posts) whose data is replicated asynchronously,
so that a reader may be served by a copy that lags.  It exists twice: a
deterministic simulation (`fake/`), and a real HTTP application (`app/`,
`postgres/`, `cmd/server`) over PostgreSQL with a primary and replicas
(`infra/`, `labs/`).  This directory holds TLA+ modules that model both, the
TLC configurations that check them on small instances, and proofs for every
value of the constants.  `PROJECT.json` maps each definition to the lines it
models and each hazard of the code to the properties that guard it.

    tlc -workers 2 -config AdvanceLoop.cfg AdvanceLoop.tla    # one run
    tlapm ReplicationProofs.tla                               # one module of proofs

## 1. The parts of the system

### The simulation (`fake/`)

| Part | State it keeps | Operations | Talks to |
|---|---|---|---|
| `database/cluster.go`, `topology.go`, `record.go` | one replica per (partition, node): its log and its `pending` map | `Append` (leader), `Apply` (a delivered record), `Log`, `Applied` | called by `simulator` |
| `database/replicator.go` | none | `Targets`: the followers to send to | called by `Database.append` |
| `database/router.go`, `partition.go` | none | `RouteWrite`, `RouteRead`; `Single`, `ByThread`, `ByPost` | reads `Applied` |
| `transport/` | messages in flight, each with a delivery time | `Send`, `DeliverUpTo`, `InFlight`; `Uniform`, `Slow` delays | called by `simulator` |
| `simulator/sim.go` | virtual clock | `Advance` | transport, cluster |
| `simulator/database.go` | none | `CreateThread`, `AddPost`, `ReadThread`, `Recent` | router, cluster, transport |
| `simulator/session.go` | required position per partition | `RecordWrite` | |
| `simulator/application.go`, `recorder.go`, `event.go` | id counter, history | the calls of the board | sessions, `Database` |
| `simulator/world.go`, `streams.go` | the assembly, four random streams | `NewWorld`, `Advance` | everything |
| `replication_lag/check.go` | none | `checkReadAfterWrite` over a history | history only |

One write is: route to a leader, append there, send one message per follower
with an independent delay, acknowledge at once, remember the position in the
session.  One `Advance` is: one tick, then everything that is due is taken from
the transport and applied.  A read of the board is one physical read per
partition, each possibly from another node with another lag, merged by the time
at which the leader accepted the records.

What is hard: messages of one partition overtake each other, so a follower must
hold back what it cannot apply; nothing is ever retransmitted; a read combines
several replicas that lag differently; the guarantees a user has depend on the
router, the partitioner and what a session remembers.

What makes it correct: a follower's log is a prefix of its leader's; a record
is neither lost nor duplicated; the lag is bounded by the delay; every record
arrives; and, per router and partitioner, read-after-write, monotonic reads and
consistent prefix.

### The application over PostgreSQL

| Part | State | Operations | Hard |
|---|---|---|---|
| `app/httpapi` | none; the client holds the position token | `POST /users`, `/threads`, `/threads/{id}/posts`, `GET /threads/{id}` | concurrent requests; a token that is missing or old |
| `app/post`, `app/thread`, `app/user` | rows in PostgreSQL | `INSERT ... RETURNING`, then the position in a second statement; two `SELECT`s per read | a failure between the two statements; two reads without a common snapshot |
| `postgres/router.go`, `position.go` | the pools | `ReadPool`: check the replica, else the primary | state checked and then used; an unreachable replica |
| `postgres/connection.go`, `cmd/server` | pools, listener | start, serve, shutdown with a timeout | signal and failure at the same time; requests that outlive the shutdown |
| `infra/postgres/migrate.sql` | the ledger of applied versions | one transaction under an advisory lock | two runners, a crash in between, a lock that is never released |
| `infra/postgres/*-entrypoint.sh`, `init/`, `compose.yaml` | data directories, ready markers, slots | initialise, back up, restart, health check | interrupted initialisation, a marker that travels with a backup |
| `labs/postgres_replication/test.sh`, `common.sh` | who paused replay | pause, observe, resume, clean up | failures and signals between the steps, other users of the cluster |

PROJECT.json lists every component with its status.

## 2. Modules

| Module | Models | Composes / implements |
|---|---|---|
| `Cluster` | storage: append, duplicate elimination, gap buffering | alone: any delivery of the leader's records |
| `AdvanceLoop` | the delivery loop and the loop in `replica.apply`, statement by statement | implements `Cluster` |
| `Transport` | messages in flight, delays | |
| `Replication` | write and tick | `Cluster` + `Transport`; implements `ReplicatedLog` |
| `ReplicatedLog` | the promise: a growing leader log and followers that catch up | abstract |
| `Simulator` | sessions, routers, partitioners, the calls of the board, the history | extends `Replication` |
| `Postgres` | external: a primary's log, commits, replay, crashes of replicas | |
| `BoardApi` | the HTTP handlers, repositories and read routing, requests interleaved | extends `Postgres` |
| `Server` | `run` and `serve`: start, pools, listener, shutdown, kills | extends `BoardApi`: requests run while the process comes and goes |
| `Migration` | runners of `migrate.sql`, statement by statement | |
| `Nodes` | the containers on their volumes: first starts, restarts, stops | extends `Migration`: one runner is part of the primary's first start |
| `LabTest` | `test.sh` against servers and other users that go on meanwhile | |
| `Checker` | `checkReadAfterWrite` of the laboratory, event by event | extends `Simulator` |
| `MCSimulator`, `MCBoardApi` | instances for TLC | |
| `ClusterProofs`, `AdvanceLoopProofs`, `ReplicationProofs`, `SimulatorProofs`, `BoardApiProofs`, `ServerProofs`, `NodesProofs`, `LabTestProofs` | the theorems | each extends the module it is about, and the proofs of the modules that one extends |

### How state and actions correspond to the code

**Cluster.** `log[l]` and `pending[l]` are the two fields of `replica` at
location `l`.  `AppendRecord` is `Cluster.Append`.  `Apply(delivered)` is
`Cluster.Apply` for a whole set of messages, given by what the loop of
`replica.apply` computes: `Fresh` is the early return for duplicates,
`Buffered` the store into `pending`, `DrainEnd` the position at which the loop
stops, `LogAfter` and `PendingAfter` its result.  The specification of this
module delivers any set of records a leader has, any number of times: more than
any transport does.

**AdvanceLoop.** The same code with one action per statement: `BeginBatch`,
`DropDuplicate`, `Buffer`, `DrainOne`, `DrainDone`, with the messages of a batch
taken in any order.  `ImplementsApply` maps a state inside a batch to the state
the batch will leave; that it implements `Cluster!ClusterSpec` is what allows
the other modules one step `Apply` and a transport that is a set.

**Transport.** `q` is `Transport.q`.  `Send` stamps one message per destination
with a drawn delay, `Due` and `DeliverUpTo` split the queue at the current time.
`DelaysTo` is the set of values of `Uniform.Next` multiplied as in `Slow.Next`;
each draw is a nondeterministic choice, so that every seed is covered.

**Replication.** `Write` is `Database.append` (route already chosen), `Advance`
is `Sim.Advance`, `now` is `Sim.now`.

**Simulator.** `CreateThread`, `Reply`, `ViewThread`, `ViewRecent` are the
methods of `Application`, whole: id, events, routing, append, send, session, or
events, one routed read per partition, filter, merge, limit.  `lastID` is
`IDs.n`, `required` the sessions' `RequiredPositions`, `history` the recorder.
`Router`, `Partitioner`, `Shard`, `Limit` are the configuration of a world;
`RandomRouter` may choose any node for each partition.  Calls of the simulation
do not overlap, therefore each is one action.

**Postgres** is external code: what the statements of the repository can observe
of a primary and its replicas.  `wal` holds a row when it is inserted and again
when it commits, so that positions move between the two, and commits come in
another order than ids.  `Visible(node)` is what a `SELECT` sees.  A replica
replays one entry at a time, may stand still, and may crash and come back at an
earlier position.

**BoardApi.** `call[c]` is the request a client has in progress, its `step` the
statement the handler is about to send: `insert`, `commit` (sent, not yet
answered), `position`, or `check` (of replica `node`), `thread`, `posts`.  One
action is one statement with the code up to the next: `Insert`,
`InsertReturns`, `LookUpPosition` are the repositories' Create methods and
`CurrentPosition`; `ReadPool`, `CheckReplica`, `NextCandidate` the router;
`FetchThread` and `FetchPosts` the two queries of `GetThread`.  `BadRequest` is
every early 400, `CallFails` every error of the driver and every client that
gives up (an INSERT on its way may commit afterwards), `InsertAborted` the rollback
that is reported.  The client is external: it has one request at a time and
sends the position of its last successful write, or no header, which is also
what it must do when that answer carried no position.  `history[c]` are the
answers; `Row.request` and `disturbed` serve the properties only.

**Server.** `phase` is where `run` and `serve` are, `http` the listener,
`pool[n]` the pool of a node, `signalled` is `ctx.Done`.  `OpenPool` is
`OpenPrimary` and `OpenReplica`, in that order; every error return before the
listener is `StartFails`.  The two branches of the `select` are `NoticeFailure`
and `NoticeSignal`, both possible when both have happened; `Drained` and
`DrainExpires` are the two returns of `Shutdown`, the second with
`server.Close`; `ClosePool` and `PoolClosed` are the deferred closes, last opened
first, which block while a connection is in use (`InUse`).  `busy` are the
requests that have a statement in progress, SELECT or INSERT: `SendStatement`
takes a connection of the pool, `Served` is the step of `BoardApi` with which the
statement returns, and gives the connection back; `PoolGone` is the error of a
pool that hands out none.  `Exit` and `Crash` cut what is in progress.  `Signal` is
possible in every phase, but only the opening of the pools and the `select` look at
it: a process that is already closing swallows it.

**Migration.** `step[r]` is the statement a run of `migrate.sql` sends next,
`own[r]` what its open transaction has created, `catalog` what is committed.
`Lock` and `LockTimeout` are the advisory lock; `RunnerFails` is an error or a
lost connection at every statement, including a `COMMIT` that is done although
its answer is lost.  The database may hold a board that nobody recorded.

**Nodes.** `vol[n]` is the set of files the entrypoints look at, `proc[n]` what
the container does.  `PrimaryVerdict` and `ReplicaVerdict` are the branches of
the two entrypoints, `InitScripts` the files of `init/` in order, each an
action; `CopyFile` writes the backup file by file in any order, `BackupDone`,
`BackupFails` and `MarkReplica` are the rest of the replica's entrypoint.
`PrimaryHealthy` is the health check with `depends_on`.  `StopNode` stops or kills
a container at every step, with the sessions it serves.  `origin` (what the volume
was at first) and `interrupted` serve the properties.

**LabTest.** `Script` and `Cleanup` are the calls of `test.sh` in order, `pc` the
next one, `owned` is `pause_owned`.  `Matches`, `Mismatches` and `QueryFails` are
the outcomes of `assert_sql`, `wait_for_sql` and `query`; `Leave` is every exit
of the script, which enters the trap, and `EnterCleanup` the trap itself.
`stray` is a pause request that outlives its interrupted client.  `before`,
`asked` and `excuse` serve the properties.

**Checker.** `CheckUpTo[n]` is what the loop has found after `n` events, `CheckEvent` one
turn of it: a write adds to what its user has written, an opened thread is compared with
it, the first violation ends the loop.

Left out everywhere: titles, bodies, log lines, the `Nodes` field of an event,
and the source field of a message (written, never read).

## 3. Runs

| Run | Question | Bounds and why they suffice |
|---|---|---|
| `AdvanceLoop` | Is the loop, statement by statement, the one-step `Apply`, does it always end, and drained? Does a follower stay a prefix with nothing forgotten, whatever arrives early, reordered or twice? | 4 records of 2 kinds: a gap of two, a drain of three, a duplicate of an applied and of a pending record; partitions and followers do not interact in storage |
| `Replication` | Exactly one copy, the leader's record, nothing waiting that could be applied, bounded lag? Does every record reach every follower, and is `ReplicatedLog` implemented with its fairness? | 3 records told apart by their time, delays 0..2 and a slow node (factor 2): up to 3 records overtake each other; delay 0 is due at once |
| `ReadYourWrites` | Do users always see their own replies with the read-your-writes router? Are positions right, reads real? | 2 users, 2 partitions by post, 2 followers each, 3 writes, 4 calls |
| `RandomReads` | Can random replicas break the consistent prefix when replies stay in their thread and threads in their partition? (No.) Does `checkReadAfterWrite` report the anomalies of a history and nothing else? (It does: here they happen.) | 4 writes: two threads and a reply chain over 2 partitions; limit 2 cuts parents off |
| `BoardConcurrent` | Do positions cover the writes a client was told of, and does it see them, while another client writes? | 2 clients, 3 requests in any order, a lagging replica |
| `BoardSession` | Do answers agree with the database when calls fail or are lost, is a view one moment of the log, does every request end? | 1 client, 2 requests, 2 replicas that stand still or crash once; ids that exist and ids that do not |
| `Server` | Is what clients are told true across kills and restarts, is a graceful stop graceful for the requests in progress, and does the process end after a signal, unless its listener failed first and a statement that never returns holds a pool? | 2 starts of the process, 2 requests, 1 replica: a request before, during and after a shutdown, a signal during startup and with a failing listener |
| `Environment` | Is the board created once, does a node serve only when it is whole, is a refusal always explained, does every start end? | 3 runners (one in the primary's scripts), 1 replica, 2 stops at any step: an initialisation is cut, then its repetition; five kinds of volume |
| `LabTest` | Is the pause undone on every way out, are other users' pauses left alone, is the experiment free of false alarms, does a pass mean recovery, does the script end? | 3 commits of others, 2 signals, one kill, a failure at every step, each replica paused or not at the start |

Three runs show a disagreement between the code and what the repository says of
it; each is a finding with the sentence it quotes:

| Run | Violated | In short |
|---|---|---|
| `MergeOrderByPost` | `RepliesFollowParents` | a post and its reply accepted in the same tick on two partitions are merged by partition number, the reply first; the comment in `database.go` says that the order is right and only absence can show |
| `ByThreadReplies` | `ParentAndReplyTogether` | nothing ties a parent to the thread of the reply, so `ByThread` may separate them; the comment in `partition.go` says that it never does |
| `ReadYourWritesMonotonic` | `MonotonicReads` | the deterministic router moves a reader from the leader back to a follower that is behind: random routing is not needed, as the table of the lab's README has it |

`ReadAfterWrite` is checked for users with one session each (`OwnUser`): a
position is kept per session, and the property does not hold for a user with two.

`PauseUndone` excepts what the script reports (a resume that failed) and what it
cannot know: SIGKILL, a second signal while its clean-up runs, and a pause request
that the server executes after its interrupted client is gone.  Without the
exceptions TLC finds each of these runs.

`CHECK_DEADLOCK FALSE` stands where the bounds (clock, ids, events, requests,
starts, stops) end the behaviour, and in `LabTest` where the script has ended.
Symmetry (`UserSymmetry`, `ClientSymmetry`) is used in runs whose properties are
safety properties, over values that are only compared for equality.  `MaxNow`
bounds the clock; writes stop early enough (`WriteAllowed`) for every message to
arrive before it.  `MaxLog`, `MaxIDs`, `MaxID`, `MaxEvents`, `MaxRequests`,
`MaxRestarts`, `MaxStarts`, `MaxStops`, `MaxWal` and `MaxSignals` bound the work.

**Fairness.** `WF(Advance)`: whoever drives a world keeps calling `Advance`
(`lab_test.go` does in every scenario); nothing else moves replication.
In `AdvanceLoop` weak fairness of the next step is that a running Go loop goes
on.  The abstract log has weak fairness of each follower's progress, and the run
`Replication` shows that it follows.  In `BoardApi` the goroutine of a request
keeps running (`WF(Serve(c))`) and the primary ends an INSERT it has begun, by a
commit or a rollback (`WF(Resolve(c))`); nothing is assumed of replay, of the
statements that fail, or of clients.  `Server` assumes nothing
of requests, for no statement and no body has a deadline of its own: only that the
process runs and its deadlines pass (`WF(Process)`).  That is enough for
`StopsAfterSignal` where the signal ends `serve`, because `Shutdown` gives up after
five seconds and `server.Close` cancels the requests with their statements.  Where the
listener failed first, `serve` returns without either, and the deferred `Close` of a
pool waits for a SELECT or an INSERT that may never return; signals are then
swallowed.  The property excepts this case (`HeldByStatement`) and says that it is
the only one; without the exception TLC finds it.
In `Nodes` the scripts of the primary run, the replica's entrypoint ends by its
`timeout`, and a runner that waits for the lock gets it or its `lock_timeout`; a
backup may stall, and so may a runner that has the lock.  In `LabTest` the script
goes on: every wait of `common.sh` has a deadline; replay may stand still for ever.

## 4. Proofs

Everything below holds for every value of the constants: any number of partitions,
followers, clients, replicas, records and requests, any delays.  Assumptions are
those on the constants, by name, in the modules.

**ClusterProofs.** `ClusterInv` = `ClusterTypeOK`, `FollowerIsPrefix`,
`PendingIsBlocked`, and that the leader's `pending` is empty.  The heart is
`DrainFacts`: the position where the loop stops exists (by well-foundedness of
`<` on the naturals: the smallest position not buffered), and what lies between
the end of the log and it is buffered.  From it `ApplyOutcome` says what `Apply`
does to a replica when all that arrives is the leader's (`FromLeader`), and
`ApplyPreserves` follows.  The lemmas ask for less than `ClusterInv`: `StorageInv`
has `PendingFromLeader` (what is buffered is above the log and the leader's) where
`ClusterInv` has that it is blocked, so that they hold in the middle of a drain too.
* `ClusterCorrect`: the type invariant, the prefix and the blocked pending.
* `ClusterForgetsNothing`: the action property `NothingForgotten`.  Its two lemmas,
  `ApplyForgetsNothing` and `AppendForgetsNothing`, carry it to every module above.

**AdvanceLoopProofs.** Between two statements a buffered record need not be blocked, so
`LoopInv` is `StorageInv` with the rest of the batch coming from the leader, at most one
replica draining, and nothing applicable pending at the others (`DrainedElsewhere`).  The
refinement maps a state inside a batch to what the rest of the batch will leave.  Its heart is
`StopsOnce`: where a drain will stop is determined by what is pending or still to come
(`Awaited`), and no statement but `BeginBatch` moves that place; so each of the others is
a stutter, and `BeginBatch` is the one step `Apply` of the whole batch.
* `LoopImplementsApply`: the loop, in any order of its messages, implements
  `Cluster!ClusterSpec`.
* `LoopKeepsPrefix`, `LoopDrains`, `LoopForgetsNothing`: `FollowerIsPrefix`,
  `DrainedWhenIdle` and `NothingForgotten` after every statement.
* `LoopNeverGoesBack`, the safety half of `BatchEnds`: every statement takes a message
  out of the batch, leaves `apply`, or shortens by one what the follower lacks of its
  leader's log (`Gap`).

**ReplicationProofs.** The prefix alone is not inductive: what is in flight must
be the leader's record (`CarriesLeadersRecord`), each record must be in exactly
one place (`EachCopyOnce`: applied, pending or one message in flight), and its
arrival must be due in time (`OnTime`), with the leader's stamps not in the
future (`LeaderClock`).  `ReplicationInv` is their conjunction;
`WritePreserves` and `AdvancePreserves` are the two steps.
* `ReplicationCorrect`: type, prefix, blocked pending, messages carry the record.
* `ReplicationBlocksPending`, `ReplicationCarriesRecord`: the two parts that the
  run `Replication` checks by name.
* `ReplicationExactlyOnce`: `NoLossNoDuplicate`.
* `ReplicationBoundsStaleness`: `BoundedStaleness` - waiting behind a slower
  predecessor never adds up.
* `ReplicationForgetsNothing`: `NothingForgotten` under the clock and the transport.
* `ReplicationQuietIsEqual`, the safety half of `Converges`: a follower that no message is
  on its way to has its leader's log and an empty `pending`.  With each copy in one place
  and nothing in flight, the first missing record would be in `pending` and could be
  applied, which `PendingIsBlocked` excludes.
* `ReplicationRefinesReplicatedLog`: every behaviour implements
  `ReplicatedLog!SafeSpec`.

**SimulatorProofs.** All of it is about places in the leaders' logs (`Spot`), which
stay as they are once written: a write adds one (`WriteAdds`), a tick none
(`AdvanceKeeps`), and a read shows posts at spots, all of them up to where its replicas are
(`HitsAreStored`, `HitsAreAll`).  `SimulatorInv` adds to `ReplicationInv`:
* `LogInv`: numbers are unique, a post is where its partitioner puts it, and a reply comes
  after its parent if they share a partition;
* `SessionInv`: a required position is one of a write of the session's user and, with
  one session per user, not below any of them;
* `HistoryInv`: what an event shows is stored and was confirmed before, a cut result is
  full and begins after what is missing (`ParentsShown`; `LimitCuts` counts the ranks
  of the merge order), and each answer shows what it owes to each earlier event (`Owes`):
  a write of the reader's own, any write if reads go to the leaders, and any write that
  is older than the longest delay (`Expects`, `Slack`).

The last conjunct is where the routers meet the sessions: that a read goes to a replica
with all that the session requires says something of the history only because the
required positions cover it.  The theorems' hypotheses name the configuration of a
world for which the code promises the property: `OneSessionEach`, because
`session.go` keeps positions per session; `KeepsParents`, one partition or `ByThread` with
replies that stay in their thread.  Without them the properties fail, which the three runs
of the second table show.
* `SimulatorReadsAreReal`, `SimulatorTypesHold`, `SimulatorRefinesReplication`,
  `SimulatorBoundsStaleness`: every router, partitioner and workload.
* `SimulatorReadsAreFresh`, likewise for all of them: a reader sees every reply that was
  confirmed at least the longest delay before.
* `SimulatorTracksWrites` (`OneSessionEach`), `SimulatorReadsOwnWrites` (also the leader
  or the read-your-writes router), `SimulatorLeaderIsMonotonic` and
  `SimulatorLeaderIsCurrent` (the leader router: a view shows exactly the replies
  confirmed before, as a single copy would): what a user may rely on.
* `SimulatorParentTogether`, `SimulatorKeepsPrefix` (`KeepsParents`, any router).
* `SimulatorSettles`: nothing is forgotten, and a follower at rest equals its leader.
* `SimulatorCheckerIsExact`: what `checkReadAfterWrite` computes over a history of any
  length is `CheckerIsExact`.  `CheckedUpTo` says without recursion what the loop has
  found after `n` events and satisfies the loop's equation (`CheckedNext`); at the first
  place where the two differed, that equation would make them equal (`CheckIsClosed`).

**BoardApiProofs.** What a client was told is true only because of what the log,
the rows and the handler in between are like, so `BoardInv` speaks of all of them.
`ThreadsFirst` is the foreign key at every position of the log: a committed post has its
thread committed before it, which is why two statements without a common
snapshot still show one moment.  `RowsOfRequests` and `OneNumberEach` tie a row to the
one request that inserted it, so that a 400 or 404 can be said to leave nothing behind.
`GoodHistory` says of every answer that it is true (`TrueAnswer`), that positions
cover (`PositionsCover`) and that own writes are seen (`SeesOwnWrites`).  `GoodCall` says
what a handler has reached by its next statement: a written row is open or committed as
its step says, and a read that no crash disturbed is at a node that has replayed
the required position.  Each statement, an abort, replay and a replica's restart
preserves their conjunction; the operators take the state as arguments, so that a step is
one formula about before and after.
* `BoardTypesHold`, `BoardPositionsCover`, `BoardReadsYourWrites`,
  `BoardTellsTheTruth`, `BoardViewsOneMoment`: the five invariants of the two board runs,
  for any number of clients, requests, replicas and restarts.
* `BoardNeverGoesBack`, the safety half of `RequestsEnd`: each statement of a handler, and
  each error, leaves fewer (`StatementsLeft`), nobody else adds one, and a request needs
  at most as many as there are replicas, and three.

**ServerProofs.** `ServerInv` = `BoardInv`, `ConnectionInv` and `ProcessInv`, which says for each phase what
the listener, the pools and the status are: pools are taken away only in `closing`, and
`closing` with status 0 is reached only with every request at its end.  `ConnectionInv`
says that a statement in progress belongs to a request and keeps its pool from closing.  A handler's step
under the process is one of `BoardApi` and so keeps `BoardInv`; requests cut by
a kill or an exit get answers that claim nothing (`CutRequestsPreserves`), and an INSERT
on its way may commit afterwards.
* `ServerTypesHold`, `ServerKeepsPools`: the process.
* `ServerTellsTheTruth`, `ServerReadsYourWrites`, `ServerViewsOneMoment`: the board's
  promises, while the process comes and goes under the requests.
* `ServerNeverGoesBack`: so does the bound on statements.
* `ServerStopIsFinal`, the safety half of `StopsAfterSignal`: once told to stop, `run` only
  goes forward (`PhasesLeft`), opens no pool and no listener, and keeps a failure in its
  status.

**NodesProofs.** `EnvironmentInv` has two halves.  `MigrationInv` says who may
hold the lock (`LockExclusive`) and what an open transaction has found and made at
each of its statements (`Progress`): between the lookup of the version and the
commit nobody else can commit, so that what was looked up is still so.
`NodesInv` ties a runner to the server it talks to (`SessionsOfServer`) and says
what is on a volume while its container is at each step: the ready marker comes
last, a volume whose first start was never interrupted holds nothing or
everything (`PrimaryInv`), and a replica's marker is its own, not the one the backup
brought (`ReplicaInv`).  Neither half stands alone: the primary's scripts run a
migration, and stopping the primary ends every session.
* `EnvironmentTypes`, `EnvironmentMigratesOnce`, `EnvironmentServesOnlyWhole`,
  `EnvironmentExplainsRefusals`: the four invariants of the run `Environment`, for any
  number of runners, replicas and stops.
* `EnvironmentServesAgain`: a node that has once served is from then on down or
  serving: its volume stays one that its entrypoint accepts (`Whole`), whatever is
  stopped or killed later.

**LabTestProofs.** `ScriptSoFar` says what the script has reached by the step it is
about to take: whose pause it is, what is replayed, what is still hidden.
`LeftBehind` says the same of the clean-up and of the end, which can be reached
from every step.  `OthersAreLeftAlone` holds because the script looks before it
pauses.  Replay by the servers, commits of others, failures, signals and kills may come
between any two steps; each has to preserve both.
* `LabTypeCorrect`, `LabUndoesPause`, `LabLeavesOthersAlone`,
  `LabRaisesNoFalseAlarm`, `LabPassMeansRecovered`: the five invariants of the run
  `LabTest`, for any log, number of signals and number of commits.
* `LabNeverGoesBack`, the safety half of `TestEnds`: every step of the script or of its
  clean-up leaves fewer (`StepsLeft`, at most 30), and nobody else adds one.

**Only model-checked.** Liveness (`Converges`, `BatchEnds`, `RequestsEnd`,
`StopsAfterSignal`, `StartsEnd`, `TestEnds`, the fairness part of
`ImplementsReplicatedLog`): fairness and ENABLED are beyond the prover.  What is proved of
these is that nothing leads back: the theorems above give a rank that every step lowers
and that no other step raises, or, for `Converges`, that a state with nothing on its way is
consistent.  `StartsEnd` has no such rank, for a start that is cut is begun again.  Every
other property of a passing run is stated by a theorem.  No module uses a RECURSIVE
operator.

## 5. Not modelled, and the plan

Not modelled for good:
* `InFlight` (an observer of the tests), JSON and number formatting, titles and
  bodies, `reply_to` in the HTTP API (no endpoint writes it), the inside of
  PostgreSQL;
* `board-test.sh` (a straight line of checks of schema and constraints against
  a running database: what it asserts is PostgreSQL's behaviour), `status` and
  `psql` of `db.sh` (they only show);
* the container's users and passwords, a volume of another PostgreSQL version,
  the checks of roles and of read-only replicas in `test.sh`;
* a second session of one user: positions belong to a session by design;
* the fault stream of a world, which nothing draws from, and the workload stream,
  with which `lab_test.go` chooses the next call: every choice is a run of the model.

Planned:
* `RouterSwap`: two worlds that differ in the router alone replicate alike
  (independent random streams);
* the width of the 32-bit hash before its modulo.
