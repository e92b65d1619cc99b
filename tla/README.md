# Observra: a TLA+ model of the telemetry pipeline

Observra is a Python library that turns the callbacks of agent frameworks into
telemetry events and carries them, off the agent's hot path, to a storage
backend.  This directory models that program in TLA+: modules translated from
the source under `src/src/observra/`, TLC configurations that check them on
small instances, and theorems that TLAPS checks for every value of the
constants.  Paths below are relative to `src/src/observra/` unless they say
otherwise.

## 1. Inventory

| Component | State | Operations | Talks to | What is hard |
|---|---|---|---|---|
| `DropOldestQueue` (`core/queue.py`) | inner `queue.Queue`, `_lock`, `_enqueued`, `_dropped`, depth gauge | `put_nowait`, `get`, `put_sentinel`, `qsize`, `get_stats` | emitters (any thread), worker, shutdown callers | check-evict-put under a lock that `get` and `put_sentinel` do not take |
| `BackgroundWorker` (`core/worker.py`) | thread, `_running`, counters, breaker, batch | `_run`, `_flush_batch`, `shutdown`/`_shutdown` (also from `atexit`) | queue, storage backend | two timeouts in shutdown, write failures, breaker cooldown, a non-atomic `_running` |
| `PooledWriter` (`core/pool_writer.py`) | process pool, bounded semaphore, counters | `submit_batch`, `_on_batch_done`, `flush`, `close` | worker, subprocesses | slots taken and given back on different threads, a broken pool and its retry |
| Global lifecycle (`__init__.py`, `public.py`) | `_worker`, `_queue`, `_queue_proxy._target` | `initialize`, `shutdown`, `create_plugin`, `_QueueProxy.put_nowait` | worker, queue, adapters | replacing a pipeline while adapters emit |
| JSONL backend (`backends/jsonl.py`) | file handle, backups, counters | `write`, `_do_rollover`, `flush`, `close` | file system | multi-step rotation, several writers on one path |
| SQLite backend and TUI (`backends/sqlite.py`, `tui/app.py`) | table, open transaction, `_writes_since_prune`; last row id seen | `write`, `_prune`, `flush`, `close`; `_poll` | SQLite; two processes on one database | pruning by timestamp, reuse of row ids, commits, statements that fail |
| Webhook, Exabeam (`backends/webhook.py`, `senders/exabeam.py`) | buffer and its lock, counters | `write`, `_send_batch`, `flush`, `close` | HTTP endpoint | a buffer emptied before the POST, which is outside the lock |
| Multi backend (`backends/multi.py`) | sub-backends, error count | `write`, `flush`, `close` | sub-backends | error isolation hides failures from the worker |
| OpenTelemetry backends (`backends/otel*.py`) | SDK objects | `write`, `flush`, `close` | OpenTelemetry SDK | state is in the SDK |
| Session log API (`log.py`, `core/context.py`, `core/dedup.py`, `core/sequences.py`) | context variables of each task: ids, cost, depth, alert flag, tool list, dedup registry | `session_start` ... `session_end`, `tool_start` ... | queue proxy, adapters through the same context | objects that tasks share beside values they copy; what a new session resets; deduplication between sources |
| Adapters (`adapters/*`) | per-run tables, once flags | one handler per framework callback | queue proxy, context | nested runs, errors, callbacks of concurrent runs |
| Pure helpers (`core/metrics.py`, `core/velocity.py`, `core/sequences.py`, `core/rules.py`, `core/hot_cold.py`) | ring buffers | percentile, velocity, truncation, first match | log API, observability | boundaries: 0, 1, full |
| Website (`src/assets/count.js`, `src/demo/data.js`, `src/guide/api/search.js`, from the repository's root) | none of the program's | | browser | sample data, a search index and a vendored visitor counter |
| Atomic writes (`core/atomic_write.py`) | files | write, backup, restore | file system | steps a crash can separate |
| Formatting and conversion (`core/events.py`, `core/cim.py`, `core/redaction.py`, `core/safe_regex.py`, `core/encryption.py`) | none | conversions | everyone | nothing a state model distinguishes |

What makes each component correct:

- *Queue and worker*: an ordered, at-most-once channel that gives up its oldest
  event; counters that account for every event; a shutdown that drains; no
  caller blocked for ever.
- *PooledWriter*: no slot lost and none invented; no event written twice; a
  clean close leaves no batch under way; failures are counted.
- *Lifecycle*: a healthy pipeline is stopped only when asked; one writer at a
  time; an emitter's events stay in order and none is left in a dead queue.
- *Backends*: rotation, pruning and buffering lose only what their documents
  say they lose; a reader of the database sees every row that stays; a failing
  sub-backend takes nothing from the other.
- *Log API and adapters*: an event is reported by one source, and by one at
  least unless that report fails; the cost alert comes once per session; a
  session's tool sequence is all its tool calls, whichever task made them.

`PROJECT.json` lists every hazard of this code at its line, with the properties
that would catch it.

## 2. Modules

| Module | Models | Abstracts |
|---|---|---|
| `EventChannel` | what queue and worker promise: an ordered drop-oldest channel | locks, threads, shutdown |
| `Pipeline` | `put_nowait` step by step, the worker's single-event path, `_shutdown` | event contents; metrics other than the depth gauge |
| `PooledWriter` | the worker's pooled path, `submit_batch`, callbacks, subprocess crash, `close` | latency histogram, pickling |
| `Lifecycle` | `initialize`, `shutdown`, `_QueueProxy`, several pipelines | the interleavings inside a pipeline |
| `JsonlRotation` | `JSONLBackend.write` and its rotation, one file-system call at a time; restarts; `initialize` on the same path | encryption, line contents, counters other than `rotations` |
| `StorageProtocol` | the two threads that call a storage backend, and its methods | |
| `SqliteBackend` | `SQLiteBackend.write`, `_prune`, `flush`, `close`, one statement at a time | columns, statistics, `query()` |
| `TuiReader` | the live view's `_poll` in a process of its own | drawing, the database deleted under it |
| `WebhookBackend` | the buffer under its lock, the POST outside it | counters, headers, the wire format |
| `MultiBackend` | the three above under `MultiBackend` and the worker's calls; failures, late join, crash | the queue (events arrive in any order of timestamps), statistics |
| `TaskContext` | the context variables, the registry and the tool list, and how tasks copy or share them | contents of events, `session_id` |
| `LogApi` | every function of `log.py` | payload fields |
| `AdkPlugin` | `TelemetryPlugin`: its callbacks, in the order the framework makes them | event contents, velocity |
| `Sessions` | an application that uses both, in several tasks | |
| `PipelineProofs`, `PipelineOrderProofs`, `PipelineShutdownProofs` | theorems about `Pipeline` | |
| `PooledWriterProofs`, `LifecycleProofs`, `JsonlRotationProofs`, `MultiBackendProofs`, `SessionsProofs` | theorems about the module each is named after | |

`EventChannel` is instantiated by `Pipeline` with a refinement mapping;
`Lifecycle` composes pipelines, with the inside of each collapsed to the steps
`Pipeline` justifies.  A constant's value in a `.cfg` is the only thing a
configuration decides; there is no separate MC module because every constant
is a number or a set of model values.

### Pipeline

One action is one access to shared state: an operation of the inner
`queue.Queue` (atomic by its own mutex), a read or a write of `_running`, a
call into the backend.

| TLA+ | Code |
|---|---|
| `EnterPut`, `EvictOldest`, `PutItem`, `PublishDepth` | `put_nowait`: take `_lock`, `full()`, `get_nowait()` and its counters, `put_nowait()` or `queue.Full`, the gauge |
| `GetEvent`, `IdleFlush`, `WriteReturns`, `WriteRaises`, `CooldownEnds`, `FinalFlush` | `_run`: `get`, its timeout, the two outcomes of `write`, the breaker's sleep, the flush at the sentinel |
| `CheckRunning`, `ClearRunning`, `PutSentinel`, `SentinelTimeout`, `WorkerJoined`, `JoinTimeout`, `ShutdownFlush`, `ShutdownClose`, `ShutdownRaises` | `_shutdown`, with both timeouts and its `except` |

Events are named by their acceptance number, which makes `_enqueued` the name
of the newest and order a comparison.  `outcome`, `sentinels` and `barrier` are
history: how each `_shutdown` ended, how many sentinels were put, and what had
been accepted at the first.  `flushed` counts what a flush has covered: a
backend whose `flush` raises leaves it alone.  "Written" means that `write`
took the event; `JSONLBackend.write` also "takes" an event it then fails to
store, because it catches its own exceptions.

### PooledWriter

A batch is a set of events with the future that carries it.  A slot of the
semaphore is acquired by the worker thread, and released by the done callback
(an action of its own, because it runs on the pool's thread) or on one of the
error paths.  `Crash` breaks the pool: every unanswered future fails, whatever
part of its batch was written.  (In CPython the surviving subprocesses are
terminated a moment later; the model fails them at once.)

### Lifecycle

Pipelines are numbered as they are built.  `ReadTarget` and `PutEvent` are the
two steps of `_QueueProxy.put_nowait`: in between, the pipeline may be
replaced.  `_queue` and `_worker` are one variable, `current`: only
`get_stats`-style readers look at `_queue`.  All pipelines write to one store,
as when `initialize()` is called again with the same path.  `asked`,
`unwaited` and `unsent` are history: pipelines that `shutdown()` was asked to
stop, those a caller went on from while their worker was alive, and those
whose sentinel found no room or was evicted.  The handler that `atexit`
registers is one more caller of `_shutdown`; it is a closer of `Pipeline`.

### JsonlRotation

Files are numbered, `dir` maps names to files, and `handle` is the file the
serving backend has open: the two differ once somebody else renames the file,
which is what the module is about.  `spare` is the handle `initialize()` opens
(`_create_backend`) before it stops the old worker, `strayed` is history: a
backend has served through a file that is not the base file.  A process dies at
any step (`Restart`), and any call of a rotation may raise (`RotationRaises`).
The size check may fail as well (`SizeUnknown`), and then the rotation that was
due waits for the next write.  A first start finds nothing, or the full backups
of a process that kept fewer, one more, or several more of them.  Partial lines
of a full disk, and several processes that write to one path at the same time,
are not modelled.

### SqliteBackend, TuiReader, WebhookBackend, MultiBackend

`MultiBackend` extends the other three.  `call[t]` is the method a thread is
in, `sql[t]` and `hook[t]` where in that method of each sub-backend it stands:
`NextBackend` goes on to the webhook whether SQLite returned or raised, as the
loops of `backends/multi.py` do.  One action is one SQL statement, the locked
part of a webhook method, or one POST.

| TLA+ | Code |
|---|---|
| `Insert`, `CountRows`, `DeleteOldest`, `CommitPrune` | `SQLiteBackend.write` and `_prune` |
| `Commit`, `Shut`, `SqlRaises` | `flush`, `close`, and any statement that raises |
| `Poll` | one query of `ObservraWatch._poll`, above the last row id shown |
| `AppendEvent`, `TakeRest`, `Post`, `PostFails` | `WebhookBackend.write`, `flush`/`close`, `_send_batch` and its `except` |
| `TakeEvent`, `IdleFlush`, `FinalFlush` | the worker's calls of the backend |
| `StartShutdown`, `Joined`, `CloserFlush`, `CloserClose` | `_shutdown`; `late` is set when its join timed out |
| `Crash` | the process dies and is started again on the same file |

An event is its timestamp.  `table` is what the connection sees, `committed`
what every other process sees; `deleted` and `pruned` are the events that a
prune of the open, or of a committed, transaction has removed.  Rows reach
`committed` by a prune or a flush only, and the worker flushes only when its
queue has been empty for a second: while events keep coming nothing is
committed between two prunes, and with `max_rows=None` nothing at all.

A statement that raises (`SqlRaises`) is undone alone, or takes the open
transaction with it: SQLite rolls back by itself when a `COMMIT` meets a full
disk or an I/O error, and for some errors of other statements.  The code is not
told, so the rows inserted since the last commit are gone and `close()` has
nothing left to commit.  Which of the two happens is a choice of the model at
every statement; `lostRows` is the history of what went that way, or with a
crash.  `max_rows` is one number over all restarts, and the database is new at
the first; with a larger or a changed one row ids could fall below the view's.
`asdict(event)` is assumed to return, so every event reaches the webhook's
buffer.

### TaskContext, LogApi, AdkPlugin, Sessions

A call has no `await` in it, so each is one step; what interleaves is calls of
different tasks, and of the two sources in one task.  `ctx[t]` is task `t`'s
copy of the context variables.  The registry and the tool list are objects: a
context holds the identifier of one (`reg`, `tools`), copied by `CreateTask`,
and the entries of all of them are in `registry` and `lists`.  Cost, depth and
the alert flags are values, and each copy goes its own way.  `Filled` is what
`get_trace_id` and `get_span_id` do when nothing is set.

The two sources differ in order, and the model keeps it: a function of
`log.py` asks the registry first and stops when it is held back (after the new
span, the tool call and the depth, which come earlier still), a callback of
the plugin changes the context and then asks.  In both, registering comes
before the event is built, or put on the queue, inside a `try` that only logs:
`Report` takes the set of events that raise after their registration (`lost`),
and `failed` keeps them.  `LogModelResponseFails` raises so early that the cost
is not added either.  A handler that raises before it registers is left out: it
reports nothing and leaves no entry.  `open[t]` stands for the
framework: what it has begun in task `t`, innermost last.  An agent may be left
without its `after_agent` callback, which is why `AfterRun` resets the depth.
The behaviours start outside everything, or inside the agent of a first run,
which is where two sources meet.

`emitted`, `failed`, `skipped`, `alerts`, `toolCalls`, `started` and `users` are
history.  Alerts and depth alarms of the log API do not pass the registry, and
are not in `emitted`.  An entry of `alerts` is an alert that was raised: the flag
is set first, so one whose report then fails is not raised again.  Threads that
share one context are not modelled, only tasks that copy it.

## 3. Runs

| Run | Bounds | Shows |
|---|---|---|
| `pipeline` | 2 producers, 2 shutdown callers, queue of 2, threshold 2, 3 `put_nowait` calls | types, counters, order, gauge, both shutdown guarantees, refinement of `EventChannel` |
| `pipeline_live` | 1 producer, 2 shutdown callers, queue of 1, 2 calls | events leave the queue, `put_nowait` and `_shutdown` return |
| `pipeline_stop` (violated) | 1 producer, 1 caller, queue of 2 | a full queue evicts the shutdown sentinel |
| `pooled` | 2 slots, batches of 2, 3 events, 1 crash | slots, at-most-once, clean close, partial batches |
| `pooled_semaphore` (violated) | 1 slot, 3 events, 1 crash | the retry releases a slot it did not acquire |
| `pooled_errors` (violated) | 1 slot, 2 events | a failed overload batch is not counted |
| `lifecycle` | 1 emitter with 3 events, 1 initializer (2 pipelines), 1 stopper, queue of 2 | who serves, single writer, order, end of the replaced worker |
| `lifecycle_swap` (violated) | 1 emitter with 2 events, 1 initializer | an event put behind the sentinel of a replaced pipeline is lost |
| `jsonl` | `backup_count` 0, 1, 3; files of 2 events; 13 events; 2 faults; up to 4 backups found at the start | order, loss of the oldest only, retention, sizes, what is beyond the count, under rotations cut short |
| `jsonl_reinit` (violated) | `backup_count` 1, 6 events, no fault | a re-initialized backend is left on a rotated file |
| `fanout` | 3 events, `max_rows` 1, pruning at every 2nd write, batches of 2, polls of 2 rows, 1 fault | the live view in step, pruning keeps the newest, nothing closed over, the webhook complete, once and in order, and written rows shown in the end |
| `sessions` | 2 tasks, threshold 2, maximum depth 1, 5 calls, 1 report that fails | one source per span, nothing held back but for a report of the other source, the cost alert, the tool sequence |

Why the bounds are enough.  In `pipeline`, three calls against two slots let
two producers meet at the lock, an eviction meet an emptied queue, a sentinel
take the freed slot, and a sentinel be evicted; two failures trip the breaker;
two callers pass the `_running` test together.  In `pooled`, two slots and
three events give up to three batches, so a batch waits for a slot, times out,
and meets the crash with another batch in flight.  In `lifecycle`, two
pipelines are one replacement, three events and a queue of two allow an
eviction of the sentinel.  In `jsonl`, three backups are the fewest with a
shift whose source and target both may be missing after a fault; a fresh
directory is a starting point, and so are the full backups of a count that was
smaller, larger by one, and larger by more.  In `fanout`,
a cap of one row and three events are the least with which a row id is used
twice, in any order of timestamps; two more instances were explored for safety
(`max_rows` 2 with two faults, and `max_rows` 2 with four events) and found
nothing else.  In `sessions`, five calls after the start inside an agent are
enough for a session of either source inside the other's with a report of each
in it, for two model calls and a child task before or between them, and for
three tool calls in two tasks; one failing report is enough for an entry that
nobody's event stands behind.  All five properties are proved for any number.
`MaxCalls`, `MaxFailed`, `MaxEvents`, `MaxCrashes`, `MaxPipelines`, `MaxEmits`,
`MaxStored`, `MaxFiles` and `MaxFaults` are bounds of the model, not of the code;
`JsonlAssumption` asks that `MaxStored` and `MaxFiles` have room for the full
set of backups that a first start may find.

Deadlock is not checked: a process in which every caller has returned and the
worker has stopped is a proper end, and the behaviours of `sessions` end at
`MaxCalls`.

Fairness. `Pipeline`: the worker thread, a producer inside `put_nowait`, and a
caller inside `_shutdown` keep running. They are threads that are never
suspended for good; storage calls are assumed to return; the two blocking calls
of `_shutdown` have timeouts, so a step of it is always enabled. Nothing forces
a thread to emit or to shut down. `PooledWriter` and `Lifecycle` assume the
same of their threads. `MultiBackend`: a thread inside a method goes on, `get`
returns the sentinel once it is there, a join on a thread that has ended
returns (a join that times out is a fault, and not forced), and the live view
polls on its timer. That `get` times out, and the worker flushes, is promised
only once every event has come (`NoMoreEvents`): while more are to come the
next may always be early enough (`core/worker.py:228`). Temporal properties run
under these specifications only.

### What the violated runs say

1. `put_nowait` removes the head of a full queue whatever it is.  When that is
   the shutdown sentinel the worker never stops, `join` times out, and the
   backend is closed under a live worker (`core/queue.py:65`).
2. The retry after `BrokenProcessPool` registers the releasing callback
   whether or not it acquired a slot (`core/pool_writer.py:294`), which the
   comment on the first path forbids.
3. A batch submitted after the slot wait timed out has no callback, so its
   failure is neither logged nor counted (`core/pool_writer.py:259`).
4. `initialize()` swaps the proxy's target last (`__init__.py:146`): an event
   emitted in between is accepted by a queue nobody reads any more.
5. A backend opened on the same path before the old one's last rotation serves
   through the rotated file, while the size check looks at the base name: the
   file grows without bound (`backends/jsonl.py:140`).

Other disagreements were met while modelling and have no run of their own; the
properties that hold are stated so that they leave them room:

- The breaker cannot trip on the pooled path nor over the JSONL backend
  (`core/worker.py:189`), and `backup_count=0` still keeps one backup
  (`backends/jsonl.py:173`).
- `tool_start`, `agent_start` and `session_start` make a new span before they
  ask the registry, so starts are never deduplicated: a tool that both the
  plugin and `@tool` report starts twice and ends once (`log.py:359`).
- The plugin adds a response's cost whether or not the registry then holds the
  response back (`adapters/adk/plugin.py:477`).
- The cost alert's flag is copied with the context and is one per source:
  child tasks repeat the alert, and a session begun by the other source can go
  without (`adapters/adk/plugin.py:485`).
- Two threads that prune after a late join can each delete the same excess,
  and leave fewer than `max_rows` rows (`backends/sqlite.py:135`).
- The LiteLLM adapter does not ask the registry at all
  (`adapters/litellm/adapter.py:65`).
- A source registers before its event exists or is on the queue.  When that
  raises, which is logged only, the entry holds back the other source's report
  and nobody reports (`adapters/adk/plugin.py:151`, `log.py:305`).
- A rotation removes the first name beyond `backup_count` and no other: after
  the count was lowered by two or more, the backups above it stay for ever
  (`backends/jsonl.py:164`).
- While events keep coming and `max_rows` is `None`, nothing is committed and
  the live view shows nothing (`core/worker.py:228`).

## 4. Proofs

Every safety invariant that a run of section 3 checks and finds to hold is also
a theorem, `Spec => []` of it (`BeyondCountShrinks` is an action property), for
every value of the constants that the named assumptions allow. A proof module
splits a step into its actions, and each conjunct of an inductive invariant has
lemmas of its own.

### Pipeline

TLAPS proves, for every set of producers and closers and every value of
`MaxSize`, `Threshold` and `MaxCalls` that `PipelineAssumption` allows (a queue
and a threshold of at least one, and a lock holder that is no thread when the
lock is free):

| Theorem | States | Argument |
|---|---|---|
| `TypeCorrect` | `Spec => []TypeOK` | `TypeOK` is inductive; the queue's bound holds because each put is guarded by its own `IsFull` |
| `StatsCorrect` | `Spec => []StatsAddUp` | inductive with `TypeOK` |
| `GaugeCovers` | `Spec => []GaugeCoversQueue` | `LockInv`, `GaugeInv` |
| `OrderTheorem` | `Spec => []WrittenInOrder` | see below |
| `Refinement` | `Spec => ImplementsChannel` | the mapping of section 2; each step is a channel step or a stutter |
| `CloseTheorem` | `Spec => []ClosedUnderWorkerOnlyIfLate` | `CloseInv` |
| `DrainTheorem` | `Spec => []CleanShutdownDrains` | `DrainInv`, `CleanInv` |

`WrittenInOrder` is not inductive: it says nothing of what is still on its
way.  `OrderInv` adds that the events in the queue increase and do not exceed
`enqueued`, that the event in hand is older than all of them, and that what is
written is older than both.  A put appends a number above all others, and
evictions and gets take the head, so each part is kept.  The same invariant
proves the refinement, because the head of an increasing queue is its oldest
event.

The shutdown theorems need three more parts.  `CloseInv`: a caller past a join
that did not time out finds the worker finished, so the backend is closed under
the worker, or has swallowed an event, only if some caller's join was late.
`DrainInv`: whatever stands behind a sentinel in the queue was accepted after
`barrier`; while no sentinel was sent there is none in the queue and the worker
has not stopped; once it has stopped, the queue holds only events newer than
`barrier`.  `CleanInv` carries the final flush from the close to the return.

The gauge is published under `_lock`, which only the producer that holds it
(`LockInv`) can follow with a stale value: while none is about to publish, the
gauge is at least the number of events in the queue (`GaugeInv`), because a
sentinel is no event and a get only lowers the number.

### PooledWriter

For any number of subprocesses (which is that of slots), batch size, events and
crashes:

| Theorem | States | Argument |
|---|---|---|
| `TypeCorrect` | `Spec => []TypeOK` | a batch in the making is below `batch_size` except while it is handed over |
| `SlotsNeverLeak` | `Spec => []NoSlotLeaks` | `SlotInv` |
| `WrittenAtMostOnce` | `Spec => []AtMostOnce` | `NumberInv`, `DiskMatches` |
| `CloseIsClean` | `Spec => []CleanCloseFinishes` | `PoolInv`, `CloseInv`, `Covered` |

`NoSlotLeaks` counts the permits in the four places one can be.  The steps
that move one, submission with its callback and the callback's release, keep
the count only because the worker holds a permit nowhere but on its way through
`submit_batch`, and because a future that owns one always has the callback
(`SlotInv`).  `AtMostOnce` rests on names: a batch is the next events in order
(`Numbered`), so a submitted event is in one place of one future
(`SubmittedOnce`), and a future's process only moves forward through its batch,
so what is on disk is what lies behind the positions, once each
(`DiskMatches`).  A pool that was replaced is broken, a broken pool has no
batch under way (`PoolInv`), and a closer that was not late has outlived the
worker and waited for the last pool (`CloseInv`); what was processed without an
error is in some future, and an answered future has written its whole batch
(`Covered`).

### Lifecycle

For any set of emitters and of threads that call `shutdown()`, any queue size
and any number of replacements, and under the hypothesis `OneInitializer`: one
thread calls `initialize()`.  The documentation asks for it ("Call once at
application startup", `__init__.py:114`), no lock arbitrates between two, and
the run has one as well; the set of initializers may also be empty.

| Theorem | States | Argument |
|---|---|---|
| `TypeCorrect` | `Spec => []TypeOK` | `TypeInv`: what each thread has prepared when it gets where it is (`Prepared`) |
| `OneWriter` | `Spec => []OneWriterAtATime` | `Globals`, `AliveInv` |
| `Serves` | `Spec => []ServesUnlessAsked` | `ServeInv` |
| `StoredInEmissionOrder` | `Spec => []EmitterOrderKept` | `OrderInv` |

While no caller went on without the worker it stopped, a live worker is that of
the newest pipeline, and when `initialize()` gets to build the next none is
alive (`AliveInv`).  The newest pipeline is spared as long as `shutdown()` was
not asked to stop it and `initialize()` has not cleared its flag; a spared
pipeline runs, its backend is open, and no sentinel waits in its queue, which
is the part without which a worker could stop on its own (`ServeInv`).  For the
order, each queue is in emission order, nothing queued or stored is numbered
above what its emitter has emitted, and what is stored comes before what waits
in the only queue a worker reads (`OrderInv`).

### JsonlRotation

For any set of values of `backup_count`, any `max_bytes`, and any number of
events, files, failed calls and dying processes:

| Theorem | States | Argument |
|---|---|---|
| `TypeCorrect` | `Spec => []TypeOK` | a rotation renames a file that is there (`OnBase`) |
| `BeyondCountNeverGrows` | `Spec => BeyondCountShrinks` | `DirInv`, `RotationsStep` |
| `OrderKept` | `Spec => []KeptInOrder` | `DirInv`, `DataInv` |
| `FilesStayBounded` | `Spec => []SizeBounded` | `SizeInv` |
| `OldestGoFirst` | `Spec => []OnlyOldestGoes` | `LaterInv` |
| `BackupsRetained` | `Spec => []RetentionDegradesByFault` | `RetainInv` |

Everything rests on the names: the base name is the newest file's, a higher
name is an older file's, and in the shifting loop the place about to be filled
is free (`DirInv`), so that no rename hides a file.  Files are filled one after
the other (`DataInv`), and only while the one under the base name is below the
limit, which a failed rotation suspends for one event (`SizeInv`).  Because
the places of the loop are free, a deletion finds a file only under the last
names, where at most the one beyond `backup_count` is older (`LaterInv`).  For
retention, a hole among the names below a backup was left by a fault, except
the one place the rotation under way will fill (`HolesByFault`); so after the
first deletion no more backups are missing than faults happened, and each that
is there is full (`FullBackups`).  Counting the events of that many full files,
which are disjoint, is the last step.

### MultiBackend

For any set of events, any `max_rows`, pruning interval, batch size, page of
the live view and number of faults:

| Theorem | States | Argument |
|---|---|---|
| `TypeCorrect` | `Spec => []TypeOK` | `MultiInv` |
| `WebhookOnce` | `Spec => []ReachesWebhookOnce` | `Apart`, `Accounted` |
| `Sent` | `Spec => []SentInOrder` | `InOrder` |
| `NothingLeft` | `Spec => []NothingLeftBehind` | `Emptied`, `Accounted` |
| `NothingRolledBack` | `Spec => []ClosesOverNothing` (by `close()`; what SQLite itself rolled back is in `lostRows`) | `LossInv` |
| `NewestKept` | `Spec => []KeepsNewest` | `CapInv` |
| `NoRowSkipped` | `Spec => []ReaderInStep` | `ViewInv` |

A closer that waited finds the worker out of every method (`CloserWaits`), so
without a late join one thread at most is between two statements.  The buffer,
the two batches and what was received hold different events, and together
every event but the one in hand that has not failed or been lost.  A new batch
starts where the buffer did, which keeps the order because the batch before it
was answered.

The database side was the hard one.  `KeepsNewest` is not inductive: between
the count and the delete, and between the delete and the commit, rows and
deletions are not yet public.  `EnoughNewer` says that `max_rows` rows are
newer than everything deleted, which later inserts can only add to; `AtDelete`
that the count read is still the count, and `AtCommit` that what a commit
publishes is within the cap.  That the database can order any rows by time at
all, and take the first so many, is `OldestFacts`, by the least number of rows
for which it could not.

Row ids are used again: SQLite takes one above the highest *left*. The live
view relies on their growing. They do, for what is committed, because a row not
yet committed lies above all committed ones (`NewAbove`) and a prune that takes
the highest committed row leaves a row above it (`TopKept`): it leaves
`max_rows` rows, and no more than that are committed, so one of them is new.
The view's last id is at or below the top (`ReadBelow`). All three are lost
when a late join lets two threads prune one excess.

### Sessions

For every set of tasks, threshold, depth, number of calls and set of event
types:

| Theorem | States | Argument |
|---|---|---|
| `OneSource` | `Spec => []OneSourcePerSpan` | `DedupInv` |
| `NothingOnlyHeldBack` | `Spec => []SkippedHasTwin` | `DedupInv` |
| `SequenceTheorem` | `Spec => []SequenceSeesAll` | `SequenceInv` |
| `AlertTheorem` | `Spec => []AlertWhenOver` | `AlertInv` |
| `TypeCorrect` | `Spec => []TypeOK` | `RangeInv` |

Of the properties none is inductive. The first two are not because a task could
hold a span together with a registry that has no entry for what was emitted in
it. `DedupInv` says why it cannot. A span is generated in one context and
copied only together with the registry, so tasks that hold the same span hold
the same registry (`SpanHasRegistry`); hence the entry of every event, emitted
or failed (`Reported`), is in the registry of every task that could still emit
in its span (`Recorded`), and entries are one source's and each that of a
reported event (`EntriesOK`): what is held back has a twin that was emitted, or
failed, and with nothing failed one that was emitted. `SpansGenerated` keeps
new spans apart from old ones. The lemma `CallKeeps` proves the step for any
call that leaves its task's span and registry alone, or has a new span
(`Proper`); `LogKeeps` and `AdkKeeps` show that every call is of that kind, one
step per action, and `ForkKeeps` treats the copy.

`SequenceInv` has the same shape one level up.  A session's trace and its tool
list are made in one step and copied in one step, so two tasks in one session
hold one list, and two tasks with one list are in one session
(`OneListPerSession`); a call recorded by any of them reaches all of them and
none outside.  Both sides of `SequenceSeesAll` then grow by one element, at the
same position because they were equally long (`SameLength`, a bijection).
`LogIsKeyStep` and `AdkIsKeyStep` show that every call opens a session, keeps
trace and list, or records a tool call (`KeyStep`).

With one source the registry never holds an event back, which needs `DedupInv`
again (an entry is some source's, and there is one); so an alert is raised in
the very call that sets the flag, and a session at the threshold has its flag
set, and a set flag its alert (`Told`).  In one task the converse holds as well:
no flag, no alert of this trace yet (`Once`).  A new session clears cost and
flag and takes a trace no alert has named.  Every call is one of a few shapes
(`Shaped`): it resets, leaves alone, or spends.

### Model-checked only

The liveness properties (`QueuedEventsLeave`, `PutReturns` and `ShutdownReturns`
of `Pipeline`, `PartialBatchSent` of `PooledWriter`, `QueuedWhileRunningLeaves`
and `ReplacedWorkerStops` of `Lifecycle`, `WrittenShows` of `MultiBackend`) need
fairness and `ENABLED`, which TLAPS does not reason about.  The properties of
the violated runs are false, and each has a counterexample in place of a proof.

Induction over data is not available through the library's induction theorems,
which take an operator; what looked like one here (`OldestFacts`) goes by the
least counterexample instead, from the well-foundedness of `<` on the naturals,
which is stated about a set.

## 5. Not modelled, and the plan

The OpenTelemetry backends keep their state in the OpenTelemetry SDK.  Event
construction, redaction, regular-expression safety, encryption, rule
evaluation, percentiles, velocity windows and packaging are conversions or
arithmetic of one call, with nothing that interleaves.  `ExabeamSenderBackend`
keeps nothing between calls.  The JavaScript files of the repository belong to
its website: sample data for the demo page, the search index of the generated
API guide, and a vendored visitor counter; there is nothing of this program in
them to model.

Of modelled components, left out: encryption and partial lines of the JSONL
backend, several processes that rotate the same path, two concurrent
initializers, a worker thread that cannot be started (`__init__.py:142`), an
unlocked read of the counters between a put and its counter, a pooled worker's
shutdown whose sentinel finds no room (`close()` is then skipped), statistics
of every backend, `query()`, and the Claude, OpenAI, LangChain, pydantic-ai and
LiteLLM adapters.

The plan, in order:

1. The LangChain and OpenAI adapters over `TaskContext`: maps of open runs,
   nested spans, errors that pass through several levels.
2. Several writing processes in `JsonlRotation` (the pool's subprocesses share
   a path).
3. `core/atomic_write.py`: temporary file, backup, rename and restore with
   crashes.

Statements still worth proving: an abstract store (a suffix of what was
written, in order) that both `JsonlRotation` and the database side of
`MultiBackend` implement, with the theorems above as its steps; how few events
`Lifecycle` can lose in a replacement, and which of its theorems survive two
initializers; and a sharper bound for `KeepsNewest` after a late join, where the
code leaves fewer than `max_rows` rows.

## 6. Checking it

    tlc -workers 2 -config MCPipeline.cfg Pipeline
    tlc -workers 2 -config MCFanOut.cfg MultiBackend
    tlapm PipelineShutdownProofs.tla
    tlapm MultiBackendProofs.tla

`PROJECT.json` names the module of each configuration and lists every
run with its properties, the mutant that breaks each property (an altered
definition written beside the one it alters), and the source lines every
definition stands for.
