# Verification of Lombok's task execution, worker supervision and tunnels

Lombok is a self-hosted storage and compute platform: an API server
(TypeScript, NestJS on Bun, one process, PostgreSQL), a core worker process that
runs serverless app workers, docker hosts on which apps run containers, a docker
bridge for tunnels into them, and browser clients. This project specifies, in
TLA+, the parts in which several actors share state: the execution of tasks, the
batching of notifications, the supervision of the core worker process, and the
requests of a tunnel session. It checks the specifications with TLC on small
instances and proves their main properties with TLAPS for all instances.

Paths below are relative to `src/`; `api/` stands for `packages/api/src/`.

## The system

| Part | State | Operations | Hard behaviour |
|---|---|---|---|
| App tasks, `api/task/services/task.service.ts` | rows of `tasks`: `startedAt`, `completedAt`, `success`, `attemptCount`, `dontStartBefore`, `latestHeartbeatAt`, logs | trigger (app action, user action, on completion, on progress), start, heartbeat, progress, complete, requeue | several callers complete the same rows; requeues and children inside the completion transaction; the attempt limit |
| Core task drain, `api/task/services/core-task.service.ts` | `draining`, `runningTasksCount`, registered processors | start a drain (cron, events), select, execute | an in-process lock across awaits; drains that throw; lost calls |
| Runner processors, `api/core-worker/processors/run-serverless-worker-task.processor.ts`, `api/docker/processors/run-docker-worker.task-processor.ts` | none of their own | start the inner task, dispatch it, complete both rows | timeouts after the job was taken; errors of the app and of the platform |
| Docker worker hooks, `api/docker/services/docker-worker-hook.service.ts` | none of their own | `startJob`, `processProgress`, `completeJob`, upload URLs | calls that arrive late, twice or never |
| Broadcaster, `api/task/services/task-update-broadcaster.service.ts` | one throttle timer per task | frames to clients | order of progress and terminal frames |
| Events, `api/event/services/event.service.ts` | rows of `events` | emit (fan out to subscribed apps and core tasks), schedule triggers, nudge the drain | work inside and outside the caller's transaction; idempotency keys |
| Docker dispatch, `api/docker/services/docker-jobs.service.ts`, `docker-client.service.ts`, `docker-host-management.service.ts` | containers, hosts | find or create a container, run a job in it, read its state files | partial failure of multi-step provisioning |
| Core worker supervision, `api/core-worker` | pending requests, child process, ready flag | request, response, restart | requests that outlive the child; readiness |
| Notifications, `api/notification` | notifications, deliveries, batch tasks | debounce, build, deliver | debounce windows, duplicates |
| Apps and app sockets, `api/app` | apps, settings, connected workers | install, enable, requests of workers | a disabled app with work under way |
| Auth, `api/auth`, `packages/auth-utils` | sessions, tokens | log in, refresh, extend, log out | concurrent refresh |
| Folders and storage, `api/folders`, `api/storage` | folder objects, staging uploads, S3 | reindex, presign, promote | reindexing against concurrent changes |
| Docker bridge, `docker/docker-bridge`, and `docker/tunnel-agent` | tunnel sessions, buffers | open, multiplex, pause, resume, close | backpressure, reconnects, durable sessions |
| Worker agent, `docker/worker-agent` | job and worker state files, logs | run, cancel, supervise, rotate, reap | a job's end against its cancellation; restarts |
| Core worker and worker daemon, `packages/core-worker` | sandboxes, cached bundles | run a script, serve a request | process handling |

The rest (comments, search, logs, MCP, users, server settings, caches, e-mail,
generated clients, user interfaces, demo apps) keeps rows with little protocol of
its own.

How a task runs. An app task, the *inner* task, is inserted together with an
event `serverless_task_enqueued` or `docker_task_enqueued`; the event inserts a
core task, the *runner*, in the same transaction. The drain loop starts the
runner, whose processor starts the inner task and either awaits the serverless
worker or hands a job to an agent in a container. At the end both rows are
completed in one transaction: by the processor, or by the hook that the agent
calls. A failed attempt that asks for it goes back to waiting with a new runner.
Handlers of the inner task insert child tasks in the same transaction. Between
two transactions the server may be in the middle of any number of requests, and
may die.

How the other parts meet it. The processor of a serverless task calls the core
worker over a Unix socket (`CoreWorkerIpc`); TaskPipeline uses that such a call
ends, and that "not ready" is an error that asks for a requeue. Notifications are
core tasks that the drain runs. Containers that the docker dispatch provides are
reached from outside through sessions of the docker bridge, each with an agent
process in the container at the other end of an exec stream (`TunnelStreams`).

What makes it correct: an attempt has one runner and ends once; a task that is
started can be completed by somebody; results do not change; children and
completions go together; no core task is started twice; due tasks are started;
clients and telemetry are told what was committed; an event ends in one
notification; there is one core worker and every request to it ends; a tunnel
session neither loses slots nor mixes up responses, and ends with nothing left.

## Modules

| Module | Models | Proofs |
|---|---|---|
| `TaskLifecycle` | what the owner of a task may rely on (abstract) | |
| `AttemptEnd` | what it is to end an attempt (abstract; `TaskPipeline` and `CompletionTx` implement it) | |
| `SerialDrain` | an executor of core tasks, one at a time (abstract; `TaskPipeline` and `CoreTaskDrain` implement it) | |
| `EventDelivery` | what batching promises about an event (abstract) | |
| `WorkerService` | what the callers of the core worker may rely on (abstract) | |
| `TunnelService` | what the callers of a tunnel session may rely on (abstract) | |
| `TaskPipeline` | task service, processors, hooks and drain, a transaction per step | `TaskPipelineProofs` |
| `CompletionTx` | the statements of the completion and progress transactions of one attempt, the broadcaster and telemetry | `CompletionTxProofs` |
| `CoreTaskDrain` | the drain loop, with several calls in flight | `CoreTaskDrainProofs` |
| `NotificationBatching` | from an emitted event to its notification: windows, debouncing, requeues, the flush | `NotificationBatchingProofs` |
| `CoreWorkerIpc` | starts, boot sequence, exit and requests of the core worker process | `CoreWorkerIpcProofs` |
| `TunnelStreams` | the requests, frames, clients and teardown of one framed tunnel session, with the agent's side of the stream | `TunnelStreamsProofs` |

`MCTaskPipeline` and `MCCompletionTx` name the model values and handler
assignments of the TLC instances. In each module, a definition under a comment
that starts with "Mutant:" is a plausible bug; putting it in place of the
definition it varies makes a property fail, which shows that the property looks
at that code.

### TaskPipeline

| Variable | Code |
|---|---|
| `status[t]` | `absent`, or the row of app task `t`: waiting (`startedAt` null), running (set, `completedAt` null), succeeded, failed |
| `attempts[t]` | `attemptCount` |
| `heartbeat[t]` | `latestHeartbeatAt` set |
| `runner[t][n]` | the row of the runner emitted when `attemptCount` was `n` |
| `due` | runners whose `dontStartBefore` has passed |
| `selected`, `cur`, `stage` | local state of the drain run: rows still to execute, the row being executed, and how far its processor is (`begin`, `exec`, `catch`) |
| `job[t][n]` | the job in the docker worker, holding the token of that runner |
| `enabled` | the app's `enabled` column |

An action is a handler up to its next await at which other state can change: a
transaction, a request to a worker, the loop's next row. `CompletePair` is the
completion transaction with everything registerTaskCompleted does in it (limit
test, requeue with its enqueued event, handlers with their inserts), shared by
the processors and the hook. Its failure is the other branch of
`ProcessorCompletes`, which leads to the catch of executeCoreTask; a rejected
hook call changes nothing, and the agent does not repeat it. Handler conditions
are `always`, `success` and `failure`; conditions on the contents of results are
left out. A child's name stands for its idempotency key (parent and handler
index).

The look at `enabled` and the insert are in two transactions, so a task may be
inserted for an app that has just been disabled (`TriggerAppActionTask`).

The model shows three exceptions in the code that its properties have to name:
a requeue at the limit leaves the row started (`Exhausted`); a throwing handler
leaves the inner task started with a completed runner (`OnComplete[t] # {}` in
`RunningHasRunner`); a docker task whose app is disabled when its runner starts
waits for ever (`WaitingHasRunner`).

### CompletionTx

One attempt, with any number of completions by the processor (inner row, then
runner row), by hooks (runner, then inner), by the catch (runner) and of progress
reports, inside a transaction (hook) or autocommitted (app socket). `lock` is the
row's uncommitted writer, `ended` its committed completion. A SELECT reads
committed rows, an UPDATE waits for the writer and repeats its WHERE, and a
deadlock is broken by an error in one of its members (external, PostgreSQL at
READ COMMITTED). `Announce` is the broadcast and the telemetry event, which are
not undone by a rollback: `AnnouncedOnce` says that apart from calls that are
rolled back the end of a row is announced once, by the call that ended it. The
module justifies `CompletePair` as one step: seen from the two rows of an attempt,
the interleaved statements do what TaskPipeline's steps do, because both modules
implement `AttemptEnd`. The handlers of the inner row may throw in each of its
completions (`HandlerThrows`). `AbortHasWinner` is about the others: completions
that take the two rows in opposite orders are not all rolled back for each other,
so one that gave way leaves another that is under way, or that its own handlers
stopped, until the attempt is ended. `TerminalFrameLast` names an exception the code has: a report over the
app socket runs in no transaction, so its frame can be scheduled after the
terminal frame was sent.

### CoreTaskDrain

Every await of startDrainCoreTasks and executeCoreTask is a step boundary. The
server is one process: the lock is a field of a service, and a second process
would not see it. TaskPipeline has one drain loop and no calls; both modules
implement `SerialDrain`, so what TaskPipeline takes for granted of the loop is what
the racing calls provide.

### NotificationBatching

One aggregation key. `state` follows an event from its insert in the caller's
transaction over the insert of its window's task (autocommitted, conflicts
ignored) to the commit, and on to its notification. A task and its requeued
copies are a chain, named by its window: `phase`, `due`, `count` are those of its one
live task. A run of the task is three steps (first read, decision, requeue or
flush), between which events are committed and time passes; `CoreTaskDrain` shows
that core tasks run one at a time. `delivery` holds the idempotency keys of the
delivery tasks: a flush whose key is used is rolled back, and its task fails.

Time is discrete and its unit free. A transaction may stay open for any time:
nothing in the code bounds it. The half second added to dontStartBefore (`Slack`)
is what the design allows for it, and an event committed later than that may find
its window's task over; the history variable `late` remembers such events, and no
action reads it. `EventHasTask`, `EveryEventNotified` and `EventDelivery` promise a
task to every other event, also while late ones come in between, and to all that
a notification takes every committed event, late or not, once. So a late event
waits for the next flush of its key, which may never come, and strands no other.
`SlackAssumption` is about constants of the code only: delivery windows are shorter
than the debounce less the slack and than the time a chain needs to reach the
ceiling. A server that dies while it runs the task loses the chain, because
started core tasks are not resumed; crashes are left out here.

### CoreWorkerIpc

Starts of the worker are numbered. `child`, `ready` and `ipc` are the fields
`child`, `serverlessWorkerThreadReady` and `ipcSocket` of the one service object;
`boot[g]`, `proc[g]`, `sock[g]`, `seen[g]` are the background boot sequence, the
process, the connection and the exit handler of start `g`, which outlive each
other in any order. Each await of the boot sequence is a step boundary
(`Spawn`, `Accept`, `InitAnswered`, `MappingRead`, `UpdateAnswered`), and at each of
them it may fail (`BootFails`), which kills whatever child the field holds. A
child without signal handlers dies of SIGTERM, one with them exits with 0
(`Terminated`). A request is written to the connection there is (`Call`), read by
the child (`Handle`), which asks the server back (`Reply`, written to the connection
there is by then), answered (`Finish`, `Deliver`) or timed out. What a request
computes is a choice between success and failure.

The first start is part of the server's initialisation and fails with it. On a
retry createSocketServer and Bun.spawn run in a promise nobody looks at: if they
throw there is no child, and nothing tries again (`SpawnFails`).
`LostOnlyAfterFailure` and `CrashedIsReplaced` name this way to lose the worker.

`Start` waits until the server has seen the old connection closed: the retry
timer is a second long and the kernel closes the connection with the process.

### TunnelStreams

One framed session that its agent has reported ready. A request is `Direct`
(tunnel traffic, buffered, 30 s for the response), `Streaming` (session proxy, 30 s
for the headers) or `Socket` (a WebSocket client, no limit). `pend` and `via` are
`pendingHTTPResponses` and the stream map, `inFlight` the limiter's count, `next` is
`nextBinaryStreamId`, `clients` the set of clients in its insertion order with the
sentinels of streaming requests, `grace` and `heartbeat` the two timers. `expect` and
`agent` are the agent's side: a request whose body follows takes the next frame,
whatever it is. `binary` is the chunk whose text frame has been handled and whose
binary frame has not. `missed` and `foreign` are histories that say where chunks went.

Frames are handled in the order they are written and no side waits for the other
to read, so writing and reading are one step (an unread frame is one that has not
been written yet); the two frames of a chunk are two steps, since they are two
callbacks of the parser, but the agent writes them under one lock. The two
awaited writes of a request with a body are two steps of the bridge, with anything
in between. `Settle` is the one place where the paths that end a pending response
meet (response, timer, cancellation, overflow of the buffer, failed write). Teardown
has two awaits: stream_close frames and the inspection of the exec (`TeardownClear`,
`TeardownFinish`); requests are still admitted between them.

A body of more than 256 KB is sent as body_chunk and body_end frames, of which
the agent reads the first in place of the body, runs the request without one and
drops the rest: to the control state this is the body frame, and contents are
abstracted. `proxyHTTPRequest`
answers to the client attached last, not to the one that asked; the model does
the same, and `outcome` of such a request is what that client has been told. It may be
the sentinel of a streaming request, for which sendToWSSerialized drops every
frame: then nothing reaches a caller (`Reaches`), and the request ends as `over`
whatever the agent answered.

The session proxy's attach and its request are one step: attach of a framed
session awaits nothing, so no other callback runs between the two. When the agent
is gone the exec stream ends (`ExecEnd`, which begins the teardown) or fails with an
error, which is only logged (`ExecError`); then the heartbeat timer is left.

## Runs

| Run | Instance | Shows |
|---|---|---|
| `pipeline` | two root tasks: a serverless one with a docker child whatever its result, and a docker one with a child on success and another on failure; two attempts, batches of two | `OneLiveRunner`, `RunningHasRunner`, `WaitingHasRunner`, `ServerlessOwnsAttempt`, `HandlersMatchCompletion`, `ImplementsLifecycle`, `ImplementsAttemptEnd`, `ImplementsSerialDrain` |
| `pipeline_live` | a serverless and a docker task, three attempts, batches of one, no crash | `RuntimeTaskSettles` |
| `telemetry` | one task | violation of `NullSuccessIsRequeue` |
| `rollback` | a task with a handler | violation of `CompletedTogether` |
| `tx_docker` | a processor, its catch, two hooks, two progress reports in transactions and one over the socket | `ImplementsAttemptEnd`, `EndsOnceTogether`, `AbortHasWinner`, `AnnouncedOnce`, `TerminalFrameLast`, `EveryCallEnds` |
| `drain` | two calls, three rows, batches of two | `ImplementsSerialDrain`, `OneDrain`, `NotStartedDuringDrain`, `CountMatchesRunning`, `DueTaskStarts` |
| `notify` | three events over two windows, transactions of any length, one requeue before the ceiling | `ImplementsDelivery`, `EventHasTask`, `NotifiedOnce`, `RequeuesBounded`, `EveryEventNotified` |
| `notify_interval` | three events, a ceiling that is not reached | violation of `MaxIntervalFlushes` |
| `coreworker` | two starts, the second of which may throw, a request that needs init and one that does not | `ImplementsWorker`, `OneProcess`, `SocketIsCurrent`, `ReadyIsServed`, `LostOnlyAfterFailure`, `EveryRequestSettles`, `CrashedIsReplaced` |
| `coreworker_restart` | the same instance | violation of `KilledIsRestarted` |
| `tunnel` | an ephemeral session with a request of each kind, one with a body, one client, two slots, one teardown | `ImplementsService`, `SlotsExact`, `ResponseComplete`, `StrayIsAbandoned`, `GoneIsEmpty`, `GraceIsIdle`, `LimitedRequestSettles`, `DeadAgentEndsAll` |
| `tunnel_splice` | the same instance | violation of `BodyIsItsOwn` |

Bounds. Two attempts are enough for a requeue and a requeue at the limit (only
serverless tasks are requeued; a docker task has one attempt, whose hook may come
after a failed dispatch has ended its runner). Two roots and three children
give a batch with a row that waits while another is executed, a hook against a
drain, a handler with a used key, a handler that throws and a hook that comes
after the catch, and a child on either kind of worker. In
`tx_docker` the second hook is the completion that a cancellation sends; three
completers of two rows are the most the code can have for one attempt, and the
handlers of each may throw. In `drain`
a third row makes a call repeat itself. In `notify` the constants are the smallest
in which a window has two moments, the last event of a window is not quiet when
its task first runs, a flush is forced by the ceiling, and one collides with
another, and a transaction may be committed in time or too late, before, between
and after the steps of each window's task; events stop at `LastEmit`, and time stops at `MaxTime` unless a task
waits for it. In `coreworker` two starts are enough for everything of an earlier
start to meet a later one. In `tunnel` three requests compete for two slots, so that
one can be refused, and any two of the three kinds are under way together; one
call of teardown suffices for liveness, and with a second one, which only repeats
the first, the safety properties were checked as well and are proved. Model values
are not declared symmetric: the runs are small, and most check liveness.

Fairness. `TaskPipeline!FairSpec`: the cron job starts a drain every five
seconds, clocks advance, and each await of the drain loop ends, because requests
to the serverless worker have time limits and a docker exec returns or throws;
nothing is assumed of containers, callers or administrators, and the run is
crash-free, since the code does not recover started rows after a crash.
`CompletionTx!FairSpec`: a call that has begun goes on; lock waits end by a commit,
a rollback or the deadlock detector. `CoreTaskDrain!FairSpec`: crashes stop some
day, the cron job keeps calling, and a call that was made goes on.
`NotificationBatching!FairSpec`: time passes, transactions end some time, and the
drain runs what is due (`DueTaskStarts`). `CoreWorkerIpc!FairSpec`: timers fire, and events of the
operating system (socket, exit, a written answer) arrive, and an attempt to spawn
the child succeeds or throws; nothing is assumed of
what the child does with a request. `TunnelStreams!FairSpec`: timers fire, the exec stream of an agent that is
gone ends or fails, no heartbeat arms the timer once it has, and the awaits of
teardown end; nothing is assumed of the
agent, clients and consumers.

## What the violations show

* `telemetry`: at the attempt limit a requested requeue sets only
  `maxRequeuesReached`; the row stays started, without a result, and no failure
  is reported.
* `rollback`: if the insert of a child throws (the key was used by an earlier
  attempt, or the app is disabled), the completion is rolled back and the catch
  of executeCoreTask completes the runner alone. The inner task stays started.
* `notify_interval`: maxIntervalSeconds is tested after the debounce has been
  satisfied, when the events are flushed anyway. Events that keep coming put off
  the first one until the ceiling on requeues.
* `coreworker_restart`: a failed boot sequence kills the child "so the `exited`
  handler restarts it"; but SIGTERM makes the child destroy its socket, the close
  handler exits with 0, and only other codes are restarted. The boot sequence of
  an earlier start can do this to a later, healthy child.
* `tunnel_splice`: the chunk of a request that has timed out does not move
  `nextBinaryStreamId`, so its binary frame goes to the stream whose headers came
  last, and becomes part of that response's body. `StrayIsAbandoned` says that this
  is the only way for two responses to mix.

Seen on the way, without a run of their own: completeJob accepts `requeueDelayMs`
in the hook's request and drops it, so a docker job cannot ask for a requeue;
telemetry and frames of a completion leave before its transaction commits
(`AnnouncedOnce` names the exception), as does the frame of a socket report
(`TerminalFrameLast`).

## Proofs

All theorems hold for every set of tasks, callers and calls, every handler
assignment and every limit; the assumptions are the named ASSUMEs of the modules
(`TaskAssumption`, `HandlerAssumption`, `NoneAssumption`, `CallAssumption`,
`DrainAssumption`, `TimeAssumption`, `SlackAssumption`, `IpcAssumption`,
`StreamAssumption`, `LimitAssumption`), which TLC evaluates on each run. Each module's
`IInv`, its types included, is itself a theorem (`SpecIInv`, `Inductive`); it was checked
by TLC before it was proved, and the runs check what follows from it.

* `TaskPipelineProofs`: `TypeCorrect`, `AttemptsAreSerial`, `NoOrphanedAttempt`,
  `NoForgottenTask`, `ServerlessExclusive`, `HandlersAreAtomic`, and `PipelineImplementsLifecycle`,
  the refinement of `TaskLifecycle`. The invariant `IInv` adds to the properties
  what they need to be inductive: runners beyond the current attempt are absent
  and those before it closed (`RunnerWindow`), an absent task is fresh
  (`AbsentIsFresh`), only docker tasks have jobs, and above all what the stage of
  the drain's current runner implies (`Knows`): a runner at `begin` still has a
  waiting inner task, and one that reached `catch` either was ended by a hook or
  is one of the two exceptions. `CompletePairEffect` and `CompletePairKeepsRows` treat
  the completion once for the processors and the hook; one lemma per action
  follows. `PipelineImplementsAttemptEnd` and `PipelineImplementsSerialDrain` are the
  refinements of the two abstract specifications the pipeline shares with
  `CompletionTx` and `CoreTaskDrain`. An attempt has ended for the inner task once
  `attempts` is beyond it; `RunnerStepEffect` and `CompletePairMoves` say which rows a
  step can move. That a hook does not end the inner row of an attempt whose runner
  the catch has ended rests on the condition on the runner's row in `CanComplete`.
* `CompletionTxProofs`: `CompletionIsAtomic`, `NoMutualAbort`, `TerminalFrameIsLast` and
  `AnnouncedByItsEnder`. The invariant says who holds which row at which point, that
  a row being written is not ended, and that an ended row names a committed call.
  `AnnouncedFrame` adds that nobody but the holder of the inner row, or a socket
  report, moves clients away from the terminal frame; `ToldInv`, that who announced
  a row writes it, ended it or was rolled back. `TxImplementsAttemptEnd`: a commit is
  the only step that ends a row, and it ends both rows of the attempt, or the
  runner's alone when the call is the catch.
* `CoreTaskDrainProofs`: `DrainIsExclusive`, `NoRowStartedTwice`,
  `CapacityIsNotLeaked`. The invariant ties the field to the position of the one
  call inside, and the batch to rows that still wait. `DrainImplementsSerialDrain` maps
  the row that any call executes to the one row being executed.
* `NotificationBatchingProofs`: `NoEventStranded`, `EventNotifiedOnce`,
  `ChainsAreBounded`, for all times that satisfy the two assumptions and
  transactions of any length. A window's chain starts after the slack of its last
  event (`StartsAfterWindow`), so an event that is committed within its slack finds
  its chain waiting (`OpenHasChain`). A chain can fail with events unhandled, so the
  invariant is not that each timely event keeps its own chain but that the chain
  of some later timely event lives (`LaterHasChain`); `FlushHasReason` says that a
  flush that follows another too closely is due to an event of a later window
  (`CollisionHasLater`). `BatchingImplementsDelivery` maps the chains to one flag that
  says whether any lives: an event is committed in time only while it is set
  (`QueuedIsArmed`), and it is cleared only when nothing but late events is left.
* `CoreWorkerIpcProofs`: `OneWorkerProcess`, `ConnectionIsCurrent`, `ReadyMeansServed`,
  `SuccessMeansInitialised`, `CrashesDoNotLoseWorker`. The invariant orders the
  generations: a start is made only after the exit of the one before has been
  handled, so of all starts but the last everything has ended except, perhaps,
  the boot sequence, and what that can still do is what `ReadyIsServed` and
  `LostOnlyAfterFailure` except; a start that could not spawn its child is the last
  one. `IpcImplementsWorker` hides all of it: a pending call
  is with its process, or lost once that died without an answer, and is settled
  once.
* `TunnelStreamsProofs`: `SlotsAreExact`, `CompleteMeansComplete`, `NoMixUp`,
  `NothingLeftBehind`, `GraceOnlyWhenIdle`. A request is under way exactly while its
  caller waits (`Outcomes`), and between a chunk's two frames `next` names its stream
  if anybody waits for it, so that a chunk is missed only by a caller who has gone
  or is out of reach (`Frames`, `Reaches`); `Sentinels` and `Closing` carry the grace timer.
  The proof splits the invariant into types and session, routes, and frames, and
  each of the ways to end requests (settle, entry, leave) is treated once.
  `SessionImplementsService` maps the session to its callers' view: admission is
  exact because `SlotsExact` is, and a caller that was told the end of its request is
  told nothing else.

Model-checked only: the liveness properties `RuntimeTaskSettles`, `EveryCallEnds`,
`DueTaskStarts`, `EveryEventNotified`, `EveryRequestSettles`, `CrashedIsReplaced`,
`LimitedRequestSettles` and `DeadAgentEndsAll` (the provers have no liveness under
fairness and no ENABLED), and the violations. The refinements are of safety: the
abstract specifications state no fairness. That a model implements the same
abstract specification as another does not make the two one: their composition
is by these shared specifications, not by a module that holds both states.

## Not modelled

* Connections of the database pool: an emit that notifies holds one and waits for
  another. NotificationBatching has the rollback that ends such a wait, not the
  wait itself. Schedule triggers, whose batch a used key aborts. Subscribed apps
  of an event.
* Deliveries and emails of a notification, whose task keys are windows too.
* The worker agent in the container: its job state, cancellation, log rotation
  and reaper are processes and files; TaskPipeline has the hooks it calls, late,
  lost or rejected.
* In the docker bridge: creation of sessions and the ready handshake, raw sessions,
  upgraded WebSocket streams, the idle sweep.
* Sessions and tokens, folders and reindexing, storage and staging uploads: rows and
  I/O to S3, worth models of their own.
* Comments, search, logs, MCP, users, settings, caches, e-mail, sockets, clients and
  user interfaces: rows with little protocol of their own, or rendering.

Inside the modelled parts, these are abstracted: contents of tasks, results,
errors, logs and progress reports; access checks of a trigger; onProgress
children; user actions whose rows no loop executes; recipients of frames;
container provisioning, which is one of three outcomes of a dispatch; database
errors other than deadlocks; what a core worker request computes; contents of
tunnel requests and responses.
