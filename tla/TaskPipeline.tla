---------------------------- MODULE TaskPipeline ----------------------------
(***************************************************************************)
(* The task pipeline of the API server.                                    *)
(*                                                                         *)
(* An app task (the "inner" task) is a row of the tasks table.  Making it  *)
(* runnable emits an enqueued event, and that event inserts a core task,   *)
(* the "runner", that the drain loop of CoreTaskService executes.  The     *)
(* runner starts the inner task, hands it to the serverless worker or to a *)
(* docker worker, and both rows are completed in one transaction: by the   *)
(* processor (serverless, or a docker dispatch that failed) or by the      *)
(* completion hook the docker worker calls.  A failed attempt that asks    *)
(* for a requeue goes back to waiting with a fresh runner.  Completing an  *)
(* inner task inserts the tasks its onComplete handlers name, in the same  *)
(* transaction.                                                            *)
(*                                                                         *)
(* A database transaction is one step here (CompletionTx.tla looks inside  *)
(* the completion transactions), and an await between two transactions is  *)
(* a place where any other process may step or the server may crash.       *)
(*                                                                         *)
(* A definition under a comment that starts with "Mutant:" is a bug of the *)
(* kind this code could have; it is no part of the specification.  It is   *)
(* put in place of the definition after it to see a property fail.         *)
(***************************************************************************)
EXTENDS Integers, FiniteSets

CONSTANTS
  Task,         \* app tasks the instance may insert
  DockerTask,   \* the ones whose definition names a docker handler
  Root,         \* the ones triggered from outside, not by an onComplete handler
  OnComplete,   \* OnComplete[t]: the handlers [child, when] of task t
  MaxAttempts,  \* MAX_TASK_ATTEMPTS
  DrainLimit,   \* MAX_CONCURRENT_CORE_TASKS
  None          \* "no runner is being executed"

When == {"always", "success", "failure"}

ASSUME TaskAssumption ==
  /\ DockerTask \subseteq Task
  /\ Root \subseteq Task
  /\ MaxAttempts \in Nat
  /\ DrainLimit \in Nat \ {0}

ASSUME HandlerAssumption ==
  /\ OnComplete \in [Task -> SUBSET [child : Task, when : When]]
  \* A child row is named by its idempotency key, which holds its parent's id
  \* and its handler's index: no other row has it.
  /\ \A t, u \in Task : \A h \in OnComplete[t], g \in OnComplete[u] :
        h.child = g.child => t = u /\ h = g
  /\ \A t \in Task : \A h \in OnComplete[t] : h.child \notin Root

\* The runner of attempt n of task t: emitted when t's attemptCount was n.
Runner == Task \X (0 .. MaxAttempts)

ASSUME NoneAssumption == None \notin Runner

VARIABLES
  status,     \* of each app task: startedAt, completedAt and success
  attempts,   \* its attemptCount
  heartbeat,  \* whether its latestHeartbeatAt is set
  runner,     \* of each runner: its row's startedAt, completedAt and success
  due,        \* the runners whose dontStartBefore is not in the future
  selected,   \* the drain loop's rows still to execute
  cur,        \* the runner the drain loop is executing, or None
  stage,      \* how far its processor is
  job,        \* of each runner: its job in the docker worker
  enabled     \* whether the app is enabled

rows == <<status, attempts, heartbeat, runner, due>>
drain == <<selected, cur, stage>>
vars == <<status, attempts, heartbeat, runner, due, selected, cur, stage,
          job, enabled>>

Status == {"absent", "waiting", "running", "succeeded", "failed"}
Stage == {"idle", "begin", "exec", "catch"}

\* What the executor of an attempt reports: a result, or an error that is the
\* app's or the platform's, with or without a requeueDelayMs.
Outcome == {"ok", "appError", "appRequeue", "platformError", "platformRequeue"}

TypeOK ==
  /\ status \in [Task -> Status]
  /\ attempts \in [Task -> 0 .. MaxAttempts + 1]
  /\ heartbeat \in [Task -> BOOLEAN]
  /\ runner \in [Task -> [0 .. MaxAttempts -> Status]]
  /\ due \subseteq Runner
  /\ selected \subseteq Runner
  /\ cur \in Runner \cup {None}
  /\ stage \in Stage
  /\ job \in [Task -> [0 .. MaxAttempts -> {"none", "live", "gone"}]]
  /\ enabled \in BOOLEAN

Init ==
  /\ status = [t \in Task |-> "absent"]
  /\ attempts = [t \in Task |-> 0]
  /\ heartbeat = [t \in Task |-> FALSE]
  /\ runner = [t \in Task |-> [n \in 0 .. MaxAttempts |-> "absent"]]
  /\ due = {}
  /\ selected = {}
  /\ cur = None
  /\ stage = "idle"
  /\ job = [t \in Task |-> [n \in 0 .. MaxAttempts |-> "none"]]
  /\ enabled = TRUE

-----------------------------------------------------------------------------
(* Completing an attempt: registerTaskCompleted. *)

\* buildTaskCompletions: what the report makes of the inner task (only an app
\* error's requeueDelayMs is looked at) ...
InnerCompletion(o) ==
  IF o = "ok" THEN "success"
  ELSE IF o = "appRequeue" THEN "requeue" ELSE "failure"

\* Mutant: a requeued attempt leaves its runner open.
RunnerCompletionOpen(o) ==
  IF o \in {"platformError", "platformRequeue"} THEN "failed"
  ELSE IF o = "appRequeue" THEN "running" ELSE "succeeded"

\* ... and of the runner, which succeeds when the app itself is to blame.
RunnerCompletion(o) ==
  IF o \in {"platformError", "platformRequeue"} THEN "failed" ELSE "succeeded"

\* completeJob reads no requeueDelayMs from the worker's request.
HookCompletion(o) == IF o = "ok" THEN "success" ELSE "failure"

\* Mutant: the attempt that reaches the limit is requeued once more.
ShouldRequeueAtLimit(t, c) == c = "requeue" /\ attempts[t] <= MaxAttempts

ShouldRequeue(t, c) == c = "requeue" /\ attempts[t] < MaxAttempts

\* A requeue asked for after the last allowed attempt sets neither success nor
\* completedAt, and leaves startedAt as it was.
CompletedStatus(t, c) ==
  IF c = "success" THEN "succeeded"
  ELSE IF c = "failure" THEN "failed"
  ELSE IF ShouldRequeue(t, c) THEN "waiting" ELSE "running"

\* Mutant: the handlers of a disabled app are skipped instead of throwing.
FiredIfEnabled(t, c) ==
  {h.child : h \in {g \in OnComplete[t] :
      /\ enabled
      /\ g.when \in {"always", IF c = "success" THEN "success" ELSE "failure"}}}

\* The children whose handler's condition the completion meets; a failure that
\* is requeued is a failure here too.
Fired(t, c) ==
  {h.child : h \in {g \in OnComplete[t] :
      g.when \in {"always", IF c = "success" THEN "success" ELSE "failure"}}}

\* A child is inserted only for an enabled app and an unused idempotency key;
\* anything else throws and rolls the whole completion back.
HandlersOK(t, c) ==
  Fired(t, c) # {} => enabled /\ \A u \in Fired(t, c) : status[u] = "absent"

\* Mutant: the conditions on the runner's row are left out.
CanCompleteInner(t, n, c) == status[t] = "running" /\ HandlersOK(t, c)

\* Both rows are started and not completed.
CanComplete(t, n, c) ==
  /\ status[t] = "running"
  /\ runner[t][n] = "running"
  /\ HandlersOK(t, c)

\* Mutant: a requeue emits no enqueued event.
NewRunnerForChildren(t, c, u, m) == u \in Fired(t, c) /\ m = 0

\* The runners the completion's enqueued events insert.
NewRunner(t, c, u, m) ==
  \/ u \in Fired(t, c) /\ m = 0
  \/ u = t /\ m = attempts[t] + 1 /\ ShouldRequeue(t, c)

\* One transaction: the inner task completed with c, its runner with rc.
CompletePair(t, n, c, rc) ==
  /\ CanComplete(t, n, c)
  /\ status' = [u \in Task |->
                  IF u = t THEN CompletedStatus(t, c)
                  ELSE IF u \in Fired(t, c) THEN "waiting" ELSE status[u]]
  /\ attempts' = [attempts EXCEPT ![t] = @ + 1]
  /\ runner' = [u \in Task |-> [m \in 0 .. MaxAttempts |->
                  IF u = t /\ m = n THEN rc
                  ELSE IF NewRunner(t, c, u, m) THEN "waiting"
                  ELSE runner[u][m]]]
  /\ \E delayed \in BOOLEAN :
        due' = due \cup {r \in Runner : /\ NewRunner(t, c, r[1], r[2])
                                       /\ r[1] = t => ~delayed}
  /\ UNCHANGED heartbeat

-----------------------------------------------------------------------------
(* The rest of the server. *)

\* triggerAppActionTask: the row and its runner in one transaction.  The app was
\* enabled when it was looked up, which the transaction does not do again: it may
\* have been disabled since.
TriggerAppActionTask(t) ==
  /\ t \in Root
  /\ status[t] = "absent"
  /\ status' = [status EXCEPT ![t] = "waiting"]
  /\ runner' = [runner EXCEPT ![t][0] = "waiting"]
  /\ \E delayed \in BOOLEAN :
        due' = IF delayed THEN due ELSE due \cup {<<t, 0>>}
  /\ UNCHANGED <<attempts, heartbeat, drain, job, enabled>>

\* The clock reaches a runner's dontStartBefore.
BecomeDue(t, n) ==
  /\ runner[t][n] = "waiting"
  /\ <<t, n>> \notin due
  /\ due' = due \cup {<<t, n>>}
  /\ UNCHANGED <<status, attempts, heartbeat, runner, drain, job, enabled>>

\* startableCoreTaskWhere.  A runner's attemptCount is 0 until it completes.
Startable == {r \in due : runner[r[1]][r[2]] = "waiting"}

\* _drainCoreTasks selects: at most DrainLimit rows, in no particular order.
\* The loop is idle whenever it has nothing left, so a new run (the cron's, an
\* emitted event's, or the one that follows a run with rows pending) selects.
DrainSelect ==
  /\ cur = None
  /\ selected = {}
  /\ \E S \in SUBSET Startable :
        /\ S # {}
        /\ Cardinality(S) <= DrainLimit
        /\ S = Startable \/ Cardinality(S) = DrainLimit
        /\ selected' = S
  /\ UNCHANGED <<rows, cur, stage, job, enabled>>

\* Mutant: the loop does not await the processor of a row.
ExecuteCoreTaskUnawaited(t, n) ==
  /\ <<t, n>> \in selected
  /\ runner[t][n] = "waiting"
  /\ selected' = selected \ {<<t, n>>}
  /\ runner' = [runner EXCEPT ![t][n] = "running"]
  /\ cur' = <<t, n>>
  /\ stage' = "begin"
  /\ UNCHANGED <<status, attempts, heartbeat, due, job, enabled>>

\* executeCoreTask, up to the processor: the row is read, then marked started.
ExecuteCoreTask(t, n) ==
  /\ cur = None
  /\ <<t, n>> \in selected
  /\ selected' = selected \ {<<t, n>>}
  /\ IF runner[t][n] = "waiting"
     THEN /\ runner' = [runner EXCEPT ![t][n] = "running"]
          /\ cur' = <<t, n>>
          /\ stage' = "begin"
     ELSE UNCHANGED <<runner, cur, stage>>
  /\ UNCHANGED <<status, attempts, heartbeat, due, job, enabled>>

\* Mutant: the inner task is started before the docker profile is asked for.
StartInnerFirst(t, n) ==
  /\ cur = <<t, n>>
  /\ stage = "begin"
  /\ status[t] = "waiting"
  /\ status' = [status EXCEPT ![t] = "running"]
  /\ stage' = IF t \in DockerTask => enabled THEN "exec" ELSE "catch"
  /\ UNCHANGED <<attempts, heartbeat, runner, due, selected, cur, job, enabled>>

\* Mutant: the processor does not register the start of the inner task.
StartInnerSkipped(t, n) ==
  /\ cur = <<t, n>>
  /\ stage = "begin"
  /\ stage' = "exec"
  /\ UNCHANGED <<rows, selected, cur, job, enabled>>

\* The processor up to registerTaskStarted(inner).  It throws, into the catch
\* of executeCoreTask, when the docker profile of a disabled app is asked for
\* or the inner task is not waiting.
StartInner(t, n) ==
  /\ cur = <<t, n>>
  /\ stage = "begin"
  /\ IF (t \in DockerTask => enabled) /\ status[t] = "waiting"
     THEN /\ status' = [status EXCEPT ![t] = "running"]
          /\ stage' = "exec"
     ELSE /\ stage' = "catch"
          /\ UNCHANGED status
  /\ UNCHANGED <<attempts, heartbeat, runner, due, selected, cur, job, enabled>>

\* The processor is done with its runner: the drain loop goes on.
Release == cur' = None /\ stage' = "idle"

\* The completion transaction of a processor, which throws when it fails.
ProcessorCompletes(t, n, o) ==
  /\ cur = <<t, n>>
  /\ stage = "exec"
  /\ \/ /\ CompletePair(t, n, InnerCompletion(o), RunnerCompletion(o))
        /\ Release
     \/ /\ ~CanComplete(t, n, InnerCompletion(o))
        /\ stage' = "catch"
        /\ UNCHANGED <<rows, cur>>
  /\ UNCHANGED <<selected, job, enabled>>

\* RunServerlessWorkerTaskProcessor, when executeServerlessAppTask returns.
ServerlessReturns(t, n) ==
  /\ t \notin DockerTask
  /\ \E o \in Outcome : ProcessorCompletes(t, n, o)

\* executeDockerJob: the agent in the container takes the job ...
DockerJobTaken(t, n) ==
  /\ t \in DockerTask
  /\ cur = <<t, n>>
  /\ stage = "exec"
  /\ job[t][n] = "none"
  /\ job' = [job EXCEPT ![t][n] = "live"]
  /\ UNCHANGED <<rows, drain, enabled>>

\* ... and the dispatcher hears of it.  Nothing is completed: that is left to
\* the worker's hook.
DockerAccepted(t, n) ==
  /\ t \in DockerTask
  /\ cur = <<t, n>>
  /\ stage = "exec"
  /\ job[t][n] # "none"
  /\ Release
  /\ UNCHANGED <<rows, selected, job, enabled>>

\* The dispatch throws, before or after the agent took the job.
DockerDispatchFails(t, n) ==
  /\ t \in DockerTask
  /\ ProcessorCompletes(t, n, "platformError")

\* Mutant: a drain run that throws keeps the drain's running flag.
CatchFailureStuck(t, n) ==
  /\ cur = <<t, n>>
  /\ stage = "catch"
  /\ runner[t][n] = "running"
  /\ runner' = [runner EXCEPT ![t][n] = "failed"]
  /\ Release
  /\ UNCHANGED <<status, attempts, heartbeat, due, selected, job, enabled>>

\* The catch of executeCoreTask.  When the runner is no longer running its own
\* completion throws as well, and that ends the drain run.
CatchFailure(t, n) ==
  /\ cur = <<t, n>>
  /\ stage = "catch"
  /\ IF runner[t][n] = "running"
     THEN /\ runner' = [runner EXCEPT ![t][n] = "failed"]
          /\ UNCHANGED selected
     ELSE /\ selected' = {}
          /\ UNCHANGED runner
  /\ Release
  /\ UNCHANGED <<status, attempts, heartbeat, due, job, enabled>>

-----------------------------------------------------------------------------
(* The hooks of a docker worker, with the token of the runner of attempt n. *)

\* startJob: the first heartbeat.
StartJob(t, n) ==
  /\ job[t][n] = "live"
  /\ status[t] = "running"
  /\ ~heartbeat[t]
  /\ runner[t][n] = "running"
  /\ heartbeat' = [heartbeat EXCEPT ![t] = TRUE]
  /\ UNCHANGED <<status, attempts, runner, due, drain, job, enabled>>

\* processProgress asks nothing of the runner.
ProcessProgress(t, n) ==
  /\ job[t][n] = "live"
  /\ status[t] = "running"
  /\ heartbeat' = [heartbeat EXCEPT ![t] = TRUE]
  /\ UNCHANGED <<status, attempts, runner, due, drain, job, enabled>>

\* completeJob, when it commits; a rejected call changes nothing here.
CompleteJob(t, n, o) ==
  /\ job[t][n] = "live"
  /\ CompletePair(t, n, HookCompletion(o), RunnerCompletion(o))
  /\ job' = [job EXCEPT ![t][n] = "gone"]
  /\ UNCHANGED <<drain, enabled>>

\* The container dies, or the worker gives up on a rejected completion.
JobLost(t, n) ==
  /\ job[t][n] = "live"
  /\ job' = [job EXCEPT ![t][n] = "gone"]
  /\ UNCHANGED <<rows, drain, enabled>>

\* An administrator disables or enables the app.
SetEnabled ==
  /\ enabled' = ~enabled
  /\ UNCHANGED <<rows, drain, job>>

\* The server process dies and comes back: rows and containers survive it.
Crash ==
  /\ cur # None \/ selected # {}
  /\ selected' = {}
  /\ Release
  /\ UNCHANGED <<rows, job, enabled>>

-----------------------------------------------------------------------------
\* One step of the server for attempt n of task t.
ServerStep(t, n) ==
  \/ ExecuteCoreTask(t, n)
  \/ StartInner(t, n)
  \/ ServerlessReturns(t, n)
  \/ DockerJobTaken(t, n)
  \/ DockerAccepted(t, n)
  \/ DockerDispatchFails(t, n)
  \/ CatchFailure(t, n)

WorkerStep(t, n) ==
  \/ StartJob(t, n)
  \/ ProcessProgress(t, n)
  \/ \E o \in Outcome : CompleteJob(t, n, o)
  \/ JobLost(t, n)

\* Every step but a crash.
Work ==
  \/ \E t \in Task : TriggerAppActionTask(t)
  \/ \E t \in Task, n \in 0 .. MaxAttempts :
        \/ BecomeDue(t, n)
        \/ ServerStep(t, n)
        \/ WorkerStep(t, n)
  \/ DrainSelect
  \/ SetEnabled

Next == Work \/ Crash

Spec == Init /\ [][Next]_vars

\* Crash-free runs.  The cron starts a drain every five seconds, the clock
\* advances, and every await of the drain loop ends: requests to the serverless
\* worker time out and a docker exec returns or throws.  Nothing is assumed of
\* the worker in a container, of the callers or of the administrator.
FairSpec ==
  /\ Init
  /\ [][Work]_vars
  /\ WF_vars(DrainSelect)
  /\ \A t \in Task, n \in 0 .. MaxAttempts :
        /\ WF_vars(BecomeDue(t, n))
        /\ WF_vars(ServerStep(t, n))

-----------------------------------------------------------------------------
(* Properties. *)

Final == {"succeeded", "failed"}
Exhausted(t) == attempts[t] > MaxAttempts

\* Attempts are serial: a runner that is waiting or running belongs to the
\* attempt its task is at, and the runner of every counted attempt is closed.
\* Requeues (of serverless tasks), the dispatcher, the catch of executeCoreTask
\* and the worker's hook (of docker tasks, which have one attempt, also after a
\* dispatch that failed) close runners, in any order, with crashes between.
OneLiveRunner ==
  \A t \in Task, n \in 0 .. MaxAttempts :
    /\ runner[t][n] \in {"waiting", "running"} => n = attempts[t]
    /\ n < attempts[t] => runner[t][n] \in Final

\* No attempt is orphaned: a task that is running has its runner running, so
\* the processor or the hook that holds the runner can still complete it.  The
\* two exceptions are in the code: a requeue refused after the last attempt,
\* and a completion whose onComplete insert throws.
RunningHasRunner ==
  \A t \in Task, n \in 0 .. MaxAttempts :
    status[t] = "running" /\ n = attempts[t] =>
      runner[t][n] = "running" \/ OnComplete[t] # {}

\* A waiting task is going to be picked up: its runner is waiting or running.
\* A docker task may lose its runner while it waits, when its app is disabled.
WaitingHasRunner ==
  \A t \in Task, n \in 0 .. MaxAttempts :
    status[t] = "waiting" /\ n = attempts[t] =>
      \/ runner[t][n] \in {"waiting", "running"}
      \/ t \in DockerTask /\ runner[t][n] = "failed"

\* While the serverless executor holds an attempt nobody else can end it.
ServerlessOwnsAttempt ==
  \A t \in Task \ DockerTask, n \in 0 .. MaxAttempts :
    cur = <<t, n>> /\ stage = "exec" =>
      status[t] = "running" /\ runner[t][n] = "running" /\ n = attempts[t]

\* A parent, one of its handlers and the handler's child agree.
Matches(t, h) ==
  /\ status[t] = "succeeded" /\ h.when \in {"always", "success"}
       => status[h.child] # "absent"
  /\ status[t] = "failed" /\ h.when \in {"always", "failure"}
       => status[h.child] # "absent"
  /\ status[h.child] # "absent" => attempts[t] > 0
  /\ status[h.child] # "absent" /\ h.when = "success"
       => status[t] = "succeeded"

\* Completion and onComplete are one transaction: a final task has the child of
\* every handler that its result meets, and a child exists only if its parent
\* ended an attempt; a success handler's child only if the parent succeeded.
HandlersMatchCompletion ==
  \A t \in Task : \A h \in OnComplete[t] : Matches(t, h)

\* The rows of the app tasks behave as TaskLifecycle promises their owners.
Lifecycle == INSTANCE TaskLifecycle WITH state <- status, tries <- attempts
ImplementsLifecycle == Lifecycle!LifecycleSpec

\* Every attempt ends as AttemptEnd says, which CompletionTx shows of the
\* statements inside the transactions: whoever closes its runner (processor,
\* hook or catch, with crashes and late hooks between), an attempt is counted
\* in the step that closes its runner, or its runner is closed alone and the
\* attempt is never counted.
AttemptEnds == INSTANCE AttemptEnd WITH
  Attempt <- Runner,
  innerEnded <- {r \in Runner : attempts[r[1]] > r[2]},
  runnerEnded <- {r \in Runner : runner[r[1]][r[2]] \in Final}
ImplementsAttemptEnd == AttemptEnds!EndSpec

\* The runners are executed as SerialDrain says, which CoreTaskDrain shows of the
\* calls of startDrainCoreTasks: one at a time, none twice, although hooks close
\* runners that wait in the loop or that it is executing.
RowOf(s) ==
  IF s = "running" THEN "started" ELSE IF s \in Final THEN "done" ELSE s

Executor == INSTANCE SerialDrain WITH
  CoreTask <- Runner,
  row <- [r \in Runner |-> RowOf(runner[r[1]][r[2]])]
ImplementsSerialDrain == Executor!DrainSpec

\* The inductive invariant.  The parts above are not inductive without what the
\* drain loop knows at each stage of the runner it is executing.
AbsentIsFresh ==
  \A t \in Task :
    /\ status[t] = "absent" => attempts[t] = 0 /\ runner[t][0] = "absent"
    /\ status[t] = "waiting" => attempts[t] <= MaxAttempts

RunnerWindow ==
  \A t \in Task, n \in 0 .. MaxAttempts :
    /\ n > attempts[t] => runner[t][n] = "absent"
    /\ n < attempts[t] => runner[t][n] \in Final
    /\ runner[t][n] = "waiting" => status[t] = "waiting"

\* What the stage of the processor of attempt n of task t implies.
Knows(t, n) ==
  /\ stage = "begin" => runner[t][n] = "running" /\ status[t] = "waiting"
  /\ stage = "exec" /\ runner[t][n] = "running" => status[t] = "running"
  /\ stage = "exec" /\ t \notin DockerTask => runner[t][n] = "running"
  /\ stage = "catch" /\ runner[t][n] = "running" =>
       /\ status[t] = "running" => OnComplete[t] # {}
       /\ status[t] = "waiting" => t \in DockerTask

StageKnows ==
  /\ stage = "idle" <=> cur = None
  /\ \A t \in Task, n \in 0 .. MaxAttempts : cur = <<t, n>> => Knows(t, n)

OnlyDockerHasJobs ==
  \A t \in Task \ DockerTask, n \in 0 .. MaxAttempts : job[t][n] = "none"

IInv ==
  /\ TypeOK
  /\ AbsentIsFresh
  /\ RunnerWindow
  /\ StageKnows
  /\ OnlyDockerHasJobs
  /\ RunningHasRunner
  /\ WaitingHasRunner

\* Without crashes, a serverless task without handlers does not stay waiting or
\* running: it ends, or its last requeue is refused.
RuntimeTaskSettles ==
  \A t \in Task \ DockerTask :
    (OnComplete[t] = {} /\ status[t] # "absent")
      ~> (status[t] \in Final \/ Exhausted(t))

\* emitTaskCompletionTelemetry skips success = null, "requeues (success ===
\* null) are skipped": a counted attempt that leaves success unset is a requeue.
NullSuccessIsRequeue ==
  [][\A t \in Task :
       attempts'[t] # attempts[t] /\ status'[t] \notin Final
         => status'[t] = "waiting"]_vars

\* "Update the inner and runner tasks in a transaction": a started attempt is
\* never left behind by a runner that is completed alone.
CompletedTogether ==
  \A t \in Task, n \in 0 .. MaxAttempts :
    status[t] = "running" /\ n = attempts[t] => runner[t][n] = "running"
=============================================================================
