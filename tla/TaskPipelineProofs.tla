------------------------- MODULE TaskPipelineProofs -------------------------
(***************************************************************************)
(* TLAPS proofs about TaskPipeline, for every set of tasks, every handler  *)
(* configuration and every attempt limit.                                  *)
(***************************************************************************)
EXTENDS TaskPipeline, TLAPS

Completion == {"success", "failure", "requeue"}

\* What a committed completion transaction does to the task it completes ...
OwnEffect(t, n, c, rc) ==
  /\ n = attempts[t]
  /\ status[t] = "running"
  /\ status'[t] = CompletedStatus(t, c)
  /\ attempts'[t] = n + 1
  /\ runner'[t][n] = rc
  /\ ShouldRequeue(t, c) => runner'[t][n + 1] = "waiting"
  /\ \A m \in 0 .. MaxAttempts :
       m # n /\ ~(ShouldRequeue(t, c) /\ m = n + 1)
         => runner'[t][m] = runner[t][m]

\* ... and to any other task.
OtherEffect(t, u, c) ==
  /\ attempts'[u] = attempts[u]
  /\ \/ /\ u \notin Fired(t, c)
        /\ status'[u] = status[u]
        /\ \A m \in 0 .. MaxAttempts : runner'[u][m] = runner[u][m]
     \/ /\ u \in Fired(t, c)
        /\ status[u] = "absent"
        /\ status'[u] = "waiting"
        /\ runner'[u][0] = "waiting"
        /\ \A m \in 0 .. MaxAttempts :
             m # 0 => runner'[u][m] = runner[u][m]

\* What _registerTaskCompletedInTx does to the rows of an attempt.
LEMMA CompletePairEffect ==
  ASSUME IInv,
         NEW t \in Task, NEW n \in 0 .. MaxAttempts,
         NEW c \in Completion, NEW rc \in Final,
         CompletePair(t, n, c, rc)
  PROVE  /\ status' \in [Task -> Status]
         /\ attempts' \in [Task -> 0 .. MaxAttempts + 1]
         /\ runner' \in [Task -> [0 .. MaxAttempts -> Status]]
         /\ OwnEffect(t, n, c, rc)
         /\ \A u \in Task : u # t => OtherEffect(t, u, c)
  <1>1. /\ status[t] = "running"
        /\ runner[t][n] = "running"
        /\ n = attempts[t]
    <2>1. status[t] = "running" /\ runner[t][n] = "running"
      BY DEF CompletePair, CanComplete
    <2>2. attempts[t] \in 0 .. MaxAttempts + 1
      BY DEF IInv, TypeOK
    <2>3. ~(n > attempts[t]) /\ ~(n < attempts[t])
      BY <2>1 DEF IInv, RunnerWindow, Final
    <2> QED
      BY <2>1, <2>2, <2>3, TaskAssumption
  <1>2. t \notin Fired(t, c) /\ \A u \in Fired(t, c) : status[u] = "absent"
    BY <1>1 DEF CompletePair, CanComplete, HandlersOK
  <1>3. /\ status' \in [Task -> Status]
        /\ status'[t] = CompletedStatus(t, c)
        /\ \A u \in Task : u # t =>
             /\ u \notin Fired(t, c) => status'[u] = status[u]
             /\ u \in Fired(t, c) => status[u] = "absent" /\ status'[u] = "waiting"
    <2>1. CompletedStatus(t, c) \in Status
      BY DEF CompletedStatus, Status
    <2> QED
      BY <2>1, <1>2 DEF CompletePair, IInv, TypeOK, Status
  <1>4. /\ attempts' \in [Task -> 0 .. MaxAttempts + 1]
        /\ attempts'[t] = attempts[t] + 1
        /\ \A u \in Task : u # t => attempts'[u] = attempts[u]
    BY <1>1, TaskAssumption DEF CompletePair, IInv, TypeOK
  <1>5. /\ runner' \in [Task -> [0 .. MaxAttempts -> Status]]
        /\ runner'[t][n] = rc
        /\ \A u \in Task, m \in 0 .. MaxAttempts :
             ~(u = t /\ m = n) =>
               runner'[u][m] = IF NewRunner(t, c, u, m)
                                   THEN "waiting" ELSE runner[u][m]
    BY DEF CompletePair, IInv, TypeOK, Runner, Status, Final
  <1>6. ShouldRequeue(t, c) =>
          /\ n + 1 \in 0 .. MaxAttempts
          /\ NewRunner(t, c, t, n + 1)
    BY <1>1, TaskAssumption DEF ShouldRequeue, NewRunner
  <1>7. \A u \in Fired(t, c) : NewRunner(t, c, u, 0)
    BY DEF NewRunner
  <1>8. \A u \in Task, m \in 0 .. MaxAttempts :
          NewRunner(t, c, u, m) =>
            \/ u \in Fired(t, c) /\ m = 0
            \/ u = t /\ m = n + 1 /\ ShouldRequeue(t, c)
    BY <1>1 DEF NewRunner
  <1>9. \A u \in Task :
          u # t /\ u \in Fired(t, c) => runner'[u][0] = "waiting"
    BY <1>5, <1>7, TaskAssumption
  <1>10. OwnEffect(t, n, c, rc)
    BY <1>1, <1>2, <1>3, <1>4, <1>5, <1>6, <1>8 DEF OwnEffect
  <1>11. ASSUME NEW u \in Task, u # t
         PROVE  OtherEffect(t, u, c)
    <2>1. CASE u \in Fired(t, c)
      BY <1>3, <1>4, <1>5, <1>8, <1>9, <1>11, <2>1 DEF OtherEffect
    <2>2. CASE u \notin Fired(t, c)
      BY <1>3, <1>4, <1>5, <1>8, <1>11, <2>2 DEF OtherEffect
    <2> QED
      BY <2>1, <2>2
  <1> QED
    BY <1>3, <1>4, <1>5, <1>10, <1>11

\* ... and so it keeps the part of the invariant that is about the rows.
LEMMA CompletePairKeepsRows ==
  ASSUME IInv,
         NEW t \in Task, NEW n \in 0 .. MaxAttempts,
         NEW c \in Completion, NEW rc \in Final,
         CompletePair(t, n, c, rc)
  PROVE  /\ heartbeat' \in [Task -> BOOLEAN]
         /\ due' \subseteq Runner
         /\ AbsentIsFresh'
         /\ RunnerWindow'
         /\ RunningHasRunner'
         /\ WaitingHasRunner'
  <1>a. /\ OwnEffect(t, n, c, rc)
        /\ \A u \in Task : u # t => OtherEffect(t, u, c)
    BY CompletePairEffect
  <1>b. n \in Nat /\ MaxAttempts \in Nat /\ n <= MaxAttempts
    BY TaskAssumption
  <1>1. heartbeat' \in [Task -> BOOLEAN]
    BY DEF CompletePair, IInv, TypeOK
  <1>2. due' \subseteq Runner
    BY DEF CompletePair, IInv, TypeOK
  <1>3. ASSUME NEW u \in Task
        PROVE  /\ status'[u] = "absent" =>
                    attempts'[u] = 0 /\ runner'[u][0] = "absent"
               /\ status'[u] = "waiting" => attempts'[u] <= MaxAttempts
    <2>1. CASE u = t
      BY <1>a, <1>b, <2>1 DEF OwnEffect, CompletedStatus, ShouldRequeue
    <2>2. CASE u # t
      BY <1>a, <1>b, <2>2 DEF OtherEffect, IInv, AbsentIsFresh
    <2> QED
      BY <2>1, <2>2
  <1>4. ASSUME NEW u \in Task, NEW m \in 0 .. MaxAttempts
        PROVE  /\ m > attempts'[u] => runner'[u][m] = "absent"
               /\ m < attempts'[u] => runner'[u][m] \in Final
               /\ runner'[u][m] = "waiting" => status'[u] = "waiting"
    <2>1. CASE u = t /\ m = n
      BY <1>a, <1>b, <2>1 DEF OwnEffect, Final
    <2>2. CASE u = t /\ m = n + 1 /\ ShouldRequeue(t, c)
      BY <1>a, <1>b, <2>2 DEF OwnEffect, CompletedStatus, ShouldRequeue
    <2>3. CASE u = t /\ m # n /\ ~(m = n + 1 /\ ShouldRequeue(t, c))
      BY <1>a, <1>b, <2>3 DEF OwnEffect, IInv, RunnerWindow
    <2>4. CASE u # t /\ u \in Fired(t, c) /\ m = 0
      <3>1. attempts'[u] = 0 /\ runner'[u][0] = "waiting" /\ status'[u] = "waiting"
        BY <1>a, <2>4 DEF OtherEffect, IInv, AbsentIsFresh
      <3> QED
        BY <2>4, <3>1
    <2>5. CASE u # t /\ ~(u \in Fired(t, c) /\ m = 0)
      <3>1. /\ attempts'[u] = attempts[u]
            /\ runner'[u][m] = runner[u][m]
            /\ status[u] # "absent" => status'[u] = status[u]
        BY <1>a, <2>5 DEF OtherEffect
      <3> QED
        BY <3>1 DEF IInv, RunnerWindow
    <2> QED
      BY <2>1, <2>2, <2>3, <2>4, <2>5
  <1>5. ASSUME NEW u \in Task, NEW m \in 0 .. MaxAttempts,
               status'[u] = "running", m = attempts'[u]
        PROVE  runner'[u][m] = "running" \/ OnComplete[u] # {}
    <2>1. CASE u = t
      BY <1>5, <1>a, <1>b, <2>1
      DEF OwnEffect, CompletedStatus, ShouldRequeue, Completion
    <2>2. CASE u # t
      BY <1>5, <1>a, <2>2 DEF OtherEffect, IInv, RunningHasRunner
    <2> QED
      BY <2>1, <2>2
  <1>6. ASSUME NEW u \in Task, NEW m \in 0 .. MaxAttempts,
               status'[u] = "waiting", m = attempts'[u]
        PROVE  \/ runner'[u][m] \in {"waiting", "running"}
               \/ u \in DockerTask /\ runner'[u][m] = "failed"
    <2>1. CASE u = t
      BY <1>6, <1>a, <1>b, <2>1 DEF OwnEffect, CompletedStatus
    <2>2. CASE u # t
      BY <1>6, <1>a, <2>2 DEF OtherEffect, IInv, AbsentIsFresh, WaitingHasRunner
    <2> QED
      BY <2>1, <2>2
  <1> QED
    BY <1>1, <1>2, <1>3, <1>4, <1>5, <1>6
    DEF AbsentIsFresh, RunnerWindow, RunningHasRunner, WaitingHasRunner

\* The initial state satisfies the invariant.
LEMMA InitIInv == Init => IInv
  <1> SUFFICES ASSUME Init PROVE IInv
    OBVIOUS
  <1>1. TypeOK
    BY TaskAssumption DEF Init, TypeOK, Status, Stage
  <1>2. AbsentIsFresh /\ RunningHasRunner /\ WaitingHasRunner
    BY TaskAssumption DEF Init, AbsentIsFresh, RunningHasRunner, WaitingHasRunner, Runner
  <1>3. RunnerWindow
    BY TaskAssumption DEF Init, RunnerWindow, Runner
  <1>4. StageKnows
    BY NoneAssumption DEF Init, StageKnows, Runner
  <1>5. OnlyDockerHasJobs
    BY DEF Init, OnlyDockerHasJobs, Runner
  <1> QED
    BY <1>1, <1>2, <1>3, <1>4, <1>5 DEF IInv

\* The steps that change no row but a heartbeat or a due time keep everything
\* the invariant says about rows.
LEMMA RowsUnchanged ==
  ASSUME IInv, UNCHANGED <<status, attempts, runner>>
  PROVE  AbsentIsFresh' /\ RunnerWindow' /\ RunningHasRunner' /\ WaitingHasRunner'
  BY DEF IInv, AbsentIsFresh, RunnerWindow, RunningHasRunner, WaitingHasRunner

\* What the drain knows of its runner depends on that runner's rows only.
LEMMA StageUnchanged ==
  ASSUME IInv, UNCHANGED <<status, runner, cur, stage>>
  PROVE  StageKnows'
  BY DEF IInv, StageKnows, Knows

\* triggerAppActionTask inserts a fresh task with its first runner.
LEMMA TriggerKeeps ==
  ASSUME IInv, NEW t \in Task, TriggerAppActionTask(t)
  PROVE  IInv'
  <1>0. /\ status[t] = "absent"
        /\ attempts[t] = 0
        /\ runner[t][0] = "absent"
        /\ <<t, 0>> \in Runner
        /\ 0 \in 0 .. MaxAttempts
    BY TaskAssumption DEF TriggerAppActionTask, IInv, AbsentIsFresh, Runner
  <1>1. TypeOK'
    BY <1>0 DEF TriggerAppActionTask, IInv, TypeOK, Status, drain
  <1>2. /\ attempts'[t] = 0
        /\ status'[t] = "waiting"
        /\ runner'[t][0] = "waiting"
    BY <1>0 DEF TriggerAppActionTask, IInv, TypeOK
  <1>3. \A u \in Task :
          attempts'[u] = attempts[u] /\ (u # t => status'[u] = status[u])
    BY DEF TriggerAppActionTask, IInv, TypeOK
  <1>r. \A u \in Task, m \in 0 .. MaxAttempts :
          u # t \/ m # 0 => runner'[u][m] = runner[u][m]
    BY DEF TriggerAppActionTask, IInv, TypeOK, Runner
  <1>4. AbsentIsFresh'
    BY <1>2, <1>3, <1>r, TaskAssumption DEF IInv, AbsentIsFresh
  <1>5. RunnerWindow'
    BY <1>0, <1>2, <1>3, <1>r, TaskAssumption DEF IInv, RunnerWindow
  <1>6. StageKnows'
    <2>1. UNCHANGED <<cur, stage>>
      BY DEF TriggerAppActionTask, drain
    <2>2. stage = "idle" <=> cur = None
      BY DEF IInv, StageKnows, Knows
    <2>3. ASSUME NEW u \in Task, NEW m \in 0 .. MaxAttempts, cur = <<u, m>>
          PROVE  Knows(u, m)'
      <3>1. Knows(u, m)
        BY <2>3 DEF IInv, StageKnows
      <3>2. CASE u # t
        BY <2>1, <3>1, <3>2, <1>3, <1>r DEF Knows
      <3>3. CASE u = t
        <4>1. runner[t][m] = "absent"
          BY <1>0, TaskAssumption DEF IInv, RunnerWindow
        <4>2. runner'[t][m] # "running"
          BY <4>1, <1>2, <1>r
        <4> QED
          BY <2>1, <3>1, <3>3, <4>1, <4>2 DEF Knows
      <3> QED
        BY <3>2, <3>3
    <2> QED
      BY <2>1, <2>2, <2>3 DEF StageKnows
  <1>7. OnlyDockerHasJobs'
    BY DEF TriggerAppActionTask, IInv, OnlyDockerHasJobs
  <1>8. RunningHasRunner'
    BY <1>0, <1>2, <1>3, <1>r DEF IInv, RunningHasRunner
  <1>9. WaitingHasRunner'
    BY <1>0, <1>2, <1>3, <1>r DEF IInv, WaitingHasRunner
  <1> QED
    BY <1>1, <1>4, <1>5, <1>6, <1>7, <1>8, <1>9 DEF IInv

\* The passing of time changes no attempt.
LEMMA BecomeDueKeeps ==
  ASSUME IInv, NEW t \in Task, NEW n \in 0 .. MaxAttempts, BecomeDue(t, n)
  PROVE  IInv'
  <1>1. TypeOK'
    BY DEF BecomeDue, drain, IInv, TypeOK, Runner
  <1>2. UNCHANGED <<status, attempts, runner, cur, stage, job>>
    BY DEF BecomeDue, drain
  <1>3. OnlyDockerHasJobs'
    BY <1>2 DEF IInv, OnlyDockerHasJobs
  <1> QED
    BY <1>1, <1>2, <1>3, RowsUnchanged, StageUnchanged DEF IInv

\* The drain selects runners that wait.
LEMMA DrainSelectKeeps ==
  ASSUME IInv, DrainSelect
  PROVE  IInv'
  <1>1. TypeOK'
    BY DEF DrainSelect, Startable, rows, IInv, TypeOK
  <1>2. UNCHANGED <<status, attempts, runner, cur, stage, job>>
    BY DEF DrainSelect, rows
  <1>3. OnlyDockerHasJobs'
    BY <1>2 DEF IInv, OnlyDockerHasJobs
  <1> QED
    BY <1>1, <1>2, <1>3, RowsUnchanged, StageUnchanged DEF IInv

\* Enabling or disabling an app changes no row.
LEMMA SetEnabledKeeps ==
  ASSUME IInv, SetEnabled
  PROVE  IInv'
  <1>1. TypeOK'
    BY DEF SetEnabled, drain, rows, IInv, TypeOK
  <1>2. UNCHANGED <<status, attempts, runner, cur, stage, job>>
    BY DEF SetEnabled, drain, rows
  <1>3. OnlyDockerHasJobs'
    BY <1>2 DEF IInv, OnlyDockerHasJobs
  <1> QED
    BY <1>1, <1>2, <1>3, RowsUnchanged, StageUnchanged DEF IInv

\* When the drain loop lets go of its runner, the stage says nothing.
LEMMA ReleaseKnows ==
  ASSUME Release
  PROVE  StageKnows'
  BY NoneAssumption DEF Release, StageKnows, Runner

\* A crash changes no row and forgets what the drain was doing.
LEMMA CrashKeeps ==
  ASSUME IInv, Crash
  PROVE  IInv'
  <1>1. TypeOK'
    BY DEF Crash, Release, rows, IInv, TypeOK, Stage
  <1>2. UNCHANGED <<status, attempts, runner, job>>
    BY DEF Crash, rows
  <1>3. OnlyDockerHasJobs'
    BY <1>2 DEF IInv, OnlyDockerHasJobs
  <1>4. StageKnows'
    BY ReleaseKnows DEF Crash
  <1> QED
    BY <1>1, <1>2, <1>3, <1>4, RowsUnchanged DEF IInv

\* executeCoreTask starts a runner that waits.
LEMMA ExecuteCoreTaskKeeps ==
  ASSUME IInv, NEW t \in Task, NEW n \in 0 .. MaxAttempts, ExecuteCoreTask(t, n)
  PROVE  IInv'
  <1>1. CASE runner[t][n] # "waiting"
    <2>1. TypeOK'
      BY <1>1 DEF ExecuteCoreTask, IInv, TypeOK
    <2>2. UNCHANGED <<status, attempts, runner, cur, stage, job>>
      BY <1>1 DEF ExecuteCoreTask
    <2>3. OnlyDockerHasJobs'
      BY <2>2 DEF IInv, OnlyDockerHasJobs
    <2> QED
      BY <2>1, <2>2, <2>3, RowsUnchanged, StageUnchanged DEF IInv
  <1>2. CASE runner[t][n] = "waiting"
    <2>a. /\ runner' = [runner EXCEPT ![t][n] = "running"]
          /\ runner \in [Task -> [0 .. MaxAttempts -> Status]]
      BY <1>2 DEF ExecuteCoreTask, IInv, TypeOK
    <2>2. /\ runner'[t][n] = "running"
          /\ \A u \in Task, m \in 0 .. MaxAttempts :
               ~(u = t /\ m = n) => runner'[u][m] = runner[u][m]
      BY <2>a
    <2>b. runner' \in [Task -> [0 .. MaxAttempts -> Status]]
      BY <2>a DEF Status
    <2>1. TypeOK'
      BY <1>2, <2>b DEF ExecuteCoreTask, IInv, TypeOK, Stage, Runner
    <2>3. UNCHANGED <<status, attempts, job>> /\ cur' = <<t, n>> /\ stage' = "begin"
      BY <1>2 DEF ExecuteCoreTask
    <2>4. status[t] = "waiting"
      BY <1>2 DEF IInv, RunnerWindow
    <2>5. ~(n > attempts[t]) /\ ~(n < attempts[t])
      BY <1>2 DEF IInv, RunnerWindow, Final
    <2>6. AbsentIsFresh'
      BY <2>2, <2>3, <2>4, TaskAssumption DEF IInv, AbsentIsFresh
    <2>7. RunnerWindow'
      BY <2>2, <2>3, <2>5 DEF IInv, RunnerWindow
    <2>8. RunningHasRunner' /\ WaitingHasRunner'
      BY <2>2, <2>3, <2>4 DEF IInv, RunningHasRunner, WaitingHasRunner
    <2>9. StageKnows'
      <3>1. cur' # None
        BY <2>3, NoneAssumption DEF Runner
      <3> QED
        BY <2>2, <2>3, <2>4, <3>1 DEF StageKnows, Knows
    <2>10. OnlyDockerHasJobs'
      BY <2>3 DEF IInv, OnlyDockerHasJobs
    <2> QED
      BY <2>1, <2>6, <2>7, <2>8, <2>9, <2>10 DEF IInv
  <1> QED
    BY <1>1, <1>2

\* registerTaskStarted starts an attempt for its live runner.
LEMMA StartInnerKeeps ==
  ASSUME IInv, NEW t \in Task, NEW n \in 0 .. MaxAttempts, StartInner(t, n)
  PROVE  IInv'
  <1>0. /\ cur = <<t, n>> /\ cur' = cur /\ stage = "begin"
        /\ UNCHANGED <<attempts, runner, job>>
        /\ cur # None
    BY NoneAssumption DEF StartInner, Runner
  <1>1. runner[t][n] = "running" /\ status[t] = "waiting"
    BY <1>0 DEF IInv, StageKnows, Knows
  <1>2. OnlyDockerHasJobs'
    BY <1>0 DEF IInv, OnlyDockerHasJobs
  <1>3. CASE t \in DockerTask => enabled
    <2>1. status' = [status EXCEPT ![t] = "running"] /\ stage' = "exec"
      BY <1>1, <1>3 DEF StartInner
    <2>2. status'[t] = "running" /\ \A u \in Task : u # t => status'[u] = status[u]
      BY <2>1 DEF IInv, TypeOK
    <2>3. TypeOK'
      BY <2>1 DEF StartInner, IInv, TypeOK, Status, Stage
    <2>4. ~(n > attempts[t]) /\ ~(n < attempts[t])
      BY <1>1 DEF IInv, RunnerWindow, Final
    <2>5. AbsentIsFresh'
      BY <1>0, <2>2 DEF IInv, AbsentIsFresh
    <2>6. RunnerWindow'
      <3>1. \A m \in 0 .. MaxAttempts : runner[t][m] # "waiting"
        <4> SUFFICES ASSUME NEW m \in 0 .. MaxAttempts, runner[t][m] = "waiting"
                     PROVE  FALSE
          OBVIOUS
        <4>1. ~(m > attempts[t]) /\ ~(m < attempts[t])
          BY DEF IInv, RunnerWindow, Final
        <4>2. attempts[t] \in 0 .. MaxAttempts + 1
          BY DEF IInv, TypeOK
        <4>3. m = n
          BY <2>4, <4>1, <4>2, TaskAssumption
        <4> QED
          BY <1>1, <4>3
      <3> QED
        BY <1>0, <2>2, <3>1 DEF IInv, RunnerWindow
    <2>7. RunningHasRunner'
      <3> SUFFICES ASSUME NEW u \in Task, NEW m \in 0 .. MaxAttempts,
                          status'[u] = "running", m = attempts'[u]
                   PROVE  runner'[u][m] = "running" \/ OnComplete[u] # {}
        BY DEF RunningHasRunner
      <3>1. CASE u = t
        <4>1. m = n
          BY <1>0, <2>4, <3>1, TaskAssumption
        <4> QED
          BY <1>0, <1>1, <3>1, <4>1
      <3>2. CASE u # t
        BY <1>0, <2>2, <3>2 DEF IInv, RunningHasRunner
      <3> QED
        BY <3>1, <3>2
    <2>8. WaitingHasRunner'
      BY <1>0, <2>2 DEF IInv, WaitingHasRunner
    <2>9. StageKnows'
      BY <1>0, <1>1, <2>1, <2>2 DEF StageKnows, Knows
    <2> QED
      BY <1>2, <2>3, <2>5, <2>6, <2>7, <2>8, <2>9 DEF IInv
  <1>4. CASE ~(t \in DockerTask => enabled)
    <2>1. stage' = "catch" /\ status' = status
      BY <1>4 DEF StartInner
    <2>2. TypeOK'
      BY <2>1 DEF StartInner, IInv, TypeOK, Stage
    <2>3. StageKnows'
      BY <1>0, <1>1, <1>4, <2>1 DEF StageKnows, Knows
    <2> QED
      BY <1>0, <1>2, <2>1, <2>2, <2>3, RowsUnchanged DEF IInv
  <1> QED
    BY <1>3, <1>4

\* A processor ends its attempt, or throws.
LEMMA ProcessorCompletesKeeps ==
  ASSUME IInv, NEW t \in Task, NEW n \in 0 .. MaxAttempts, NEW o \in Outcome,
         ProcessorCompletes(t, n, o)
  PROVE  IInv'
  <1>0. /\ cur = <<t, n>> /\ stage = "exec" /\ cur # None
        /\ UNCHANGED <<selected, job, enabled>>
    BY NoneAssumption DEF ProcessorCompletes, Runner
  <1>1. OnlyDockerHasJobs'
    BY <1>0 DEF IInv, OnlyDockerHasJobs
  <1>2. InnerCompletion(o) \in Completion /\ RunnerCompletion(o) \in Final
    BY DEF InnerCompletion, RunnerCompletion, Completion, Final
  <1>3. CASE CompletePair(t, n, InnerCompletion(o), RunnerCompletion(o)) /\ Release
    <2>1. StageKnows'
      BY <1>3, ReleaseKnows
    <2>2. /\ status' \in [Task -> Status]
          /\ attempts' \in [Task -> 0 .. MaxAttempts + 1]
          /\ runner' \in [Task -> [0 .. MaxAttempts -> Status]]
      BY <1>2, <1>3, CompletePairEffect
    <2>3. /\ heartbeat' \in [Task -> BOOLEAN]
          /\ due' \subseteq Runner
          /\ AbsentIsFresh' /\ RunnerWindow' /\ RunningHasRunner' /\ WaitingHasRunner'
      BY <1>2, <1>3, CompletePairKeepsRows
    <2>4. TypeOK'
      BY <1>0, <1>3, <2>2, <2>3 DEF IInv, TypeOK, Release, Stage
    <2> QED
      BY <1>1, <2>1, <2>3, <2>4 DEF IInv
  <1>4. CASE /\ ~CanComplete(t, n, InnerCompletion(o))
             /\ stage' = "catch"
             /\ UNCHANGED <<rows, cur>>
    <2>1. UNCHANGED <<status, attempts, runner, cur>>
      BY <1>4 DEF rows
    <2>2. TypeOK'
      BY <1>0, <1>4 DEF IInv, TypeOK, rows, Stage
    <2>3. ASSUME runner[t][n] = "running" PROVE OnComplete[t] # {}
      <3>1. status[t] = "running"
        BY <1>0, <2>3 DEF IInv, StageKnows, Knows
      <3>2. Fired(t, InnerCompletion(o)) # {}
        BY <1>4, <2>3, <3>1 DEF CanComplete, HandlersOK
      <3> QED
        BY <3>2 DEF Fired
    <2>4. runner[t][n] = "running" => status[t] = "running"
      BY <1>0 DEF IInv, StageKnows, Knows
    <2>5. StageKnows'
      BY <1>0, <1>4, <2>1, <2>3, <2>4 DEF StageKnows, Knows
    <2> QED
      BY <1>1, <2>1, <2>2, <2>5, RowsUnchanged DEF IInv
  <1> QED
    BY <1>3, <1>4 DEF ProcessorCompletes

\* The agent takes a job of the current runner.
LEMMA DockerJobTakenKeeps ==
  ASSUME IInv, NEW t \in Task, NEW n \in 0 .. MaxAttempts, DockerJobTaken(t, n)
  PROVE  IInv'
  <1>1. /\ job' = [job EXCEPT ![t][n] = "live"]
        /\ t \in DockerTask
        /\ job \in [Task -> [0 .. MaxAttempts -> {"none", "live", "gone"}]]
    BY DEF DockerJobTaken, IInv, TypeOK
  <1>2. job' \in [Task -> [0 .. MaxAttempts -> {"none", "live", "gone"}]]
    BY <1>1
  <1>3. UNCHANGED <<status, attempts, runner, cur, stage>>
    BY DEF DockerJobTaken, rows, drain
  <1>4. TypeOK'
    BY <1>2 DEF DockerJobTaken, rows, drain, IInv, TypeOK
  <1>5. OnlyDockerHasJobs'
    BY <1>1 DEF IInv, OnlyDockerHasJobs
  <1> QED
    BY <1>3, <1>4, <1>5, RowsUnchanged, StageUnchanged DEF IInv

\* A dispatched job leaves its runner to the hook.
LEMMA DockerAcceptedKeeps ==
  ASSUME IInv, NEW t \in Task, NEW n \in 0 .. MaxAttempts, DockerAccepted(t, n)
  PROVE  IInv'
  <1>1. UNCHANGED <<status, attempts, runner, job>>
    BY DEF DockerAccepted, rows
  <1>2. TypeOK'
    BY DEF DockerAccepted, Release, rows, IInv, TypeOK, Stage
  <1>3. StageKnows'
    BY ReleaseKnows DEF DockerAccepted
  <1>4. OnlyDockerHasJobs'
    BY <1>1 DEF IInv, OnlyDockerHasJobs
  <1> QED
    BY <1>1, <1>2, <1>3, <1>4, RowsUnchanged DEF IInv

\* The catch of executeCoreTask ends the runner alone.
LEMMA CatchFailureKeeps ==
  ASSUME IInv, NEW t \in Task, NEW n \in 0 .. MaxAttempts, CatchFailure(t, n)
  PROVE  IInv'
  <1>0. /\ cur = <<t, n>> /\ stage = "catch"
        /\ UNCHANGED <<status, attempts, job>>
    BY DEF CatchFailure
  <1>1. StageKnows'
    BY ReleaseKnows DEF CatchFailure
  <1>2. OnlyDockerHasJobs'
    BY <1>0 DEF IInv, OnlyDockerHasJobs
  <1>3. CASE runner[t][n] = "running"
    <2>1. /\ runner' = [runner EXCEPT ![t][n] = "failed"]
          /\ runner \in [Task -> [0 .. MaxAttempts -> Status]]
      BY <1>3 DEF CatchFailure, IInv, TypeOK
    <2>2. /\ runner'[t][n] = "failed"
          /\ \A u \in Task, m \in 0 .. MaxAttempts :
               ~(u = t /\ m = n) => runner'[u][m] = runner[u][m]
      BY <2>1
    <2>3. runner' \in [Task -> [0 .. MaxAttempts -> Status]]
      BY <2>1 DEF Status
    <2>4. TypeOK'
      BY <1>3, <2>3 DEF CatchFailure, Release, IInv, TypeOK, Stage
    <2>5. /\ status[t] = "running" => OnComplete[t] # {}
          /\ status[t] = "waiting" => t \in DockerTask
      BY <1>0, <1>3 DEF IInv, StageKnows, Knows
    <2>6. AbsentIsFresh'
      BY <1>0, <1>3, <2>2, TaskAssumption DEF IInv, AbsentIsFresh
    <2>7. ~(n > attempts[t])
      BY <1>3 DEF IInv, RunnerWindow
    <2>8. RunnerWindow'
      BY <1>0, <2>2, <2>7 DEF IInv, RunnerWindow, Final
    <2>9. RunningHasRunner' /\ WaitingHasRunner'
      BY <1>0, <2>2, <2>5 DEF IInv, RunningHasRunner, WaitingHasRunner
    <2> QED
      BY <1>1, <1>2, <2>4, <2>6, <2>8, <2>9 DEF IInv
  <1>4. CASE runner[t][n] # "running"
    <2>1. runner' = runner
      BY <1>4 DEF CatchFailure
    <2>2. TypeOK'
      BY <1>4 DEF CatchFailure, Release, IInv, TypeOK, Stage
    <2> QED
      BY <1>0, <1>1, <1>2, <2>1, <2>2, RowsUnchanged DEF IInv
  <1> QED
    BY <1>3, <1>4

\* The hooks' starts and progress reports end nothing.
LEMMA HeartbeatKeeps ==
  ASSUME IInv, NEW t \in Task, NEW n \in 0 .. MaxAttempts,
         StartJob(t, n) \/ ProcessProgress(t, n)
  PROVE  IInv'
  <1>1. UNCHANGED <<status, attempts, runner, cur, stage, job>>
    BY DEF StartJob, ProcessProgress, drain
  <1>2. TypeOK'
    BY DEF StartJob, ProcessProgress, drain, IInv, TypeOK
  <1>3. OnlyDockerHasJobs'
    BY <1>1 DEF IInv, OnlyDockerHasJobs
  <1> QED
    BY <1>1, <1>2, <1>3, RowsUnchanged, StageUnchanged DEF IInv

\* A lost job changes no row.
LEMMA JobLostKeeps ==
  ASSUME IInv, NEW t \in Task, NEW n \in 0 .. MaxAttempts, JobLost(t, n)
  PROVE  IInv'
  <1>1. /\ job' = [job EXCEPT ![t][n] = "gone"]
        /\ job[t][n] = "live"
        /\ job \in [Task -> [0 .. MaxAttempts -> {"none", "live", "gone"}]]
    BY DEF JobLost, IInv, TypeOK
  <1>2. job' \in [Task -> [0 .. MaxAttempts -> {"none", "live", "gone"}]]
    BY <1>1
  <1>3. UNCHANGED <<status, attempts, runner, cur, stage>>
    BY DEF JobLost, rows, drain
  <1>4. TypeOK'
    BY <1>2 DEF JobLost, rows, drain, IInv, TypeOK
  <1>5. OnlyDockerHasJobs'
    BY <1>1 DEF IInv, OnlyDockerHasJobs
  <1> QED
    BY <1>3, <1>4, <1>5, RowsUnchanged, StageUnchanged DEF IInv

\* completeJob ends the attempt its job belongs to, or throws.
LEMMA CompleteJobKeeps ==
  ASSUME IInv, NEW t \in Task, NEW n \in 0 .. MaxAttempts, NEW o \in Outcome,
         CompleteJob(t, n, o)
  PROVE  IInv'
  <1> DEFINE c == HookCompletion(o)
             rc == RunnerCompletion(o)
  <1>0. c \in Completion /\ rc \in Final
    BY DEF HookCompletion, RunnerCompletion, Completion, Final
  <1>1. /\ job' = [job EXCEPT ![t][n] = "gone"]
        /\ job[t][n] = "live"
        /\ job \in [Task -> [0 .. MaxAttempts -> {"none", "live", "gone"}]]
    BY DEF CompleteJob, IInv, TypeOK
  <1>2. job' \in [Task -> [0 .. MaxAttempts -> {"none", "live", "gone"}]]
    BY <1>1
  <1>3. OnlyDockerHasJobs'
    BY <1>1 DEF IInv, OnlyDockerHasJobs
  <1>4. CompletePair(t, n, c, rc) /\ UNCHANGED <<selected, cur, stage, enabled>>
    BY DEF CompleteJob, drain
  <1>5. /\ status' \in [Task -> Status]
        /\ attempts' \in [Task -> 0 .. MaxAttempts + 1]
        /\ runner' \in [Task -> [0 .. MaxAttempts -> Status]]
        /\ OwnEffect(t, n, c, rc)
        /\ \A u \in Task : u # t => OtherEffect(t, u, c)
    <2> HIDE DEF c, rc
    <2> QED
      BY <1>0, <1>4, CompletePairEffect
  <1>6. /\ heartbeat' \in [Task -> BOOLEAN]
        /\ due' \subseteq Runner
        /\ AbsentIsFresh' /\ RunnerWindow' /\ RunningHasRunner' /\ WaitingHasRunner'
    <2> HIDE DEF c, rc
    <2> QED
      BY <1>0, <1>4, CompletePairKeepsRows
  <1>7. TypeOK'
    BY <1>2, <1>4, <1>5, <1>6 DEF IInv, TypeOK
  <1>8. StageKnows'
    <2> HIDE DEF c, rc
    <2>1. ASSUME NEW u \in Task, NEW m \in 0 .. MaxAttempts, cur = <<u, m>>
          PROVE  Knows(u, m)'
      <3>1. Knows(u, m)
        BY <2>1 DEF IInv, StageKnows
      <3>2. CASE u = t
        <4>1. t \in DockerTask
          BY <1>1 DEF IInv, OnlyDockerHasJobs
        <4>2. stage # "begin"
          BY <3>1, <3>2, <1>5 DEF Knows, OwnEffect
        <4>3. runner'[t][m] # "running"
          <5>1. runner[t][m] = "running" => m = n
            <6>1. runner[t][m] = "running" => ~(m > attempts[t]) /\ ~(m < attempts[t])
              BY DEF IInv, RunnerWindow, Final
            <6> QED
              BY <6>1, <1>5, TaskAssumption DEF OwnEffect
          <5>2. runner'[t][m] \in {rc, "waiting", runner[t][m]}
                /\ runner'[t][n] = rc
            BY <1>5 DEF OwnEffect
          <5> QED
            BY <1>0, <5>1, <5>2 DEF Final
        <4> QED
          BY <1>4, <3>1, <3>2, <4>1, <4>2, <4>3 DEF Knows
      <3>3. CASE u # t /\ status'[u] = status[u] /\ runner'[u][m] = runner[u][m]
        BY <1>4, <3>1, <3>3 DEF Knows
      <3>4. CASE u # t /\ ~(status'[u] = status[u] /\ runner'[u][m] = runner[u][m])
        <4>1. OtherEffect(t, u, c)
          BY <1>5, <3>4
        <4>2. /\ status[u] = "absent"
              /\ m = 0 => runner'[u][m] = "waiting"
              /\ m # 0 => runner'[u][m] = runner[u][m]
          BY <3>4, <4>1 DEF OtherEffect
        <4>3. runner[u][m] = "absent"
          BY <4>2, TaskAssumption DEF IInv, AbsentIsFresh, RunnerWindow
        <4>4. runner'[u][m] # "running"
          BY <4>2, <4>3
        <4> QED
          BY <1>4, <3>1, <4>2, <4>3, <4>4 DEF Knows
      <3> QED
        BY <3>2, <3>3, <3>4
    <2> QED
      BY <1>4, <2>1 DEF IInv, StageKnows
  <1> QED
    BY <1>3, <1>6, <1>7, <1>8 DEF IInv

-----------------------------------------------------------------------------
\* Every step keeps the invariant.
LEMMA NextKeepsIInv == IInv /\ [Next]_vars => IInv'
  <1> SUFFICES ASSUME IInv, [Next]_vars PROVE IInv'
    OBVIOUS
  <1>1. CASE UNCHANGED vars
    <2>1. UNCHANGED <<status, attempts, runner, cur, stage, job>>
      BY <1>1 DEF vars
    <2>2. TypeOK'
      BY <1>1 DEF vars, IInv, TypeOK
    <2>3. OnlyDockerHasJobs'
      BY <2>1 DEF IInv, OnlyDockerHasJobs
    <2> QED
      BY <2>1, <2>2, <2>3, RowsUnchanged, StageUnchanged DEF IInv
  <1>2. ASSUME NEW t \in Task, TriggerAppActionTask(t) PROVE IInv'
    BY <1>2, TriggerKeeps
  <1>3. ASSUME NEW t \in Task, NEW n \in 0 .. MaxAttempts, BecomeDue(t, n)
        PROVE  IInv'
    BY <1>3, BecomeDueKeeps
  <1>4. ASSUME NEW t \in Task, NEW n \in 0 .. MaxAttempts, ServerStep(t, n)
        PROVE  IInv'
    <2>1. CASE ExecuteCoreTask(t, n)
      BY <2>1, ExecuteCoreTaskKeeps
    <2>2. CASE StartInner(t, n)
      BY <2>2, StartInnerKeeps
    <2>3. CASE ServerlessReturns(t, n)
      BY <2>3, ProcessorCompletesKeeps DEF ServerlessReturns
    <2>4. CASE DockerJobTaken(t, n)
      BY <2>4, DockerJobTakenKeeps
    <2>5. CASE DockerAccepted(t, n)
      BY <2>5, DockerAcceptedKeeps
    <2>6. CASE DockerDispatchFails(t, n)
      BY <2>6, ProcessorCompletesKeeps DEF DockerDispatchFails, Outcome
    <2>7. CASE CatchFailure(t, n)
      BY <2>7, CatchFailureKeeps
    <2> QED
      BY <1>4, <2>1, <2>2, <2>3, <2>4, <2>5, <2>6, <2>7 DEF ServerStep
  <1>5. ASSUME NEW t \in Task, NEW n \in 0 .. MaxAttempts, WorkerStep(t, n)
        PROVE  IInv'
    <2>1. CASE StartJob(t, n) \/ ProcessProgress(t, n)
      BY <2>1, HeartbeatKeeps
    <2>2. CASE \E o \in Outcome : CompleteJob(t, n, o)
      BY <2>2, CompleteJobKeeps
    <2>3. CASE JobLost(t, n)
      BY <2>3, JobLostKeeps
    <2> QED
      BY <1>5, <2>1, <2>2, <2>3 DEF WorkerStep
  <1>6. CASE DrainSelect
    BY <1>6, DrainSelectKeeps
  <1>7. CASE SetEnabled
    BY <1>7, SetEnabledKeeps
  <1>8. CASE Crash
    BY <1>8, CrashKeeps
  <1> QED
    BY <1>1, <1>2, <1>3, <1>4, <1>5, <1>6, <1>7, <1>8 DEF Next, Work

\* IInv holds in every state of the task pipeline.
THEOREM SpecIInv == Spec => []IInv
  BY InitIInv, NextKeepsIInv, PTL DEF Spec

\* Every variable keeps its type; in particular attemptCount never exceeds
\* MaxAttempts + 1.
THEOREM TypeCorrect == Spec => []TypeOK
  <1>1. IInv => TypeOK
    BY DEF IInv
  <1> QED
    BY <1>1, SpecIInv, PTL

\* Attempts are serial: whatever completes runners, and in whatever order, only
\* the runner of the attempt a task is at is ever waiting or running.
THEOREM AttemptsAreSerial == Spec => []OneLiveRunner
  <1>1. ASSUME IInv PROVE OneLiveRunner
    <2> SUFFICES ASSUME NEW t \in Task, NEW n \in 0 .. MaxAttempts
                 PROVE  /\ runner[t][n] \in {"waiting", "running"} => n = attempts[t]
                        /\ n < attempts[t] => runner[t][n] \in Final
      BY DEF OneLiveRunner
    <2>1. attempts[t] \in 0 .. MaxAttempts + 1
      BY <1>1 DEF IInv, TypeOK
    <2>2. /\ n > attempts[t] => runner[t][n] = "absent"
          /\ n < attempts[t] => runner[t][n] \in Final
      BY <1>1 DEF IInv, RunnerWindow
    <2> QED
      BY <2>1, <2>2, TaskAssumption DEF Final
  <1> QED
    BY <1>1, SpecIInv, PTL

\* No running attempt is orphaned, but by a refused requeue or a throwing
\* handler: its runner is live.
THEOREM NoOrphanedAttempt == Spec => []RunningHasRunner
  <1>1. IInv => RunningHasRunner
    BY DEF IInv
  <1> QED
    BY <1>1, SpecIInv, PTL

\* No waiting task is forgotten: the runner that will start it is live.
THEOREM NoForgottenTask == Spec => []WaitingHasRunner
  <1>1. IInv => WaitingHasRunner
    BY DEF IInv
  <1> QED
    BY <1>1, SpecIInv, PTL

\* Nothing can end an attempt that the serverless executor holds.
THEOREM ServerlessExclusive == Spec => []ServerlessOwnsAttempt
  <1>1. ASSUME IInv PROVE ServerlessOwnsAttempt
    <2> SUFFICES ASSUME NEW t \in Task \ DockerTask, NEW n \in 0 .. MaxAttempts,
                        cur = <<t, n>>, stage = "exec"
                 PROVE  status[t] = "running" /\ runner[t][n] = "running"
                        /\ n = attempts[t]
      BY DEF ServerlessOwnsAttempt
    <2>1. runner[t][n] = "running" /\ status[t] = "running"
      BY <1>1 DEF IInv, StageKnows, Knows
    <2>2. ~(n > attempts[t]) /\ ~(n < attempts[t])
      BY <1>1, <2>1 DEF IInv, RunnerWindow, Final
    <2>3. attempts[t] \in 0 .. MaxAttempts + 1
      BY <1>1 DEF IInv, TypeOK
    <2> QED
      BY <2>1, <2>2, <2>3, TaskAssumption
  <1> QED
    BY <1>1, SpecIInv, PTL

-----------------------------------------------------------------------------
\* What a step can do to the rows of the app tasks: nothing, insert one, start
\* one, or complete one.
LEMMA StepEffect ==
  ASSUME IInv, [Next]_vars
  PROVE  \/ UNCHANGED <<status, attempts>>
         \/ \E t \in Root : /\ status[t] = "absent"
                            /\ status' = [status EXCEPT ![t] = "waiting"]
                            /\ attempts' = attempts
         \/ \E t \in Task : /\ status[t] = "waiting"
                            /\ status' = [status EXCEPT ![t] = "running"]
                            /\ attempts' = attempts
         \/ \E t \in Task, n \in 0 .. MaxAttempts, c \in Completion, rc \in Final :
              CompletePair(t, n, c, rc)
  <1>1. CASE UNCHANGED vars
    BY <1>1 DEF vars
  <1>2. ASSUME NEW t \in Task, TriggerAppActionTask(t)
        PROVE  \E u \in Root : /\ status[u] = "absent"
                               /\ status' = [status EXCEPT ![u] = "waiting"]
                               /\ attempts' = attempts
    BY <1>2 DEF TriggerAppActionTask
  <1>3. ASSUME NEW t \in Task, NEW n \in 0 .. MaxAttempts, StartInner(t, n)
        PROVE  \/ UNCHANGED <<status, attempts>>
               \/ /\ status[t] = "waiting"
                  /\ status' = [status EXCEPT ![t] = "running"]
                  /\ attempts' = attempts
    BY <1>3 DEF StartInner
  <1>4. ASSUME NEW t \in Task, NEW n \in 0 .. MaxAttempts, NEW o \in Outcome,
               ProcessorCompletes(t, n, o)
        PROVE  \/ UNCHANGED <<status, attempts>>
               \/ \E c \in Completion, rc \in Final : CompletePair(t, n, c, rc)
    <2>1. InnerCompletion(o) \in Completion /\ RunnerCompletion(o) \in Final
      BY DEF InnerCompletion, RunnerCompletion, Completion, Final
    <2> QED
      BY <1>4, <2>1 DEF ProcessorCompletes, rows
  <1>5. ASSUME NEW t \in Task, NEW n \in 0 .. MaxAttempts, NEW o \in Outcome,
               CompleteJob(t, n, o)
        PROVE  \E c \in Completion, rc \in Final : CompletePair(t, n, c, rc)
    <2>1. HookCompletion(o) \in Completion /\ RunnerCompletion(o) \in Final
      BY DEF HookCompletion, RunnerCompletion, Completion, Final
    <2> QED
      BY <1>5, <2>1 DEF CompleteJob
  <1>6. ASSUME NEW t \in Task, NEW n \in 0 .. MaxAttempts,
               \/ BecomeDue(t, n) \/ ExecuteCoreTask(t, n) \/ DockerJobTaken(t, n)
               \/ DockerAccepted(t, n) \/ CatchFailure(t, n) \/ StartJob(t, n)
               \/ ProcessProgress(t, n) \/ JobLost(t, n)
        PROVE  UNCHANGED <<status, attempts>>
    BY <1>6 DEF BecomeDue, ExecuteCoreTask, DockerJobTaken, DockerAccepted,
                CatchFailure, StartJob, ProcessProgress, JobLost, rows
  <1>7. ASSUME DrainSelect \/ SetEnabled \/ Crash
        PROVE  UNCHANGED <<status, attempts>>
    BY <1>7 DEF DrainSelect, SetEnabled, Crash, rows
  <1>8. ASSUME NEW t \in Task, NEW n \in 0 .. MaxAttempts,
               ServerlessReturns(t, n) \/ DockerDispatchFails(t, n)
        PROVE  \/ UNCHANGED <<status, attempts>>
               \/ \E c \in Completion, rc \in Final : CompletePair(t, n, c, rc)
    BY <1>4, <1>8 DEF ServerlessReturns, DockerDispatchFails, Outcome
  <1> QED
    BY <1>1, <1>2, <1>3, <1>5, <1>6, <1>7, <1>8
    DEF Next, Work, ServerStep, WorkerStep

\* The rows of the app tasks implement the lifecycle their owners are promised.
THEOREM PipelineImplementsLifecycle == Spec => ImplementsLifecycle
  <1>1. Init => Lifecycle!LifecycleInit
    BY DEF Init, Lifecycle!LifecycleInit
  <1>2. ASSUME IInv, [Next]_vars
        PROVE  [Lifecycle!LifecycleNext]_<<status, attempts>>
    <2>1. ASSUME NEW t \in Root, status[t] = "absent", attempts' = attempts,
                 status' = [status EXCEPT ![t] = "waiting"]
          PROVE  Lifecycle!LifecycleNext
      BY <2>1, TaskAssumption DEF Lifecycle!LifecycleNext, Lifecycle!Create
    <2>2. ASSUME NEW t \in Task, status[t] = "waiting", attempts' = attempts,
                 status' = [status EXCEPT ![t] = "running"]
          PROVE  Lifecycle!LifecycleNext
      BY <2>2 DEF Lifecycle!LifecycleNext, Lifecycle!Start
    <2>3. ASSUME NEW t \in Task, NEW n \in 0 .. MaxAttempts,
                 NEW c \in Completion, NEW rc \in Final,
                 CompletePair(t, n, c, rc)
          PROVE  Lifecycle!LifecycleNext
      <3>1. OwnEffect(t, n, c, rc)
        BY <1>2, <2>3, CompletePairEffect
      <3>2. /\ status[t] = "running"
            /\ attempts[t] <= MaxAttempts
            /\ attempts' = [attempts EXCEPT ![t] = @ + 1]
        BY <2>3, <3>1, TaskAssumption DEF OwnEffect, CompletePair
      <3>3. Fired(t, c) \in SUBSET Lifecycle!Absent
        BY <2>3, <3>1, HandlerAssumption
        DEF CompletePair, CanComplete, HandlersOK, Fired, Lifecycle!Absent
      <3>4. status' = Lifecycle!Moved(t, CompletedStatus(t, c), Fired(t, c))
        BY <2>3 DEF CompletePair, Lifecycle!Moved
      <3>5. \/ CompletedStatus(t, c) \in {"succeeded", "failed"}
            \/ attempts[t] < MaxAttempts /\ CompletedStatus(t, c) = "waiting"
            \/ attempts[t] = MaxAttempts /\ CompletedStatus(t, c) = "running"
        BY <1>2, <3>1, TaskAssumption
        DEF OwnEffect, CompletedStatus, ShouldRequeue, Completion
      <3>6. Lifecycle!EndAttempt(t)
        BY <3>2, <3>3, <3>4, <3>5 DEF Lifecycle!EndAttempt
      <3> QED
        BY <3>6 DEF Lifecycle!LifecycleNext
    <2> QED
      BY <1>2, <2>1, <2>2, <2>3, StepEffect
  <1> QED
    BY <1>1, <1>2, SpecIInv, PTL
    DEF Spec, ImplementsLifecycle, Lifecycle!LifecycleSpec, Lifecycle!lifecycleVars

\* What a step can do to the ends of the attempts: nothing, close one running
\* runner alone, or complete one attempt.
LEMMA RunnerStepEffect ==
  ASSUME IInv, [Next]_vars
  PROVE  \/ /\ attempts' = attempts
            /\ \A u \in Task, m \in 0 .. MaxAttempts :
                 runner'[u][m] \in Final <=> runner[u][m] \in Final
         \/ \E t \in Task, n \in 0 .. MaxAttempts :
              /\ attempts' = attempts
              /\ runner[t][n] = "running"
              /\ runner' = [runner EXCEPT ![t][n] = "failed"]
         \/ \E t \in Task, n \in 0 .. MaxAttempts, c \in Completion, rc \in Final :
              CompletePair(t, n, c, rc)
  <1> DEFINE Same == /\ attempts' = attempts
                     /\ \A u \in Task, m \in 0 .. MaxAttempts :
                          runner'[u][m] \in Final <=> runner[u][m] \in Final
             Pair == \E t \in Task, n \in 0 .. MaxAttempts, c \in Completion,
                        rc \in Final : CompletePair(t, n, c, rc)
  <1>0. runner \in [Task -> [0 .. MaxAttempts -> Status]] /\ 0 \in 0 .. MaxAttempts
    BY TaskAssumption DEF IInv, TypeOK
  <1>1. CASE UNCHANGED vars
    BY <1>1 DEF vars
  <1>2. ASSUME NEW t \in Task, TriggerAppActionTask(t) PROVE Same
    <2>1. runner[t][0] = "absent"
      BY <1>2 DEF TriggerAppActionTask, IInv, AbsentIsFresh
    <2> QED
      BY <1>0, <1>2, <2>1 DEF TriggerAppActionTask, Final
  <1>3. ASSUME NEW t \in Task, NEW n \in 0 .. MaxAttempts, ExecuteCoreTask(t, n)
        PROVE  Same
    <2>1. CASE runner[t][n] # "waiting"
      BY <1>3, <2>1 DEF ExecuteCoreTask
    <2>2. CASE runner[t][n] = "waiting"
      <3>1. /\ attempts' = attempts
            /\ runner' = [runner EXCEPT ![t][n] = "running"]
        BY <1>3, <2>2 DEF ExecuteCoreTask
      <3>2. /\ runner'[t][n] = "running"
            /\ \A u \in Task, m \in 0 .. MaxAttempts :
                 ~(u = t /\ m = n) => runner'[u][m] = runner[u][m]
        BY <1>0, <3>1
      <3> QED
        BY <2>2, <3>1, <3>2 DEF Final
    <2> QED
      BY <2>1, <2>2
  <1>4. ASSUME NEW t \in Task, NEW n \in 0 .. MaxAttempts, NEW o \in Outcome,
               ProcessorCompletes(t, n, o)
        PROVE  Same \/ Pair
    <2>1. InnerCompletion(o) \in Completion /\ RunnerCompletion(o) \in Final
      BY DEF InnerCompletion, RunnerCompletion, Completion, Final
    <2> QED
      BY <1>4, <2>1 DEF ProcessorCompletes, rows
  <1>5. ASSUME NEW t \in Task, NEW n \in 0 .. MaxAttempts, NEW o \in Outcome,
               CompleteJob(t, n, o)
        PROVE  Pair
    <2>1. HookCompletion(o) \in Completion /\ RunnerCompletion(o) \in Final
      BY DEF HookCompletion, RunnerCompletion, Completion, Final
    <2> QED
      BY <1>5, <2>1 DEF CompleteJob
  <1>6. ASSUME NEW t \in Task, NEW n \in 0 .. MaxAttempts,
               \/ BecomeDue(t, n) \/ StartInner(t, n) \/ DockerJobTaken(t, n)
               \/ DockerAccepted(t, n) \/ StartJob(t, n)
               \/ ProcessProgress(t, n) \/ JobLost(t, n)
        PROVE  Same
    BY <1>6 DEF BecomeDue, StartInner, DockerJobTaken, DockerAccepted, StartJob,
                ProcessProgress, JobLost, rows
  <1>7. ASSUME DrainSelect \/ SetEnabled \/ Crash
        PROVE  Same
    BY <1>7 DEF DrainSelect, SetEnabled, Crash, rows
  <1>8. ASSUME NEW t \in Task, NEW n \in 0 .. MaxAttempts, CatchFailure(t, n)
        PROVE  \/ Same
               \/ /\ attempts' = attempts
                  /\ runner[t][n] = "running"
                  /\ runner' = [runner EXCEPT ![t][n] = "failed"]
    BY <1>8 DEF CatchFailure
  <1>9. ASSUME NEW t \in Task, NEW n \in 0 .. MaxAttempts,
               ServerlessReturns(t, n) \/ DockerDispatchFails(t, n)
        PROVE  Same \/ Pair
    BY <1>4, <1>9 DEF ServerlessReturns, DockerDispatchFails, Outcome
  <1> QED
    BY <1>1, <1>2, <1>3, <1>5, <1>6, <1>7, <1>8, <1>9
    DEF Next, Work, ServerStep, WorkerStep

\* Every attempt ends as CompletionTx shows its transactions end it: counted in
\* the step that closes its runner, or closed by the catch and never counted.
THEOREM PipelineImplementsAttemptEnd == Spec => ImplementsAttemptEnd
  <1> DEFINE inner == {r \in Runner : attempts[r[1]] > r[2]}
             closed == {r \in Runner : runner[r[1]][r[2]] \in Final}
  <1>1. Init => AttemptEnds!EndInit
    <2> SUFFICES ASSUME Init, NEW r \in Runner
                 PROVE  ~(attempts[r[1]] > r[2]) /\ runner[r[1]][r[2]] \notin Final
      BY DEF AttemptEnds!EndInit
    <2>1. r[1] \in Task /\ r[2] \in 0 .. MaxAttempts
      BY DEF Runner
    <2>2. attempts[r[1]] = 0 /\ runner[r[1]][r[2]] = "absent"
      BY <2>1 DEF Init
    <2> QED
      BY <2>1, <2>2, TaskAssumption DEF Final
  <1>2. ASSUME IInv, [Next]_vars
        PROVE  [AttemptEnds!EndNext]_AttemptEnds!endVars
    <2>0. /\ \A r \in Runner : r[1] \in Task /\ r[2] \in 0 .. MaxAttempts
          /\ attempts \in [Task -> 0 .. MaxAttempts + 1]
          /\ runner \in [Task -> [0 .. MaxAttempts -> Status]]
      BY <1>2 DEF Runner, IInv, TypeOK
    <2>1. CASE /\ attempts' = attempts
               /\ \A u \in Task, m \in 0 .. MaxAttempts :
                    runner'[u][m] \in Final <=> runner[u][m] \in Final
      <3>1. inner' = inner
        BY <2>1
      <3>2. closed' = closed
        BY <2>0, <2>1
      <3> QED
        BY <3>1, <3>2 DEF AttemptEnds!endVars
    \* The catch closes a runner whose attempt is not counted.
    <2>2. ASSUME NEW t \in Task, NEW n \in 0 .. MaxAttempts, attempts' = attempts,
                 runner[t][n] = "running",
                 runner' = [runner EXCEPT ![t][n] = "failed"]
          PROVE  AttemptEnds!EndNext
      <3>1. <<t, n>> \in Runner /\ <<t, n>> \notin closed
        BY <2>2 DEF Runner, Final
      <3>2. ~(attempts[t] > n)
        BY <1>2, <2>0, <2>2, TaskAssumption DEF IInv, RunnerWindow, Final
      <3>3. <<t, n>> \notin inner /\ inner' = inner
        BY <2>2, <3>2
      <3>4. closed' = closed \cup {<<t, n>>}
        <4>1. ASSUME NEW r \in Runner
              PROVE  runner'[r[1]][r[2]] \in Final
                       <=> runner[r[1]][r[2]] \in Final \/ r = <<t, n>>
          <5>1. r[1] \in Task /\ r[2] \in 0 .. MaxAttempts /\ r = <<r[1], r[2]>>
            BY DEF Runner
          <5>2. /\ runner'[t][n] = "failed"
                /\ \A u \in Task, m \in 0 .. MaxAttempts :
                     ~(u = t /\ m = n) => runner'[u][m] = runner[u][m]
            BY <2>0, <2>2
          <5> QED
            BY <5>1, <5>2 DEF Final
        <4> QED
          BY <3>1, <4>1
      <3>5. AttemptEnds!EndRunnerAlone(<<t, n>>)
        BY <3>1, <3>3, <3>4 DEF AttemptEnds!EndRunnerAlone
      <3> QED
        BY <3>1, <3>5 DEF AttemptEnds!EndNext
    \* A completion counts the attempt whose runner it closes.
    <2>3. ASSUME NEW t \in Task, NEW n \in 0 .. MaxAttempts,
                 NEW c \in Completion, NEW rc \in Final,
                 CompletePair(t, n, c, rc)
          PROVE  AttemptEnds!EndNext
      <3>1. /\ OwnEffect(t, n, c, rc)
            /\ \A u \in Task : u # t => OtherEffect(t, u, c)
        BY <1>2, <2>3, CompletePairEffect
      <3>2. /\ <<t, n>> \in Runner
            /\ n = attempts[t] /\ runner[t][n] = "running"
            /\ attempts'[t] = n + 1 /\ runner'[t][n] = rc
        BY <2>3, <3>1 DEF OwnEffect, Runner, CompletePair, CanComplete
      <3>3. <<t, n>> \notin inner /\ <<t, n>> \notin closed
        BY <3>2, TaskAssumption DEF Final
      <3>4. ASSUME NEW r \in Runner
            PROVE  /\ attempts'[r[1]] > r[2]
                        <=> attempts[r[1]] > r[2] \/ r = <<t, n>>
                   /\ runner'[r[1]][r[2]] \in Final
                        <=> runner[r[1]][r[2]] \in Final \/ r = <<t, n>>
        <4> DEFINE u == r[1]  m == r[2]
        <4>1. u \in Task /\ m \in 0 .. MaxAttempts /\ r = <<u, m>>
          BY DEF Runner
        <4>2. CASE u = t
          <5>1. attempts'[u] > m <=> attempts[u] > m \/ m = n
            BY <2>0, <3>2, <4>1, <4>2, TaskAssumption
          <5>2. m # n /\ runner'[u][m] # runner[u][m]
                  => m = attempts[t] + 1 /\ runner'[u][m] = "waiting"
            BY <3>1, <4>1, <4>2 DEF OwnEffect
          <5>3. m = attempts[t] + 1 => runner[u][m] = "absent"
            BY <1>2, <2>0, <4>1, <4>2, TaskAssumption DEF IInv, RunnerWindow
          <5>4. runner'[u][m] \in Final <=> runner[u][m] \in Final \/ m = n
            BY <3>2, <4>2, <5>2, <5>3 DEF Final
          <5> QED
            BY <4>1, <4>2, <5>1, <5>4
        <4>3. CASE u # t
          <5>1. OtherEffect(t, u, c)
            BY <3>1, <4>1, <4>3
          <5>2. attempts'[u] = attempts[u]
            BY <5>1 DEF OtherEffect
          <5>3. runner'[u][m] # runner[u][m]
                  => m = 0 /\ status[u] = "absent" /\ runner'[u][m] = "waiting"
            BY <4>1, <5>1 DEF OtherEffect
          <5>4. status[u] = "absent" => runner[u][0] = "absent"
            BY <1>2, <4>1 DEF IInv, AbsentIsFresh
          <5>5. runner'[u][m] \in Final <=> runner[u][m] \in Final
            BY <5>3, <5>4 DEF Final
          <5> QED
            BY <4>1, <4>3, <5>2, <5>5
        <4> QED
          BY <4>2, <4>3
      <3>5. inner' = inner \cup {<<t, n>>} /\ closed' = closed \cup {<<t, n>>}
        BY <3>2, <3>4
      <3>6. AttemptEnds!EndTogether(<<t, n>>)
        BY <3>3, <3>5 DEF AttemptEnds!EndTogether
      <3> QED
        BY <3>2, <3>6 DEF AttemptEnds!EndNext
    <2> QED
      BY <1>2, <2>1, <2>2, <2>3, RunnerStepEffect
  <1> QED
    BY <1>1, <1>2, SpecIInv, PTL
    DEF Spec, ImplementsAttemptEnd, AttemptEnds!EndSpec

\* A completion and the children it starts are one transaction.
THEOREM HandlersAreAtomic == Spec => []HandlersMatchCompletion
  <1>1. Init => HandlersMatchCompletion
    BY HandlerAssumption DEF Init, HandlersMatchCompletion, Matches, When
  <1>2. ASSUME IInv, HandlersMatchCompletion, [Next]_vars
        PROVE  HandlersMatchCompletion'
    <2> SUFFICES ASSUME NEW u \in Task, NEW h \in OnComplete[u]
                 PROVE  Matches(u, h)'
      BY DEF HandlersMatchCompletion
    <2>0. /\ Matches(u, h)
          /\ h.child \in Task /\ h.child \notin Root /\ h.when \in When
          /\ status \in [Task -> Status]
      BY <1>2, HandlerAssumption DEF HandlersMatchCompletion, IInv, TypeOK
    <2>1. CASE UNCHANGED <<status, attempts>>
      BY <2>0, <2>1 DEF Matches
    <2>2. ASSUME NEW t \in Root, status[t] = "absent", attempts' = attempts,
                 status' = [status EXCEPT ![t] = "waiting"]
          PROVE  Matches(u, h)'
      BY <2>0, <2>2, TaskAssumption DEF Matches
    <2>3. ASSUME NEW t \in Task, status[t] = "waiting", attempts' = attempts,
                 status' = [status EXCEPT ![t] = "running"]
          PROVE  Matches(u, h)'
      BY <2>0, <2>3 DEF Matches
    <2>4. ASSUME NEW t \in Task, NEW n \in 0 .. MaxAttempts,
                 NEW c \in Completion, NEW rc \in Final,
                 CompletePair(t, n, c, rc)
          PROVE  Matches(u, h)'
      <3>1. /\ OwnEffect(t, n, c, rc)
            /\ \A v \in Task : v # t => OtherEffect(t, v, c)
        BY <1>2, <2>4, CompletePairEffect
      <3>2. h.child \in Fired(t, c) =>
              /\ u = t
              /\ h.when \in {"always", IF c = "success" THEN "success" ELSE "failure"}
        BY HandlerAssumption DEF Fired
      <3>3. CASE u = t
        <4>1. attempts'[u] > 0 /\ status[u] = "running"
          BY <3>1, <3>3 DEF OwnEffect
        <4>2. status'[u] = CompletedStatus(t, c)
          BY <3>1, <3>3 DEF OwnEffect
        <4>3. h.when \in {"always", IF c = "success" THEN "success" ELSE "failure"}
                => h.child \in Fired(t, c)
          BY <3>3 DEF Fired
        <4>4. h.child \in Fired(t, c) => h.child # t /\ status'[h.child] = "waiting"
          BY <2>0, <2>4, <3>1
          DEF CompletePair, CanComplete, HandlersOK, OtherEffect
        <4>5. status[h.child] # "absent" => h.when # "success"
          BY <2>0, <4>1 DEF Matches
        <4>6. h.child \notin Fired(t, c) /\ h.child # t
                => status'[h.child] = status[h.child]
          BY <2>0, <3>1 DEF OtherEffect
        <4>7. h.child = t => h.when # "success"
          BY <3>3, <4>1, <4>5
        <4>8. c = "success" <=> CompletedStatus(t, c) = "succeeded"
          BY DEF CompletedStatus
        <4>9. CompletedStatus(t, c) = "failed" => c = "failure"
          BY DEF CompletedStatus
        <4> QED
          BY <2>0, <3>2, <4>1, <4>2, <4>3, <4>4, <4>5, <4>6, <4>7, <4>8, <4>9
          DEF Matches, When
      <3>4. CASE u # t
        <4>1. h.child \notin Fired(t, c)
          BY <3>2, <3>4
        <4>2. status[u] # "absent" => status'[u] = status[u] /\ attempts'[u] = attempts[u]
          BY <3>1, <3>4 DEF OtherEffect
        <4>3. status[u] = "absent" => attempts[u] = 0
          BY <1>2 DEF IInv, AbsentIsFresh
        <4>4. status[u] = "absent" => status'[u] \in {"absent", "waiting"}
          BY <3>1, <3>4 DEF OtherEffect
        <4>5. status[h.child] = "absent" => status'[h.child] = "absent"
          BY <2>0, <3>1, <4>1 DEF OtherEffect, OwnEffect
        <4>6. status[h.child] # "absent" => status'[h.child] # "absent"
          <5>1. CASE h.child = t
            BY <3>1, <5>1 DEF OwnEffect, CompletedStatus
          <5>2. CASE h.child # t
            BY <2>0, <3>1, <5>2 DEF OtherEffect
          <5> QED
            BY <5>1, <5>2
        <4> QED
          BY <2>0, <4>2, <4>3, <4>4, <4>5, <4>6 DEF Matches
      <3> QED
        BY <3>3, <3>4
    <2> QED
      BY <1>2, <2>1, <2>2, <2>3, <2>4, StepEffect
  <1> QED
    BY <1>1, <1>2, SpecIInv, PTL DEF Spec

-----------------------------------------------------------------------------
(* The runners are executed as SerialDrain says. *)

\* What a step other than a start may do to a runner's row: insert it, or
\* complete it if it is the one of d.
RowMoves(u, m, d) ==
  \/ RowOf(runner'[u][m]) = RowOf(runner[u][m])
  \/ runner[u][m] = "absent" /\ runner'[u][m] = "waiting"
  \/ <<u, m>> = d /\ runner[u][m] = "running" /\ runner'[u][m] \in Final

\* Such a step that goes on with the executed runner, or lets go of it, is one
\* of SerialDrain.
LEMMA MovesRefine ==
  ASSUME IInv, IInv', NEW d \in Runner \cup {None}, cur' \in {cur, None},
         \A u \in Task, m \in 0 .. MaxAttempts : RowMoves(u, m, d)
  PROVE  Executor!Transact
  <1> DEFINE R == [r \in Runner |-> RowOf(runner[r[1]][r[2]])]
  <1>0. \A r \in Runner : r[1] \in Task /\ r[2] \in 0 .. MaxAttempts /\ r = <<r[1], r[2]>>
    BY DEF Runner
  <1>1. R' \in [Runner -> Executor!Row]
    <2>1. ASSUME NEW r \in Runner PROVE RowOf(runner'[r[1]][r[2]]) \in Executor!Row
      <3>1. runner'[r[1]][r[2]] \in Status
        BY <1>0 DEF IInv, TypeOK
      <3> QED
        BY <3>1 DEF Status, RowOf, Final, Executor!Row
    <2> QED
      BY <2>1
  <1>2. ASSUME NEW r \in Runner
        PROVE  \/ R'[r] = R[r]
               \/ R[r] = "absent" /\ R'[r] = "waiting"
               \/ r = d /\ R[r] = "started" /\ R'[r] = "done"
    <2>1. RowMoves(r[1], r[2], d) /\ r = <<r[1], r[2]>>
      BY <1>0
    <2>2. R[r] = RowOf(runner[r[1]][r[2]]) /\ R'[r] = RowOf(runner'[r[1]][r[2]])
      OBVIOUS
    <2> QED
      BY <2>1, <2>2 DEF RowMoves, RowOf, Final
  <1> QED
    BY <1>1, <1>2 DEF Executor!Transact

\* The drain loop starts a runner only when it executes none.
LEMMA ExecuteRefines ==
  ASSUME IInv, NEW t \in Task, NEW n \in 0 .. MaxAttempts, ExecuteCoreTask(t, n)
  PROVE  [Executor!DrainNext]_Executor!drainVars
  <1> DEFINE R == [r \in Runner |-> RowOf(runner[r[1]][r[2]])]
  <1>1. CASE runner[t][n] # "waiting"
    BY <1>1 DEF ExecuteCoreTask, Executor!drainVars
  <1>2. CASE runner[t][n] = "waiting"
    <2>1. /\ cur = None /\ cur' = <<t, n>> /\ <<t, n>> \in Runner
          /\ runner' = [runner EXCEPT ![t][n] = "running"]
          /\ runner \in [Task -> [0 .. MaxAttempts -> Status]]
      BY <1>2 DEF ExecuteCoreTask, IInv, TypeOK, Runner
    <2>2. /\ runner'[t][n] = "running"
          /\ \A u \in Task, m \in 0 .. MaxAttempts :
               ~(u = t /\ m = n) => runner'[u][m] = runner[u][m]
      BY <2>1
    <2>3. R[<<t, n>>] = "waiting"
      BY <1>2, <2>1 DEF RowOf, Final
    <2>4. R' = [R EXCEPT ![<<t, n>>] = "started"]
      <3>1. ASSUME NEW r \in Runner
            PROVE  RowOf(runner'[r[1]][r[2]])
                     = IF r = <<t, n>> THEN "started" ELSE RowOf(runner[r[1]][r[2]])
        <4>1. r[1] \in Task /\ r[2] \in 0 .. MaxAttempts /\ r = <<r[1], r[2]>>
          BY DEF Runner
        <4>2. CASE r = <<t, n>>
          BY <2>2, <4>2 DEF RowOf
        <4>3. CASE r # <<t, n>>
          <5>1. ~(r[1] = t /\ r[2] = n)
            BY <4>1, <4>3
          <5>2. runner'[r[1]][r[2]] = runner[r[1]][r[2]]
            BY <2>2, <4>1, <5>1
          <5> QED
            BY <4>3, <5>2
        <4> QED
          BY <4>2, <4>3
      <3> QED
        BY <3>1
    <2>5. Executor!Start(<<t, n>>)
      BY <2>1, <2>3, <2>4 DEF Executor!Start
    <2> QED
      BY <2>1, <2>5 DEF Executor!DrainNext
  <1> QED
    BY <1>1, <1>2

\* A completion completes one runner, and inserts those of the requeued task
\* and of the children.
LEMMA CompletePairMoves ==
  ASSUME IInv, NEW t \in Task, NEW n \in 0 .. MaxAttempts,
         NEW c \in Completion, NEW rc \in Final, CompletePair(t, n, c, rc)
  PROVE  /\ <<t, n>> \in Runner
         /\ \A u \in Task, m \in 0 .. MaxAttempts : RowMoves(u, m, <<t, n>>)
  <1>1. /\ OwnEffect(t, n, c, rc)
        /\ \A u \in Task : u # t => OtherEffect(t, u, c)
        /\ runner[t][n] = "running"
        /\ attempts[t] \in 0 .. MaxAttempts + 1
    BY CompletePairEffect DEF CompletePair, CanComplete, IInv, TypeOK
  <1>2. ASSUME NEW u \in Task, NEW m \in 0 .. MaxAttempts
        PROVE  RowMoves(u, m, <<t, n>>)
    <2>1. CASE u = t /\ m = n
      BY <1>1, <2>1 DEF OwnEffect, RowMoves
    <2>2. CASE u = t /\ m # n
      <3>1. runner'[u][m] = runner[u][m] \/ (m = attempts[t] + 1 /\ runner'[u][m] = "waiting")
        BY <1>1, <2>2 DEF OwnEffect
      <3>2. m = attempts[t] + 1 => runner[u][m] = "absent"
        BY <1>1, <2>2, TaskAssumption DEF IInv, RunnerWindow
      <3> QED
        BY <3>1, <3>2 DEF RowMoves
    <2>3. CASE u # t
      <3>1. \/ runner'[u][m] = runner[u][m]
            \/ m = 0 /\ status[u] = "absent" /\ runner'[u][m] = "waiting"
        BY <1>1, <2>3 DEF OtherEffect
      <3>2. status[u] = "absent" => runner[u][0] = "absent"
        BY DEF IInv, AbsentIsFresh
      <3> QED
        BY <3>1, <3>2 DEF RowMoves
    <2> QED
      BY <2>1, <2>2, <2>3
  <1> QED
    BY <1>2 DEF Runner

\* The runners are executed one at a time and none twice, whatever hooks close
\* runners that the loop has selected or executes: the pipeline implements the
\* specification that CoreTaskDrain implements.
THEOREM PipelineImplementsSerialDrain == Spec => ImplementsSerialDrain
  <1>1. Init => Executor!DrainInit
    <2> SUFFICES ASSUME Init, NEW r \in Runner
                 PROVE  RowOf(runner[r[1]][r[2]]) = "absent"
      BY DEF Executor!DrainInit, Init
    <2> QED
      BY DEF Init, Runner, RowOf, Final
  <1>2. ASSUME IInv, IInv', [Next]_vars
        PROVE  [Executor!DrainNext]_Executor!drainVars
    <2>0. /\ runner \in [Task -> [0 .. MaxAttempts -> Status]]
          /\ 0 \in 0 .. MaxAttempts
      BY <1>2, TaskAssumption DEF IInv, TypeOK
    <2>1. ASSUME runner' = runner, cur' \in {cur, None}
          PROVE  Executor!DrainNext
      <3>1. \A u \in Task, m \in 0 .. MaxAttempts : RowMoves(u, m, None)
        BY <2>1 DEF RowMoves
      <3> QED
        BY <1>2, <2>1, <3>1, MovesRefine DEF Executor!DrainNext
    <2>2. ASSUME NEW t \in Task, TriggerAppActionTask(t)
          PROVE  Executor!DrainNext
      <3>1. /\ runner' = [runner EXCEPT ![t][0] = "waiting"]
            /\ runner[t][0] = "absent" /\ cur' = cur
        BY <1>2, <2>2 DEF TriggerAppActionTask, drain, IInv, AbsentIsFresh
      <3>2. /\ runner'[t][0] = "waiting"
            /\ \A u \in Task, m \in 0 .. MaxAttempts :
                 ~(u = t /\ m = 0) => runner'[u][m] = runner[u][m]
        BY <2>0, <3>1
      <3>3. \A u \in Task, m \in 0 .. MaxAttempts : RowMoves(u, m, None)
        BY <3>1, <3>2 DEF RowMoves
      <3> QED
        BY <1>2, <3>1, <3>3, MovesRefine DEF Executor!DrainNext
    <2>3. ASSUME NEW t \in Task, NEW n \in 0 .. MaxAttempts,
                 NEW c \in Completion, NEW rc \in Final,
                 CompletePair(t, n, c, rc), cur' \in {cur, None}
          PROVE  Executor!DrainNext
      BY <1>2, <2>3, CompletePairMoves, MovesRefine DEF Executor!DrainNext
    <2>4. ASSUME NEW t \in Task, NEW n \in 0 .. MaxAttempts, CatchFailure(t, n)
          PROVE  Executor!DrainNext
      <3>1. cur' = None
        BY <2>4 DEF CatchFailure, Release
      <3>2. CASE runner' = runner
        BY <2>1, <3>1, <3>2
      <3>3. CASE runner[t][n] = "running" /\ runner' = [runner EXCEPT ![t][n] = "failed"]
        <4>1. /\ runner'[t][n] = "failed"
              /\ \A u \in Task, m \in 0 .. MaxAttempts :
                   ~(u = t /\ m = n) => runner'[u][m] = runner[u][m]
          BY <2>0, <3>3
        <4>2. \A u \in Task, m \in 0 .. MaxAttempts : RowMoves(u, m, <<t, n>>)
          BY <3>3, <4>1 DEF RowMoves, Final
        <4>3. <<t, n>> \in Runner
          BY DEF Runner
        <4> QED
          BY <1>2, <3>1, <4>2, <4>3, MovesRefine DEF Executor!DrainNext
      <3> QED
        BY <2>4, <3>2, <3>3 DEF CatchFailure
    <2>5. ASSUME NEW t \in Task, NEW n \in 0 .. MaxAttempts, NEW o \in Outcome,
                 ProcessorCompletes(t, n, o)
          PROVE  Executor!DrainNext
      <3>1. InnerCompletion(o) \in Completion /\ RunnerCompletion(o) \in Final
        BY DEF InnerCompletion, RunnerCompletion, Completion, Final
      <3>2. CASE /\ CompletePair(t, n, InnerCompletion(o), RunnerCompletion(o))
                 /\ Release
        BY <2>3, <3>1, <3>2 DEF Release
      <3>3. CASE UNCHANGED <<rows, cur>>
        BY <2>1, <3>3 DEF rows
      <3> QED
        BY <2>5, <3>2, <3>3 DEF ProcessorCompletes
    <2>6. ASSUME NEW t \in Task, NEW n \in 0 .. MaxAttempts, NEW o \in Outcome,
                 CompleteJob(t, n, o)
          PROVE  Executor!DrainNext
      <3>1. HookCompletion(o) \in Completion /\ RunnerCompletion(o) \in Final
        BY DEF HookCompletion, RunnerCompletion, Completion, Final
      <3>2. CompletePair(t, n, HookCompletion(o), RunnerCompletion(o)) /\ cur' = cur
        BY <2>6 DEF CompleteJob, drain
      <3> QED
        BY <2>3, <3>1, <3>2
    <2>7. ASSUME NEW t \in Task, NEW n \in 0 .. MaxAttempts,
                 \/ BecomeDue(t, n) \/ StartInner(t, n) \/ DockerJobTaken(t, n)
                 \/ DockerAccepted(t, n) \/ StartJob(t, n)
                 \/ ProcessProgress(t, n) \/ JobLost(t, n)
          PROVE  runner' = runner /\ cur' \in {cur, None}
      BY <2>7 DEF BecomeDue, StartInner, DockerJobTaken, DockerAccepted, StartJob,
                  ProcessProgress, JobLost, rows, drain, Release
    <2>8. ASSUME DrainSelect \/ SetEnabled \/ Crash \/ UNCHANGED vars
          PROVE  runner' = runner /\ cur' \in {cur, None}
      BY <2>8 DEF DrainSelect, SetEnabled, Crash, vars, rows, drain, Release
    <2>9. ASSUME NEW t \in Task, NEW n \in 0 .. MaxAttempts,
                 ServerlessReturns(t, n) \/ DockerDispatchFails(t, n)
          PROVE  Executor!DrainNext
      BY <2>5, <2>9 DEF ServerlessReturns, DockerDispatchFails, Outcome
    <2> QED
      BY <1>2, <2>1, <2>2, <2>4, <2>6, <2>7, <2>8, <2>9, ExecuteRefines
      DEF Next, Work, ServerStep, WorkerStep
  <1> QED
    BY <1>1, <1>2, SpecIInv, PTL
    DEF Spec, ImplementsSerialDrain, Executor!DrainSpec
=============================================================================
