------------------------- MODULE CoreTaskDrainProofs -------------------------
(***************************************************************************)
(* Proofs about CoreTaskDrain, for any number of tasks and of calls.       *)
(***************************************************************************)
EXTENDS CoreTaskDrain, TLAPS

\* A server that has just started is not draining.
LEMMA InitIInv == Init => IInv
<1> SUFFICES ASSUME Init PROVE IInv
  OBVIOUS
<1>1. TypeOK
  <2>1. pending \in [Caller -> BOOLEAN] /\ draining \in BOOLEAN
    BY DEF Init
  <2>2. /\ pc \in [Caller -> PC] /\ batch \in [Caller -> SUBSET CoreTask]
        /\ task \in [Caller -> CoreTask \cup {None}]
    BY DEF Init, PC
  <2> QED
    BY <2>1, <2>2 DEF Init, TypeOK
<1>2. OneDrain
  BY DEF Init, OneDrain, Inside
<1>3. NotStartedDuringDrain /\ CountMatchesRunning /\ TaskAtStart
  BY DEF Init, NotStartedDuringDrain, CountMatchesRunning, TaskAtStart
<1> QED
  BY <1>1, <1>2, <1>3 DEF IInv

\* The steps around the loop touch only rows that no drain has selected.
LEMMA OutsideKeeps ==
  ASSUME IInv, NEW t \in CoreTask,
         Insert(t) \/ BecomeDue(t) \/ RegisterProcessor(t) \/ EndElsewhere(t)
  PROVE  IInv'
<1>1. UNCHANGED <<draining, running, pc, batch, task, pending>>
  BY DEF Insert, BecomeDue, RegisterProcessor, EndElsewhere, call
<1>2. /\ row' \in [CoreTask -> {"absent", "waiting", "started", "done"}]
      /\ \A u \in CoreTask : row[u] = "waiting" => row'[u] = "waiting"
  BY DEF Insert, BecomeDue, RegisterProcessor, EndElsewhere, IInv, TypeOK
<1>3. due' \subseteq CoreTask /\ registered' \subseteq CoreTask
  BY DEF Insert, BecomeDue, RegisterProcessor, EndElsewhere, IInv, TypeOK
<1>4. TypeOK'
  BY <1>1, <1>2, <1>3 DEF IInv, TypeOK
<1>5. NotStartedDuringDrain'
  BY <1>1, <1>2 DEF IInv, TypeOK, NotStartedDuringDrain, TaskAtStart
<1> QED
  BY <1>1, <1>4, <1>5 DEF IInv, OneDrain, CountMatchesRunning, TaskAtStart

\* The test of `draining' lets in a call only when none is inside.
LEMMA EnterKeeps ==
  ASSUME IInv, NEW c \in Caller, StartDrain(c) \/ Enter(c)
  PROVE  IInv'
<1>1. /\ UNCHANGED <<row, due, registered, running, batch, task, pending>>
      /\ \/ /\ pc[c] = "idle" /\ pc' = [pc EXCEPT ![c] = "called"]
            /\ draining' = draining
         \/ /\ pc[c] = "called" /\ pc' = [pc EXCEPT ![c] = "idle"]
            /\ draining /\ draining'
         \/ /\ pc[c] = "called" /\ pc' = [pc EXCEPT ![c] = "select"]
            /\ ~draining /\ draining'
  BY DEF StartDrain, Enter, rows
<1>2. TypeOK'
  <2>1. pc' \in [Caller -> PC]
    BY <1>1 DEF IInv, TypeOK, PC
  <2>2. draining' \in BOOLEAN
    BY <1>1 DEF IInv, TypeOK
  <2> QED
    BY <1>1, <2>1, <2>2 DEF IInv, TypeOK
<1>3. OneDrain'
  BY <1>1 DEF IInv, TypeOK, OneDrain, Inside
<1>4. NotStartedDuringDrain' /\ TaskAtStart'
  BY <1>1 DEF IInv, TypeOK, NotStartedDuringDrain, TaskAtStart
<1>5. CountMatchesRunning'
  BY <1>1 DEF IInv, TypeOK, CountMatchesRunning
<1> QED
  BY <1>2, <1>3, <1>4, <1>5 DEF IInv

\* The selected rows are waiting.
LEMMA SelectKeeps ==
  ASSUME IInv, NEW c \in Caller, Select(c)
  PROVE  IInv'
<1>1. PICK S \in SUBSET Startable : batch' = [batch EXCEPT ![c] = S]
  BY DEF Select
<1>2. /\ UNCHANGED <<row, due, registered, draining, running, task, pending>>
      /\ pc[c] = "select" /\ pc' = [pc EXCEPT ![c] = "loop"]
  BY DEF Select, rows
<1>3. S \subseteq CoreTask /\ \A t \in S : row[t] = "waiting"
  BY <1>1 DEF Startable, IInv, TypeOK
<1>4. TypeOK'
  BY <1>1, <1>2, <1>3 DEF IInv, TypeOK, PC
<1>5. OneDrain'
  BY <1>2 DEF IInv, TypeOK, OneDrain, Inside
<1>6. NotStartedDuringDrain' /\ TaskAtStart'
  BY <1>1, <1>2, <1>3 DEF IInv, TypeOK, NotStartedDuringDrain, TaskAtStart
<1>7. CountMatchesRunning'
  BY <1>2 DEF IInv, TypeOK, CountMatchesRunning
<1> QED
  BY <1>4, <1>5, <1>6, <1>7 DEF IInv

\* The row that is read leaves the batch.
LEMMA ReadRowKeeps ==
  ASSUME IInv, NEW c \in Caller, NEW t \in CoreTask, ReadRow(c, t)
  PROVE  IInv'
<1>1. /\ UNCHANGED <<row, due, registered, draining, running, pending>>
      /\ pc[c] = "loop" /\ pc' = [pc EXCEPT ![c] = "start"]
      /\ row[t] = "waiting"
      /\ task' = [task EXCEPT ![c] = t]
      /\ batch' = [batch EXCEPT ![c] = batch[c] \ {t}]
  BY DEF ReadRow, rows, IInv, NotStartedDuringDrain
<1>2. TypeOK'
  BY <1>1 DEF IInv, TypeOK, PC
<1>3. OneDrain'
  BY <1>1 DEF IInv, TypeOK, OneDrain, Inside
<1>4. NotStartedDuringDrain'
  BY <1>1 DEF IInv, TypeOK, NotStartedDuringDrain
<1>5. TaskAtStart'
  BY <1>1 DEF IInv, TypeOK, TaskAtStart
<1>6. CountMatchesRunning'
  BY <1>1 DEF IInv, TypeOK, CountMatchesRunning
<1> QED
  BY <1>2, <1>3, <1>4, <1>5, <1>6 DEF IInv

\* The other calls have nothing selected while c is inside.
LEMMA OthersEmpty ==
  ASSUME IInv, NEW c \in Caller, pc[c] \in Inside, NEW d \in Caller, d # c
  PROVE  pc[d] \in {"idle", "called"} /\ batch[d] = {}
  BY DEF IInv, OneDrain, TaskAtStart, TypeOK, PC, Inside

\* What a drain that throws leaves behind.
LEMMA ThrowEffect ==
  ASSUME TypeOK, NEW c \in Caller, Throw(c)
  PROVE  /\ pc' = [pc EXCEPT ![c] = "leave"] /\ pc' \in [Caller -> PC]
         /\ batch' = [batch EXCEPT ![c] = {}]
         /\ batch' \in [Caller -> SUBSET CoreTask]
         /\ task' \in [Caller -> CoreTask \cup {None}]
         /\ \A d \in Caller : d # c => task'[d] = task[d]
         /\ pending' \in [Caller -> BOOLEAN]
<1>1. pending' \in [Caller -> BOOLEAN]
  BY DEF TypeOK, Throw
<1> QED
  BY <1>1 DEF TypeOK, Throw, PC

\* The row that is started is in nobody's batch.
LEMMA StartRowKeeps ==
  ASSUME IInv, NEW c \in Caller, StartRow(c)
  PROVE  IInv'
<1>1. /\ pc[c] = "start" /\ task[c] \in CoreTask /\ task[c] \notin batch[c]
      /\ row' = [row EXCEPT ![task[c]] = "started"]
      /\ UNCHANGED <<due, registered, draining>>
  BY DEF StartRow, IInv, TaskAtStart
<1>2. row' \in [CoreTask -> {"absent", "waiting", "started", "done"}]
  BY <1>1 DEF IInv, TypeOK
<1>3. \A d \in Caller : d # c => pc[d] \in {"idle", "called"} /\ batch[d] = {}
  BY <1>1, OthersEmpty DEF Inside
<1>4. running = 0
  BY <1>1, <1>3 DEF IInv, CountMatchesRunning
<1>5. CASE task[c] \in registered
  <2>1. /\ pc' = [pc EXCEPT ![c] = "run"] /\ running' = 1
        /\ UNCHANGED <<batch, task, pending>>
    BY <1>4, <1>5 DEF StartRow
  <2>2. TypeOK'
    BY <1>1, <1>2, <2>1 DEF IInv, TypeOK, PC
  <2>3. OneDrain'
    BY <1>1, <2>1 DEF IInv, TypeOK, OneDrain, Inside
  <2>4. NotStartedDuringDrain' /\ TaskAtStart'
    BY <1>1, <1>3, <2>1 DEF IInv, TypeOK, NotStartedDuringDrain, TaskAtStart
  <2>5. CountMatchesRunning'
    BY <2>1 DEF IInv, TypeOK, CountMatchesRunning
  <2> QED
    BY <2>2, <2>3, <2>4, <2>5 DEF IInv
<1>6. CASE task[c] \notin registered
  <2>0. Throw(c) /\ running' = 0
    BY <1>4, <1>6 DEF StartRow
  <2>1. /\ pc' = [pc EXCEPT ![c] = "leave"] /\ pc' \in [Caller -> PC]
        /\ batch' = [batch EXCEPT ![c] = {}]
        /\ batch' \in [Caller -> SUBSET CoreTask]
        /\ task' \in [Caller -> CoreTask \cup {None}]
        /\ \A d \in Caller : d # c => task'[d] = task[d]
        /\ pending' \in [Caller -> BOOLEAN]
    BY <2>0, ThrowEffect DEF IInv
  <2>2. TypeOK'
    BY <1>1, <1>2, <2>0, <2>1 DEF IInv, TypeOK
  <2>3. OneDrain'
    BY <1>1, <2>1 DEF IInv, TypeOK, OneDrain, Inside
  <2>4. NotStartedDuringDrain' /\ TaskAtStart'
    BY <1>1, <1>3, <2>1 DEF IInv, TypeOK, NotStartedDuringDrain, TaskAtStart
  <2>5. CountMatchesRunning'
    BY <1>3, <2>0, <2>1 DEF IInv, TypeOK, CountMatchesRunning
  <2> QED
    BY <2>2, <2>3, <2>4, <2>5 DEF IInv
<1> QED
  BY <1>5, <1>6

\* However a processor ends, the count goes back.
LEMMA ProcessorEndsKeeps ==
  ASSUME IInv, NEW c \in Caller, ProcessorEnds(c)
  PROVE  IInv'
<1>1. /\ pc[c] = "run" /\ task[c] \in CoreTask /\ task[c] \notin batch[c]
      /\ UNCHANGED <<due, registered, draining>>
      /\ row[task[c]] \in {"started", "done"}
  BY DEF ProcessorEnds, IInv, TaskAtStart
<1>2. /\ row' \in [CoreTask -> {"absent", "waiting", "started", "done"}]
      /\ \A t \in CoreTask : t # task[c] => row'[t] = row[t]
  BY <1>1 DEF ProcessorEnds, IInv, TypeOK
<1>3. \A d \in Caller : d # c => pc[d] \in {"idle", "called"} /\ batch[d] = {}
  BY <1>1, OthersEmpty DEF Inside
<1>4. running = 1 /\ running' = 0
  BY <1>1 DEF IInv, CountMatchesRunning, ProcessorEnds
<1>5. CASE Throw(c)
  <2>1. /\ pc' = [pc EXCEPT ![c] = "leave"] /\ pc' \in [Caller -> PC]
        /\ batch' = [batch EXCEPT ![c] = {}]
        /\ batch' \in [Caller -> SUBSET CoreTask]
        /\ task' \in [Caller -> CoreTask \cup {None}]
        /\ \A d \in Caller : d # c => task'[d] = task[d]
        /\ pending' \in [Caller -> BOOLEAN]
    BY <1>5, ThrowEffect DEF IInv
  <2>2. TypeOK'
    BY <1>1, <1>2, <1>4, <2>1 DEF IInv, TypeOK
  <2>3. OneDrain'
    BY <1>1, <2>1 DEF IInv, TypeOK, OneDrain, Inside
  <2>4. NotStartedDuringDrain' /\ TaskAtStart'
    BY <1>1, <1>2, <1>3, <2>1 DEF IInv, TypeOK, NotStartedDuringDrain, TaskAtStart
  <2>5. CountMatchesRunning'
    BY <1>3, <1>4, <2>1 DEF IInv, TypeOK, CountMatchesRunning
  <2> QED
    BY <2>2, <2>3, <2>4, <2>5 DEF IInv
<1>6. CASE ~Throw(c)
  <2>1. /\ pc' = [pc EXCEPT ![c] = "loop"]
        /\ task' = [task EXCEPT ![c] = None]
        /\ UNCHANGED <<batch, pending>>
    BY <1>6 DEF ProcessorEnds
  <2>2. TypeOK'
    BY <1>1, <1>2, <1>4, <2>1 DEF IInv, TypeOK, PC
  <2>3. OneDrain'
    BY <1>1, <2>1 DEF IInv, TypeOK, OneDrain, Inside
  <2>4. NotStartedDuringDrain' /\ TaskAtStart'
    BY <1>1, <1>2, <1>3, <2>1 DEF IInv, TypeOK, NotStartedDuringDrain, TaskAtStart
  <2>5. CountMatchesRunning'
    BY <1>3, <1>4, <2>1 DEF IInv, TypeOK, CountMatchesRunning
  <2> QED
    BY <2>2, <2>3, <2>4, <2>5 DEF IInv
<1> QED
  BY <1>5, <1>6

\* The finally lets the next call in.
LEMMA LeaveKeeps ==
  ASSUME IInv, NEW c \in Caller, CountPending(c) \/ Leave(c)
  PROVE  IInv'
<1>1. /\ UNCHANGED <<row, due, registered, running, batch, task>>
      /\ pending' \in [Caller -> BOOLEAN]
      /\ batch[c] = {}
      /\ \/ /\ pc[c] = "loop" /\ pc' = [pc EXCEPT ![c] = "leave"]
            /\ draining' = draining
         \/ /\ pc[c] = "leave" /\ pc' = [pc EXCEPT ![c] = "called"]
            /\ draining' = FALSE
         \/ /\ pc[c] = "leave" /\ pc' = [pc EXCEPT ![c] = "idle"]
            /\ draining' = FALSE
  BY DEF CountPending, Leave, rows, IInv, TypeOK, TaskAtStart
<1>2. TypeOK'
  <2>1. pc' \in [Caller -> PC] /\ draining' \in BOOLEAN
    BY <1>1 DEF IInv, TypeOK, PC
  <2> QED
    BY <1>1, <2>1 DEF IInv, TypeOK
<1>3. OneDrain'
  BY <1>1 DEF IInv, TypeOK, OneDrain, Inside
<1>4. NotStartedDuringDrain' /\ TaskAtStart'
  BY <1>1 DEF IInv, TypeOK, NotStartedDuringDrain, TaskAtStart
<1>5. CountMatchesRunning'
  BY <1>1 DEF IInv, TypeOK, CountMatchesRunning
<1> QED
  BY <1>2, <1>3, <1>4, <1>5 DEF IInv

\* A crash forgets the calls, the field and the count together.
LEMMA CrashKeeps ==
  ASSUME IInv, Crash
  PROVE  IInv'
<1>1. TypeOK'
  <2>1. pending' \in [Caller -> BOOLEAN] /\ draining' \in BOOLEAN
    BY DEF Crash
  <2>2. /\ pc' \in [Caller -> PC] /\ batch' \in [Caller -> SUBSET CoreTask]
        /\ task' \in [Caller -> CoreTask \cup {None}]
    BY DEF Crash, PC
  <2> QED
    BY <2>1, <2>2 DEF Crash, IInv, TypeOK
<1>2. OneDrain'
  BY DEF Crash, OneDrain, Inside
<1>3. NotStartedDuringDrain' /\ CountMatchesRunning' /\ TaskAtStart'
  BY DEF Crash, NotStartedDuringDrain, CountMatchesRunning, TaskAtStart
<1> QED
  BY <1>1, <1>2, <1>3 DEF IInv

\* Every step of the drain and around it keeps IInv.
LEMMA NextKeepsIInv == IInv /\ [Next]_vars => IInv'
<1> SUFFICES ASSUME IInv, [Next]_vars PROVE IInv'
  OBVIOUS
<1>1. CASE UNCHANGED vars
  BY <1>1
  DEF vars, IInv, TypeOK, OneDrain, NotStartedDuringDrain, CountMatchesRunning,
      TaskAtStart
<1>2. CASE Next
  BY <1>2, OutsideKeeps, EnterKeeps, SelectKeeps, ReadRowKeeps, StartRowKeeps,
     ProcessorEndsKeeps, LeaveKeeps, CrashKeeps
  DEF Next, Work, CallStep
<1> QED
  BY <1>1, <1>2

\* IInv holds in every state of the drain loop.
THEOREM SpecIInv == Spec => []IInv
  BY InitIInv, NextKeepsIInv, PTL DEF Spec

\* The field `draining' is a lock: whatever the number of calls of
\* startDrainCoreTasks in flight, one of them drains.
THEOREM DrainIsExclusive == Spec => []OneDrain
<1>1. IInv => OneDrain
  BY DEF IInv
<1> QED
  BY <1>1, SpecIInv, PTL

\* What executeCoreTask warns of, "should not happen", does not happen: a row
\* is waiting when the drain that selected it reads it and starts it.
THEOREM NoRowStartedTwice == Spec => []NotStartedDuringDrain
<1>1. IInv => NotStartedDuringDrain
  BY DEF IInv
<1> QED
  BY <1>1, SpecIInv, PTL

\* runningTasksCount is exact, so that drains that throw do not use up
\* MAX_CONCURRENT_CORE_TASKS.
THEOREM CapacityIsNotLeaked == Spec => []CountMatchesRunning
<1>1. IInv => CountMatchesRunning
  BY DEF IInv
<1> QED
  BY <1>1, SpecIInv, PTL

-----------------------------------------------------------------------------
(* The calls together implement SerialDrain. *)

\* The one call that runs a processor is the one that is chosen.
LEMMA ChosenCall ==
  ASSUME NEW p, NEW c \in Caller, \A d \in Caller : p[d] = "run" <=> d = c
  PROVE  (CHOOSE d \in Caller : p[d] = "run") = c
  OBVIOUS

\* The row that is executed is the one of the call that runs a processor.
LEMMA CurrentLemma ==
  ASSUME IInv
  PROVE  /\ \A c \in Caller : pc[c] = "run" => Current = task[c]
         /\ (\A c \in Caller : pc[c] # "run") => Current = None
<1>1. ASSUME NEW c \in Caller, pc[c] = "run" PROVE Current = task[c]
  <2>1. \A d \in Caller : pc[d] = "run" <=> d = c
    BY <1>1 DEF IInv, OneDrain, Inside
  <2>2. (CHOOSE d \in Caller : pc[d] = "run") = c
    BY <2>1, ChosenCall
  <2> QED
    BY <1>1, <2>2 DEF Current
<1> QED
  BY <1>1 DEF Current

\* A step that starts and ends no processor leaves the executed row as it is.
LEMMA SameCurrent ==
  ASSUME IInv,
         \A d \in Caller : pc'[d] = "run" <=> pc[d] = "run",
         \A d \in Caller : pc[d] = "run" => task'[d] = task[d]
  PROVE  Current' = Current
<1>1. CASE \A c \in Caller : pc[c] # "run"
  BY <1>1 DEF Current
<1>2. ASSUME NEW c \in Caller, pc[c] = "run" PROVE Current' = Current
  <2>1. \A d \in Caller : pc[d] = "run" <=> d = c
    BY <1>2 DEF IInv, OneDrain, Inside
  <2>2. (CHOOSE d \in Caller : pc[d] = "run") = c
    BY <2>1, ChosenCall
  <2>3. \A d \in Caller : pc'[d] = "run" <=> d = c
    BY <2>1
  <2>4. (CHOOSE d \in Caller : pc'[d] = "run") = c
    BY <2>3, ChosenCall
  <2> QED
    BY <1>2, <2>2, <2>4 DEF Current
<1> QED
  BY <1>1, <1>2

\* Rows are inserted, and ended elsewhere, beside the loop.
LEMMA OutsideRefines ==
  ASSUME IInv, NEW t \in CoreTask,
         Insert(t) \/ BecomeDue(t) \/ RegisterProcessor(t) \/ EndElsewhere(t)
  PROVE  Executor!Transact
<1>1. Current' = Current
  BY DEF Insert, BecomeDue, RegisterProcessor, EndElsewhere, call, Current
<1>2. row' \in [CoreTask -> Executor!Row]
  BY DEF Insert, BecomeDue, RegisterProcessor, EndElsewhere, IInv, TypeOK, Executor!Row
<1>3. \A u \in CoreTask :
        \/ row'[u] = row[u]
        \/ row[u] = "absent" /\ row'[u] = "waiting"
        \/ u = t /\ row[u] = "started" /\ row'[u] = "done"
  BY DEF Insert, BecomeDue, RegisterProcessor, EndElsewhere, IInv, TypeOK
<1> QED
  BY <1>1, <1>2, <1>3 DEF Executor!Transact

\* Outside its processors the loop executes nothing.
LEMMA LoopRefines ==
  ASSUME IInv, NEW c \in Caller,
         \/ StartDrain(c) \/ Enter(c) \/ Select(c) \/ CountPending(c) \/ Leave(c)
         \/ \E t \in CoreTask : ReadRow(c, t)
  PROVE  row' = row /\ Current' = Current
<1>1. /\ row' = row
      /\ pc[c] # "run"
      /\ \A d \in Caller : /\ d # c => pc'[d] = pc[d] /\ task'[d] = task[d]
                           /\ pc'[c] # "run"
  BY DEF StartDrain, Enter, Select, CountPending, Leave, ReadRow, rows, IInv, TypeOK
<1> QED
  BY <1>1, SameCurrent

\* A row is started while no other one is executed.
LEMMA StartRowRefines ==
  ASSUME IInv, NEW c \in Caller, StartRow(c)
  PROVE  \E t \in CoreTask : Executor!Start(t)
<1>1. /\ pc[c] = "start" /\ task[c] \in CoreTask
      /\ row[task[c]] = "waiting"
      /\ row' = [row EXCEPT ![task[c]] = "started"]
  BY DEF StartRow, IInv, TaskAtStart, NotStartedDuringDrain
<1>2. \A d \in Caller : d # c => pc[d] \in {"idle", "called"}
  BY <1>1, OthersEmpty DEF Inside
<1>3. Current = None
  BY <1>1, <1>2, CurrentLemma
<1>4. Current' \in {task[c], None}
  <2>1. CASE task[c] \in registered
    <3>1. pc' = [pc EXCEPT ![c] = "run"] /\ task' = task
      BY <2>1 DEF StartRow
    <3>2. \A d \in Caller : pc'[d] = "run" <=> d = c
      BY <1>2, <3>1 DEF IInv, TypeOK
    <3>3. (CHOOSE d \in Caller : pc'[d] = "run") = c
      BY <3>2, ChosenCall
    <3> QED
      BY <3>1, <3>2, <3>3 DEF Current
  <2>2. CASE task[c] \notin registered
    <3>1. \A d \in Caller : pc'[d] # "run"
      BY <1>2, <2>2 DEF StartRow, Throw, IInv, TypeOK
    <3> QED
      BY <3>1 DEF Current
  <2> QED
    BY <2>1, <2>2
<1> QED
  BY <1>1, <1>3, <1>4 DEF Executor!Start

\* However a processor ends, nothing is executed after it.
LEMMA ProcessorEndsRefines ==
  ASSUME IInv, NEW c \in Caller, ProcessorEnds(c)
  PROVE  Executor!Transact
<1>1. pc[c] = "run" /\ task[c] \in CoreTask
  BY DEF ProcessorEnds, IInv, TaskAtStart
<1>2. \A d \in Caller : d # c => pc[d] \in {"idle", "called"}
  BY <1>1, OthersEmpty DEF Inside
<1>3. \A d \in Caller : pc'[d] # "run"
  BY <1>2 DEF ProcessorEnds, Throw, IInv, TypeOK
<1>4. Current' = None
  BY <1>3 DEF Current
<1>5. row' \in [CoreTask -> Executor!Row]
  BY <1>1 DEF ProcessorEnds, IInv, TypeOK, Executor!Row
<1>6. \A u \in CoreTask :
        \/ row'[u] = row[u]
        \/ u = task[c] /\ row[u] = "started" /\ row'[u] = "done"
  BY <1>1 DEF ProcessorEnds, IInv, TypeOK
<1> QED
  BY <1>1, <1>4, <1>5, <1>6 DEF Executor!Transact

\* A crash ends the execution and leaves the rows.
LEMMA CrashRefines ==
  ASSUME IInv, Crash
  PROVE  Executor!Transact
<1>1. Current' = None
  BY DEF Crash, Current
<1>2. row' = row /\ row \in [CoreTask -> Executor!Row]
  BY DEF Crash, IInv, TypeOK, Executor!Row
<1> QED
  BY <1>1, <1>2 DEF Executor!Transact

\* However many calls of startDrainCoreTasks are in flight, and whatever throws
\* or crashes, together they are one executor that starts every row once and
\* one at a time.
THEOREM DrainImplementsSerialDrain == Spec => ImplementsSerialDrain
<1>1. Init => Executor!DrainInit
  BY DEF Init, Current, Executor!DrainInit
<1>2. ASSUME IInv, [Next]_vars
      PROVE  [Executor!DrainNext]_Executor!drainVars
  <2>1. CASE UNCHANGED vars
    BY <2>1 DEF vars, Current, Executor!drainVars
  <2>2. ASSUME NEW t \in CoreTask,
               Insert(t) \/ BecomeDue(t) \/ RegisterProcessor(t) \/ EndElsewhere(t)
        PROVE  Executor!DrainNext
    BY <1>2, <2>2, OutsideRefines DEF Executor!DrainNext
  <2>3. ASSUME NEW c \in Caller, StartRow(c) PROVE Executor!DrainNext
    BY <1>2, <2>3, StartRowRefines DEF Executor!DrainNext
  <2>4. ASSUME NEW c \in Caller, ProcessorEnds(c) PROVE Executor!DrainNext
    BY <1>2, <2>4, ProcessorEndsRefines DEF Executor!DrainNext
  <2>5. ASSUME NEW c \in Caller,
               \/ StartDrain(c) \/ Enter(c) \/ Select(c) \/ CountPending(c) \/ Leave(c)
               \/ \E t \in CoreTask : ReadRow(c, t)
        PROVE  UNCHANGED Executor!drainVars
    BY <1>2, <2>5, LoopRefines DEF Executor!drainVars
  <2>6. CASE Crash
    BY <1>2, <2>6, CrashRefines DEF Executor!DrainNext
  <2> QED
    BY <1>2, <2>1, <2>2, <2>3, <2>4, <2>5, <2>6 DEF Next, Work, CallStep
<1> QED
  BY <1>1, <1>2, SpecIInv, PTL
  DEF Spec, ImplementsSerialDrain, Executor!DrainSpec
=============================================================================
