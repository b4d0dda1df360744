---------------------------- MODULE CoreTaskDrain ----------------------------
(***************************************************************************)
(* The drain loop of CoreTaskService.                                      *)
(*                                                                         *)
(* startDrainCoreTasks is called by a cron job every five seconds and by   *)
(* every emitted event that inserted core tasks, so several calls are in   *)
(* flight in the one server process.  Nothing in the database keeps two    *)
(* calls from starting the same row: executeCoreTask reads the row and     *)
(* then marks it started in an UPDATE without condition.  The only guard   *)
(* is the field `draining', tested and set between two awaits.             *)
(*                                                                         *)
(* Every await is a point where other calls may step.  The processors      *)
(* themselves are in TaskPipeline; here one ends well, or leaves its row   *)
(* to somebody else (a docker runner's hook), or its completion throws     *)
(* because somebody else ended the row.                                    *)
(*                                                                         *)
(* A definition under "Mutant:" is a bug put in place of the next one to   *)
(* see a property fail; it is no part of the specification.                *)
(***************************************************************************)
EXTENDS Integers, FiniteSets

CONSTANTS
  CoreTask,   \* rows owned by the core
  Caller,     \* calls of startDrainCoreTasks that may be in flight at once
  Limit,      \* MAX_CONCURRENT_CORE_TASKS
  None

ASSUME DrainAssumption ==
  /\ Limit \in Nat \ {0}
  /\ None \notin CoreTask

VARIABLES
  row,         \* of each core task: startedAt and completedAt
  due,         \* the tasks whose dontStartBefore is not in the future
  registered,  \* the tasks whose processor is registered
  draining,    \* whether the field `draining' is set
  running,     \* runningTasksCount
  pc,          \* of each call: where it is
  batch,       \* of each call: the selected rows still to execute
  task,        \* of each call: the row being executed, or None
  pending      \* of each call: whether its last count found startable rows

rows == <<row, due, registered>>
call == <<pc, batch, task, pending>>
vars == <<row, due, registered, draining, running, pc, batch, task, pending>>

\* Where a call is: not made, waiting for the database's initialisation, about
\* to select, in the loop, between the read and the start of a row, inside a
\* processor, or about to reset `draining'.
PC == {"idle", "called", "select", "loop", "start", "run", "leave"}
Inside == {"select", "loop", "start", "run", "leave"}

TypeOK ==
  /\ row \in [CoreTask -> {"absent", "waiting", "started", "done"}]
  /\ due \subseteq CoreTask
  /\ registered \subseteq CoreTask
  /\ draining \in BOOLEAN
  /\ running \in 0 .. 1
  /\ pc \in [Caller -> PC]
  /\ batch \in [Caller -> SUBSET CoreTask]
  /\ task \in [Caller -> CoreTask \cup {None}]
  /\ pending \in [Caller -> BOOLEAN]

Init ==
  /\ row = [t \in CoreTask |-> "absent"]
  /\ due = {}
  /\ registered = {}
  /\ draining = FALSE
  /\ running = 0
  /\ pc = [c \in Caller |-> "idle"]
  /\ batch = [c \in Caller |-> {}]
  /\ task = [c \in Caller |-> None]
  /\ pending = [c \in Caller |-> FALSE]

-----------------------------------------------------------------------------
(* Around the loop. *)

\* A committed transaction inserted a core task, now or to be started later.
Insert(t) ==
  /\ row[t] = "absent"
  /\ row' = [row EXCEPT ![t] = "waiting"]
  /\ due' \in {due, due \cup {t}}
  /\ UNCHANGED <<registered, draining, running, call>>

BecomeDue(t) ==
  /\ row[t] = "waiting"
  /\ t \notin due
  /\ due' = due \cup {t}
  /\ UNCHANGED <<row, registered, draining, running, call>>

\* A processor registers itself 100 ms after its construction.
RegisterProcessor(t) ==
  /\ t \notin registered
  /\ registered' = registered \cup {t}
  /\ UNCHANGED <<row, due, draining, running, call>>

\* Somebody else ends a started row: the hook of a docker worker.
EndElsewhere(t) ==
  /\ row[t] = "started"
  /\ row' = [row EXCEPT ![t] = "done"]
  /\ UNCHANGED <<due, registered, draining, running, call>>

\* startableCoreTaskWhere.  No completion of a core task asks for a requeue, so
\* its attemptCount is 0 until it is done.
Startable == {t \in due : row[t] = "waiting"}

-----------------------------------------------------------------------------
(* startDrainCoreTasks. *)

\* The cron job or an event calls, and awaits waitForInit.
StartDrain(c) ==
  /\ pc[c] = "idle"
  /\ pc' = [pc EXCEPT ![c] = "called"]
  /\ UNCHANGED <<rows, draining, running, batch, task, pending>>

\* Mutant: the field is not set before the first await.
EnterLate(c) ==
  /\ pc[c] = "called"
  /\ pc' = [pc EXCEPT ![c] = IF draining THEN "idle" ELSE "select"]
  /\ UNCHANGED <<rows, draining, running, batch, task, pending>>

\* Mutant: the test is inside the try, so that its finally resets the field.
EnterResets(c) ==
  /\ pc[c] = "called"
  /\ pc' = [pc EXCEPT ![c] = IF draining THEN "idle" ELSE "select"]
  /\ draining' = ~draining
  /\ UNCHANGED <<rows, running, batch, task, pending>>

\* The test of `draining' and, without an await, its assignment.
Enter(c) ==
  /\ pc[c] = "called"
  /\ pc' = [pc EXCEPT ![c] = IF draining THEN "idle" ELSE "select"]
  /\ draining' = TRUE
  /\ UNCHANGED <<rows, running, batch, task, pending>>

\* The rows to execute: as many as the limit leaves room for, in any order.
Select(c) ==
  /\ pc[c] = "select"
  /\ \E S \in SUBSET Startable :
        /\ Cardinality(S) <= Limit - running
        /\ S = Startable \/ Cardinality(S) = Limit - running
        /\ batch' = [batch EXCEPT ![c] = S]
  /\ pc' = [pc EXCEPT ![c] = "loop"]
  /\ UNCHANGED <<rows, draining, running, task, pending>>

\* executeCoreTask reads the row, and passes over a started one.
ReadRow(c, t) ==
  /\ pc[c] = "loop"
  /\ t \in batch[c]
  /\ batch' = [batch EXCEPT ![c] = @ \ {t}]
  /\ IF row[t] = "waiting"
     THEN /\ pc' = [pc EXCEPT ![c] = "start"]
          /\ task' = [task EXCEPT ![c] = t]
     ELSE UNCHANGED <<pc, task>>
  /\ UNCHANGED <<rows, draining, running, pending>>

\* Mutant: there is no finally, and the field stays set.
ThrowThrough(c) ==
  /\ pc' = [pc EXCEPT ![c] = "idle"]
  /\ batch' = [batch EXCEPT ![c] = {}]
  /\ task' = [task EXCEPT ![c] = None]
  /\ pending' = [pending EXCEPT ![c] = FALSE]

\* The drain throws: the rest of the batch is dropped and no count is made.
Throw(c) ==
  /\ pc' = [pc EXCEPT ![c] = "leave"]
  /\ batch' = [batch EXCEPT ![c] = {}]
  /\ task' = [task EXCEPT ![c] = None]
  /\ pending' = [pending EXCEPT ![c] = FALSE]

\* The row is marked started.  Without a processor for it the drain throws and
\* the row stays started.
StartRow(c) ==
  /\ pc[c] = "start"
  /\ row' = [row EXCEPT ![task[c]] = "started"]
  /\ IF task[c] \in registered
     THEN /\ pc' = [pc EXCEPT ![c] = "run"]
          /\ running' = running + 1
          /\ UNCHANGED <<batch, task, pending>>
     ELSE /\ Throw(c)
          /\ UNCHANGED running
  /\ UNCHANGED <<due, registered, draining>>

\* Mutant: the count is decremented only after a processor that did not throw.
ProcessorEndsLeaking(c) ==
  /\ pc[c] = "run"
  /\ \/ /\ row[task[c]] = "started"
        /\ row' \in {row, [row EXCEPT ![task[c]] = "done"]}
        /\ running' = running - 1
        /\ pc' = [pc EXCEPT ![c] = "loop"]
        /\ task' = [task EXCEPT ![c] = None]
        /\ UNCHANGED <<batch, pending>>
     \/ /\ row[task[c]] = "done"
        /\ Throw(c)
        /\ UNCHANGED <<row, running>>
  /\ UNCHANGED <<due, registered, draining>>

\* The processor is over: its row is completed here or left to somebody else,
\* or it was completed elsewhere and completing it here throws.
ProcessorEnds(c) ==
  /\ pc[c] = "run"
  /\ running' = running - 1
  /\ \/ /\ row[task[c]] = "started"
        /\ row' \in {row, [row EXCEPT ![task[c]] = "done"]}
        /\ pc' = [pc EXCEPT ![c] = "loop"]
        /\ task' = [task EXCEPT ![c] = None]
        /\ UNCHANGED <<batch, pending>>
     \/ /\ row[task[c]] = "done"
        /\ \/ Throw(c)
           \/ /\ pc' = [pc EXCEPT ![c] = "loop"]
              /\ task' = [task EXCEPT ![c] = None]
              /\ UNCHANGED <<batch, pending>>
        /\ UNCHANGED row
  /\ UNCHANGED <<due, registered, draining>>

\* The batch is done: unstartedCoreTaskCount.
CountPending(c) ==
  /\ pc[c] = "loop"
  /\ batch[c] = {}
  /\ pending' = [pending EXCEPT ![c] = Startable # {}]
  /\ pc' = [pc EXCEPT ![c] = "leave"]
  /\ UNCHANGED <<rows, draining, running, batch, task>>

\* The finally: the field is reset, and the call repeats itself if rows pend.
Leave(c) ==
  /\ pc[c] = "leave"
  /\ draining' = FALSE
  /\ pc' = [pc EXCEPT ![c] = IF pending[c] THEN "called" ELSE "idle"]
  /\ UNCHANGED <<rows, running, batch, task, pending>>

\* The server process dies and comes back.
Crash ==
  /\ draining' = FALSE
  /\ running' = 0
  /\ registered' = {}
  /\ pc' = [c \in Caller |-> "idle"]
  /\ batch' = [c \in Caller |-> {}]
  /\ task' = [c \in Caller |-> None]
  /\ pending' = [c \in Caller |-> FALSE]
  /\ UNCHANGED <<row, due>>

\* A call that was made goes on.
CallStep(c) ==
  \/ Enter(c)
  \/ Select(c)
  \/ \E t \in CoreTask : ReadRow(c, t)
  \/ StartRow(c)
  \/ ProcessorEnds(c)
  \/ CountPending(c)
  \/ Leave(c)

Work ==
  \/ \E t \in CoreTask :
        Insert(t) \/ BecomeDue(t) \/ RegisterProcessor(t) \/ EndElsewhere(t)
  \/ \E c \in Caller : StartDrain(c) \/ CallStep(c)

Next == Work \/ Crash

Spec == Init /\ [][Next]_vars

\* The server stops crashing some day.  Every await of a call ends (processors
\* return: their own waits have time limits), and the cron job keeps calling.
FairSpec ==
  /\ Spec
  /\ <>[][Work]_vars
  /\ WF_vars(\E c \in Caller : StartDrain(c))
  /\ \A c \in Caller : WF_vars(CallStep(c))

-----------------------------------------------------------------------------
(* Properties. *)

\* At most one call is past the test of `draining', and the field is set while
\* it is: the field is a lock although tests, resets and repeated calls of
\* several callers interleave at every await.
OneDrain ==
  /\ \A c, d \in Caller : pc[c] \in Inside /\ pc[d] \in Inside => c = d
  /\ draining <=> \E c \in Caller : pc[c] \in Inside

\* "Core task already started during drain (should not happen)": a selected row
\* is still waiting when it is read, and when it is marked started.
NotStartedDuringDrain ==
  \A c \in Caller :
    /\ \A t \in batch[c] : row[t] = "waiting"
    /\ pc[c] = "start" => row[task[c]] = "waiting"

\* runningTasksCount counts: it is back to zero whenever no processor runs, so
\* the limit of a drain is never used up by drains that threw.
CountMatchesRunning ==
  running = IF \E c \in Caller : pc[c] = "run" THEN 1 ELSE 0

\* The calls of startDrainCoreTasks together are the one executor that the rest
\* of the server takes them for, and that TaskPipeline models: no row is started
\* twice or while another is executed, whatever races, throws or crashes.
Current ==
  IF \E c \in Caller : pc[c] = "run"
  THEN task[CHOOSE c \in Caller : pc[c] = "run"] ELSE None

Executor == INSTANCE SerialDrain WITH cur <- Current
ImplementsSerialDrain == Executor!DrainSpec

\* A due task is started, although calls that find a drain under way are
\* dropped, also between its count and its end, and drains may throw or die with
\* the server.
DueTaskStarts ==
  \A t \in CoreTask : t \in Startable ~> row[t] # "waiting"

\* The inductive invariant.
TaskAtStart ==
  \A c \in Caller :
    /\ pc[c] \in {"start", "run"} => task[c] \in CoreTask /\ task[c] \notin batch[c]
    /\ pc[c] \in {"idle", "called", "select", "leave"} => batch[c] = {}

IInv ==
  /\ TypeOK
  /\ OneDrain
  /\ NotStartedDuringDrain
  /\ CountMatchesRunning
  /\ TaskAtStart
=============================================================================
