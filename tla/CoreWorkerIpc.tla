---------------------------- MODULE CoreWorkerIpc ----------------------------
(***************************************************************************)
(* The server's CoreWorkerService and the core worker process it spawns.   *)
(*                                                                         *)
(* startCoreWorkerThread creates a socket, spawns a child, and leaves a    *)
(* boot sequence running in the background: wait for the connection, send  *)
(* init, read the app hashes from the database, send them, set the ready   *)
(* flag.  A child that exits with a code other than 0 is started again a   *)
(* second later.  Starts are numbered, and `child', `ready' and `ipc' are  *)
(* fields of the one service object: the boot sequence of one start reads  *)
(* and writes them although a later start may own them by then.            *)
(*                                                                         *)
(* Requests carry an id and wait for the answer or for their timer.  The   *)
(* child asks the server in turn (get_worker_exec_config) before it works  *)
(* on a request.  What is written to a process that is gone is lost.       *)
(*                                                                         *)
(* A definition under "Mutant:" is a bug put in place of the next one to   *)
(* see a property fail; it is no part of the specification.                *)
(***************************************************************************)
EXTENDS Integers

CONSTANTS
  Req,        \* calls of the server into the worker
  NeedsInit,  \* the calls that need what init builds (not analyze_object)
  MaxStarts   \* bound: how often the worker is started

ASSUME IpcAssumption ==
  /\ NeedsInit \subseteq Req
  /\ MaxStarts \in Nat \ {0}

Gen == 1 .. MaxStarts

VARIABLES
  starts,   \* how many starts there have been
  child,    \* this.child: the start whose process it is, 0 if undefined
  ready,    \* serverlessWorkerThreadReady
  readyBy,  \* history: the start whose boot sequence set `ready' last, or 0 if
            \* its process was known to be gone by then
  ipc,      \* this.ipcSocket: the start whose connection it is, 0 if undefined
  retry,    \* whether the timer that starts the worker again is set
  boot,     \* of each start: where its boot sequence is
  target,   \* of each start: the connection its hash mapping was sent on
  proc,     \* of each start: its process
  code,     \* of each start: the exit code, 1 for any code but 0
  seen,     \* of each start: whether the `exited' handler has run
  kill,     \* of each start: whether the process was sent SIGTERM
  sock,     \* of each start: its connection, as the server sees it
  inited,   \* of each start: whether the process has handled init
  call,     \* of each call: its outcome so far
  dest,     \* of each call: the connection it was written to
  work,     \* of each call: where the request is in the child
  result,   \* of each call: whether the child's answer reports success
  ask       \* of each call: the child's own question to the server

service == <<starts, child, ready, readyBy, ipc, retry, boot, target>>
process == <<proc, code, seen, kill, sock, inited>>
request == <<call, dest, work, result, ask>>
vars == <<starts, child, ready, readyBy, ipc, retry, boot, target, proc, code,
          seen, kill, sock, inited, call, dest, work, result, ask>>

TypeOK ==
  /\ starts \in 0 .. MaxStarts
  /\ child \in 0 .. MaxStarts
  /\ ready \in BOOLEAN
  /\ readyBy \in 0 .. MaxStarts
  /\ ipc \in 0 .. MaxStarts
  /\ retry \in BOOLEAN
  /\ boot \in [Gen -> {"none", "listen", "connect", "init", "mapping", "update",
                       "done", "failed", "unspawned"}]
  /\ target \in [Gen -> 0 .. MaxStarts]
  /\ proc \in [Gen -> {"none", "loading", "running", "exited"}]
  /\ code \in [Gen -> 0 .. 1]
  /\ seen \in [Gen -> BOOLEAN]
  /\ kill \in [Gen -> BOOLEAN]
  /\ sock \in [Gen -> {"none", "open", "closed"}]
  /\ inited \in [Gen -> BOOLEAN]
  /\ call \in [Req -> {"idle", "pending", "notready", "refused", "ok", "error",
                       "timeout"}]
  /\ dest \in [Req -> 0 .. MaxStarts]
  /\ work \in [Req -> {"none", "sent", "asking", "answered"}]
  /\ result \in [Req -> BOOLEAN]
  /\ ask \in [Req -> {"none", "sent", "replied"}]

Init ==
  /\ starts = 0 /\ child = 0 /\ ready = FALSE /\ readyBy = 0 /\ ipc = 0
  /\ retry = TRUE
  /\ boot = [g \in Gen |-> "none"]
  /\ target = [g \in Gen |-> 0]
  /\ proc = [g \in Gen |-> "none"]
  /\ code = [g \in Gen |-> 0]
  /\ seen = [g \in Gen |-> FALSE]
  /\ kill = [g \in Gen |-> FALSE]
  /\ sock = [g \in Gen |-> "none"]
  /\ inited = [g \in Gen |-> FALSE]
  /\ call = [r \in Req |-> "idle"]
  /\ dest = [r \in Req |-> 0]
  /\ work = [r \in Req |-> "none"]
  /\ result = [r \in Req |-> FALSE]
  /\ ask = [r \in Req |-> "none"]

Alive(g) == proc[g] \in {"loading", "running"}
IsReady == child # 0 /\ ready

-----------------------------------------------------------------------------
(* Starting the worker. *)

\* Mutant: startCoreWorkerThread returns early when there has been a child.
StartOnce ==
  /\ retry
  /\ child = 0
  /\ starts < MaxStarts
  /\ retry' = FALSE
  /\ starts' = starts + 1
  /\ ready' = FALSE
  /\ boot' = [boot EXCEPT ![starts + 1] = "listen"]
  /\ UNCHANGED <<child, readyBy, ipc, target, process, request>>

\* The module's initialisation or the retry timer calls startCoreWorkerThread,
\* up to the await of createSocketServer.  By then the server has seen the old
\* connection close: the kernel closed it when the process died, a second ago.
Start ==
  /\ retry
  /\ starts < MaxStarts
  /\ starts # 0 => sock[starts] # "open"
  /\ retry' = FALSE
  /\ starts' = starts + 1
  /\ ready' = FALSE
  /\ boot' = [boot EXCEPT ![starts + 1] = "listen"]
  /\ UNCHANGED <<child, readyBy, ipc, target, process, request>>

\* The socket listens: the child is spawned, its exit is observed, and the boot
\* sequence waits for the connection.
Spawn(g) ==
  /\ boot[g] = "listen"
  /\ boot' = [boot EXCEPT ![g] = "connect"]
  /\ child' = g
  /\ proc' = [proc EXCEPT ![g] = "loading"]
  /\ UNCHANGED <<starts, ready, readyBy, ipc, retry, target, code, seen, kill, sock,
                 inited, request>>

\* On a retry nobody catches what createSocketServer or Bun.spawn throws: there
\* is no child to observe, and nothing tries again.  (At the first start the
\* server's own initialisation fails with it.)
SpawnFails(g) ==
  /\ g # 1
  /\ boot[g] = "listen"
  /\ boot' = [boot EXCEPT ![g] = "unspawned"]
  /\ UNCHANGED <<starts, child, ready, readyBy, ipc, retry, target, process, request>>

\* The child installs its signal handlers and runs.
Load(g) ==
  /\ proc[g] = "loading"
  /\ proc' = [proc EXCEPT ![g] = "running"]
  /\ UNCHANGED <<service, code, seen, kill, sock, inited, request>>

\* The child's connection arrives.  A boot sequence that still waits for it goes
\* on and writes the init request.
Accept(g) ==
  /\ proc[g] = "running"
  /\ sock[g] = "none"
  /\ sock' = [sock EXCEPT ![g] = "open"]
  /\ ipc' = g
  /\ boot' = [boot EXCEPT ![g] = IF @ = "connect" THEN "init" ELSE @]
  /\ UNCHANGED <<starts, child, ready, readyBy, retry, target, proc, code, seen, kill,
                 inited, request>>

\* The child handles init, and the answer arrives.
InitAnswered(g) ==
  /\ boot[g] = "init"
  /\ proc[g] = "running"
  /\ inited' = [inited EXCEPT ![g] = TRUE]
  /\ boot' = [boot EXCEPT ![g] = "mapping"]
  /\ UNCHANGED <<starts, child, ready, readyBy, ipc, retry, target, proc, code, seen,
                 kill, sock, request>>

\* The last step of a boot sequence.
SetReady(g) ==
  /\ boot' = [boot EXCEPT ![g] = "done"]
  /\ ready' = TRUE
  /\ readyBy' = IF seen[g] THEN 0 ELSE g

\* updateAppHashMapping has read the hashes: it writes them to the connection
\* there is now, or returns at once when there is none.
MappingRead(g) ==
  /\ boot[g] = "mapping"
  /\ \/ ipc = 0 /\ SetReady(g) /\ UNCHANGED target
     \/ /\ ipc # 0
        /\ boot' = [boot EXCEPT ![g] = "update"]
        /\ target' = [target EXCEPT ![g] = ipc]
        /\ UNCHANGED <<ready, readyBy>>
  /\ UNCHANGED <<starts, child, ipc, retry, process, request>>

UpdateAnswered(g) ==
  /\ boot[g] = "update"
  /\ proc[target[g]] = "running"
  /\ SetReady(g)
  /\ UNCHANGED <<starts, child, ipc, retry, target, process, request>>

\* Mutant: the catch block starts the worker again itself.
BootFailsAndRetries(g) ==
  /\ boot[g] \in {"connect", "init", "mapping", "update"}
  /\ boot' = [boot EXCEPT ![g] = "failed"]
  /\ kill' = [kill EXCEPT ![child] = @ \/ Alive(child)]
  /\ retry' = TRUE
  /\ UNCHANGED <<starts, child, ready, readyBy, ipc, target, proc, code, seen, sock,
                 inited, request>>

\* The wait for the connection or for an answer times out, the worker's answer
\* is an error, or the hashes cannot be read: the catch block kills this.child,
\* whichever start it belongs to by now.
BootFails(g) ==
  /\ boot[g] \in {"connect", "init", "mapping", "update"}
  /\ boot' = [boot EXCEPT ![g] = "failed"]
  /\ kill' = [kill EXCEPT ![child] = @ \/ Alive(child)]
  /\ UNCHANGED <<starts, child, ready, readyBy, ipc, retry, target, proc, code, seen,
                 sock, inited, request>>

-----------------------------------------------------------------------------
(* The end of a process. *)

\* What the process had not answered is lost; its written answers stay readable.
Exit(g, c) ==
  /\ proc' = [proc EXCEPT ![g] = "exited"]
  /\ code' = [code EXCEPT ![g] = c]
  /\ work' = [r \in Req |-> IF dest[r] = g /\ work[r] \in {"sent", "asking"}
                              THEN "none" ELSE work[r]]
  /\ UNCHANGED <<service, seen, kill, sock, inited, call, dest, result, ask>>

\* An uncaught error, a failed HTTP server, a signal: any exit but 0.
Crash(g) == Alive(g) /\ Exit(g, 1)

\* SIGTERM ends a process that has no handlers yet with the signal's code.  Later
\* the handler destroys the connection, and the handler of that connection's
\* `close' event calls process.exit(0).
Terminated(g) ==
  /\ kill[g]
  /\ Alive(g)
  /\ Exit(g, IF proc[g] = "loading" THEN 1 ELSE 0)

\* Mutant: the handler leaves the field alone.
SocketClosedKept(g) ==
  /\ proc[g] = "exited"
  /\ sock[g] = "open"
  /\ \A r \in Req : dest[r] = g => work[r] # "answered"
  /\ sock' = [sock EXCEPT ![g] = "closed"]
  /\ UNCHANGED <<service, proc, code, seen, kill, inited, request>>

\* The server reads the end of a connection, after all that was written to it,
\* and clears the field without looking which connection it holds.
SocketClosed(g) ==
  /\ proc[g] = "exited"
  /\ sock[g] = "open"
  /\ \A r \in Req : dest[r] = g => work[r] # "answered"
  /\ sock' = [sock EXCEPT ![g] = "closed"]
  /\ ipc' = 0
  /\ UNCHANGED <<starts, child, ready, readyBy, retry, boot, target, proc, code, seen,
                 kill, inited, request>>

\* Mutant: a process that never got ready is not started again.
ExitedBeforeReady(g) ==
  /\ proc[g] = "exited"
  /\ ~seen[g]
  /\ seen' = [seen EXCEPT ![g] = TRUE]
  /\ ready' = FALSE
  /\ ipc' = 0
  /\ retry' = (retry \/ (code[g] # 0 /\ ready))
  /\ UNCHANGED <<starts, child, readyBy, boot, target, proc, code, kill, sock, inited,
                 request>>

\* Mutant: the ready flag survives the process.
ExitedStillReady(g) ==
  /\ proc[g] = "exited"
  /\ ~seen[g]
  /\ seen' = [seen EXCEPT ![g] = TRUE]
  /\ ipc' = 0
  /\ retry' = (retry \/ code[g] # 0)
  /\ UNCHANGED <<starts, child, ready, readyBy, boot, target, proc, code, kill, sock,
                 inited, request>>

\* The `exited' handler: a retry is scheduled only for an exit code other than 0.
Exited(g) ==
  /\ proc[g] = "exited"
  /\ ~seen[g]
  /\ seen' = [seen EXCEPT ![g] = TRUE]
  /\ ready' = FALSE
  /\ ipc' = 0
  /\ retry' = (retry \/ code[g] # 0)
  /\ UNCHANGED <<starts, child, readyBy, boot, target, proc, code, kill, sock, inited,
                 request>>

-----------------------------------------------------------------------------
(* Calls into the worker. *)

\* executeServerlessAppTask, executeServerlessRequest, and analyzeObject behind
\* its processor: not ready is an error that asks for a requeue, a missing
\* connection is one that does not.
Call(r) ==
  /\ call[r] = "idle"
  /\ \/ /\ ~IsReady
        /\ call' = [call EXCEPT ![r] = "notready"]
        /\ UNCHANGED <<dest, work>>
     \/ /\ IsReady /\ ipc = 0
        /\ call' = [call EXCEPT ![r] = "refused"]
        /\ UNCHANGED <<dest, work>>
     \/ /\ IsReady /\ ipc # 0
        /\ call' = [call EXCEPT ![r] = "pending"]
        /\ dest' = [dest EXCEPT ![r] = ipc]
        /\ work' = [work EXCEPT ![r] = IF Alive(ipc) THEN "sent" ELSE "none"]
  /\ UNCHANGED <<service, process, result, ask>>

\* The app task that was requeued is drained again, or a request is repeated.
\* The delay that an analyze task asks for is dropped by executeCoreTask, so
\* that one has failed.
CallAgain(r) ==
  /\ r \in NeedsInit
  /\ call[r] = "notready"
  /\ call' = [call EXCEPT ![r] = "idle"]
  /\ UNCHANGED <<service, process, dest, work, result, ask>>

\* The child reads the request.  Without init it answers an error; with it, it
\* asks the server for what it needs and waits.
Handle(r) ==
  /\ work[r] = "sent"
  /\ \/ /\ r \in NeedsInit /\ ~inited[dest[r]]
        /\ work' = [work EXCEPT ![r] = "answered"]
        /\ result' = [result EXCEPT ![r] = FALSE]
        /\ UNCHANGED ask
     \/ /\ r \in NeedsInit => inited[dest[r]]
        /\ work' = [work EXCEPT ![r] = "asking"]
        /\ ask' = [ask EXCEPT ![r] = "sent"]
        /\ UNCHANGED result
  /\ UNCHANGED <<service, process, call, dest>>

\* The server has handled the child's question and writes the answer to the
\* connection there is now: another child ignores it, and with no connection it
\* is dropped.
Reply(r) ==
  /\ ask[r] = "sent"
  /\ ask' = [ask EXCEPT ![r] = IF ipc = dest[r] THEN "replied" ELSE "none"]
  /\ UNCHANGED <<service, process, call, dest, work, result>>

\* The child has its answer and does the work, or fails to, or its question
\* timed out.  It writes the response.
Finish(r) ==
  /\ work[r] = "asking"
  /\ work' = [work EXCEPT ![r] = "answered"]
  /\ ask' = [ask EXCEPT ![r] = "none"]
  /\ \E ok \in (IF ask[r] = "replied" THEN BOOLEAN ELSE {FALSE}) :
       result' = [result EXCEPT ![r] = ok]
  /\ UNCHANGED <<service, process, call, dest>>

\* Mutant: the response is taken although the request has timed out.
DeliverLate(r) ==
  /\ work[r] = "answered"
  /\ sock[dest[r]] = "open"
  /\ work' = [work EXCEPT ![r] = "none"]
  /\ call' = [call EXCEPT ![r] = IF result[r] THEN "ok" ELSE "error"]
  /\ UNCHANGED <<service, process, dest, result, ask>>

\* The response arrives and settles the request if it still waits.
Deliver(r) ==
  /\ work[r] = "answered"
  /\ sock[dest[r]] = "open"
  /\ work' = [work EXCEPT ![r] = "none"]
  /\ call' = [call EXCEPT ![r] = IF @ # "pending" THEN @
                                 ELSE IF result[r] THEN "ok" ELSE "error"]
  /\ UNCHANGED <<service, process, dest, result, ask>>

\* Mutant: only requests of the current child time out.
TimeoutCurrentOnly(r) ==
  /\ call[r] = "pending"
  /\ dest[r] = ipc
  /\ call' = [call EXCEPT ![r] = "timeout"]
  /\ UNCHANGED <<service, process, dest, work, result, ask>>

\* The timer of the request.
Timeout(r) ==
  /\ call[r] = "pending"
  /\ call' = [call EXCEPT ![r] = "timeout"]
  /\ UNCHANGED <<service, process, dest, work, result, ask>>

-----------------------------------------------------------------------------
Next ==
  \/ Start
  \/ \E g \in Gen :
       \/ Spawn(g) \/ SpawnFails(g) \/ Load(g) \/ Accept(g) \/ InitAnswered(g)
       \/ MappingRead(g) \/ UpdateAnswered(g) \/ BootFails(g)
       \/ Crash(g) \/ Terminated(g) \/ SocketClosed(g) \/ Exited(g)
  \/ \E r \in Req :
       \/ Call(r) \/ CallAgain(r) \/ Handle(r) \/ Reply(r) \/ Finish(r)
       \/ Deliver(r) \/ Timeout(r)

Spec == Init /\ [][Next]_vars

\* Timers fire, events of the operating system arrive, and an attempt to spawn
\* succeeds or fails.  No fairness for what the child does with a request, for
\* answers, or for crashes.
FairSpec ==
  /\ Spec
  /\ WF_vars(Start)
  /\ \A g \in Gen :
       /\ WF_vars(Spawn(g) \/ SpawnFails(g))
       /\ WF_vars(SocketClosed(g))
       /\ WF_vars(Exited(g))
  /\ \A r \in Req : WF_vars(Timeout(r)) /\ WF_vars(Deliver(r))

-----------------------------------------------------------------------------
(* Properties. *)

\* There is at most one worker process: init deletes the bundle cache directory
\* the processes share, so a second one would pull the first one's files away.
OneProcess == \A g \in Gen : Alive(g) => g = child /\ g = starts

\* The connection field never outlives the process's start: requests go to the
\* current child, over a connection the server has not seen closed.
SocketIsCurrent == ipc # 0 => ipc = child /\ sock[ipc] = "open"

\* `ready' means that the current process was initialised and its exit is not
\* known, unless it was set by a boot sequence whose own process was already
\* known to be gone.
ReadyIsServed ==
  ready /\ readyBy # 0 => readyBy = child /\ inited[child] /\ ~seen[child]

\* No call succeeds on a process that init did not set up, although `ready' may
\* be set by the boot sequence of an earlier start.
SucceedsOnlyInitialised ==
  \A r \in NeedsInit : call[r] = "ok" => inited[dest[r]]

\* The refinement of WorkerService: whatever the boot sequences of earlier
\* starts, late connections, exits and timers do, there is one process at a
\* time, a call is settled once, by its own process before that died or by its
\* timer, and one that needs init succeeds on an initialised process only.
Outcome(r) ==
  CASE call[r] = "notready" -> "idle"
    [] call[r] = "pending" -> IF work[r] = "none" THEN "lost" ELSE "working"
    [] OTHER -> call[r]
Worker ==
  INSTANCE WorkerService
    WITH last     <- child,
         procs    <- {g \in Gen : Alive(g)},
         prepared <- {g \in Gen : inited[g]},
         told     <- [r \in Req |-> Outcome(r)],
         by       <- dest
ImplementsWorker == Worker!WorkerSpec

\* The worker is lost for good, with no process, no start under way and no retry
\* scheduled, only after a boot sequence failed or the retry itself threw:
\* crashes alone never lose it.
Lost == starts # 0 /\ ~retry /\ (seen[starts] \/ boot[starts] = "unspawned")

LostOnlyAfterFailure ==
  Lost => boot[starts] = "unspawned" \/ \E g \in Gen : boot[g] = "failed"

\* "Kill the child so the `exited' handler restarts it": once the exit of a
\* killed child has been handled, a retry is scheduled or has run.
KilledIsRestarted ==
  \A g \in Gen : kill[g] /\ seen[g] => retry \/ starts > g

\* The inductive invariant.  A start follows the handled exit of the one before,
\* so only the last start has a process or an open connection.
Numbering ==
  /\ \A g \in Gen : boot[g] = "none" <=> g > starts
  /\ \A g \in Gen : proc[g] = "none" <=> boot[g] \in {"none", "listen", "unspawned"}
  /\ \A g \in Gen : g < starts => seen[g] /\ sock[g] # "open"
  /\ \A g \in Gen : seen[g] => proc[g] = "exited"
  /\ \A g \in Gen : sock[g] # "none" => proc[g] \in {"running", "exited"}
  /\ child = IF starts # 0 /\ boot[starts] \in {"listen", "unspawned"}
             THEN starts - 1 ELSE starts
  /\ retry => starts = 0 \/ seen[starts]

\* A retry is scheduled for every known exit but those that followed a kill.
Exits ==
  /\ starts # 0 /\ seen[starts] /\ code[starts] # 0 => retry
  /\ \A g \in Gen : proc[g] = "exited" /\ code[g] = 0 => kill[g]
  /\ \A g \in Gen : kill[g] => \E h \in Gen : boot[h] = "failed"
  /\ starts = 0 => retry

Booting ==
  \A g \in Gen :
    /\ boot[g] = "update" => target[g] # 0
    /\ boot[g] \in {"mapping", "update", "done"} => inited[g]

\* A request the child works on was written to a connection, and one that needs
\* init is past the child's test.
Requests ==
  \A r \in Req :
    /\ call[r] \in {"idle", "notready", "refused"} => work[r] = "none"
    /\ work[r] # "none" => dest[r] # 0
    /\ r \in NeedsInit /\ (work[r] = "asking" \/ (work[r] = "answered" /\ result[r]))
         => inited[dest[r]]

IInv ==
  /\ TypeOK
  /\ Numbering
  /\ Exits
  /\ Booting
  /\ Requests
  /\ SocketIsCurrent
  /\ ReadyIsServed
  /\ SucceedsOnlyInitialised

\* Every request is settled, also one whose process is gone.
EveryRequestSettles ==
  \A r \in Req : call[r] = "pending" ~> call[r] # "pending"

\* A process that exits with a code other than 0 is replaced, unless the one
\* attempt to spawn its successor throws.
CrashedIsReplaced ==
  \A g \in 1 .. MaxStarts - 1 :
    proc[g] = "exited" /\ code[g] # 0
      ~> child > g \/ boot[g + 1] = "unspawned"

=============================================================================
