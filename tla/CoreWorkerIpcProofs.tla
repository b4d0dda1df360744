------------------------- MODULE CoreWorkerIpcProofs -------------------------
(***************************************************************************)
(* Proofs for CoreWorkerIpc: for any calls and any number of starts, there *)
(* is one worker process, the connection field is the current process's,   *)
(* and the ready flag means what it says but for late boot sequences.      *)
(* Starts form a chain (Numbering): each follows the handled exit of the   *)
(* one before, and everything else rests on that: also that its callers    *)
(* see no more of it than WorkerService says.                              *)
(***************************************************************************)
EXTENDS CoreWorkerIpc, TLAPS

\* The inductive invariant survives a start.
LEMMA StartKeeps ==
  ASSUME IInv, Start
  PROVE  IInv'
<1>1. TypeOK'
  <2>1. boot' \in [Gen -> {"none", "listen", "connect", "init", "mapping", "update",
                         "done", "failed", "unspawned"}]
    BY DEF Start, IInv, TypeOK
  <2>2. starts' \in 0 .. MaxStarts
    BY IpcAssumption DEF Start, IInv, TypeOK
  <2>3. ready' \in BOOLEAN /\ retry' \in BOOLEAN
    BY DEF Start
  <2>4. QED BY <2>1, <2>2, <2>3 DEF Start, process, request, IInv, TypeOK
<1>2. Numbering'
  BY IpcAssumption DEF Start, service, process, request, IInv, Numbering, SocketIsCurrent, TypeOK, Gen
<1>3. Exits'
  BY IpcAssumption DEF Start, service, process, request, IInv, Exits, Numbering, TypeOK, Gen
<1>4. Booting'
  BY IpcAssumption DEF Start, service, process, request, IInv, Booting, Numbering, SocketIsCurrent, TypeOK, Gen
<1>5. ReadyIsServed'
  BY IpcAssumption DEF Start, service, process, request, IInv, Booting, Numbering, ReadyIsServed, TypeOK, Gen
<1>6. Requests' /\ SocketIsCurrent' /\ SucceedsOnlyInitialised'
  BY DEF Start, service, process, request, IInv, Requests, SocketIsCurrent, SucceedsOnlyInitialised
<1>7. QED BY <1>1, <1>2, <1>3, <1>4, <1>5, <1>6 DEF IInv

\* The inductive invariant survives the spawn of a child.
LEMMA SpawnKeeps ==
  ASSUME IInv, NEW g \in Gen, Spawn(g)
  PROVE  IInv'
<1>1. TypeOK'
  BY IpcAssumption DEF Spawn, service, process, request, IInv, TypeOK, Gen
<1>2. Numbering'
  BY IpcAssumption DEF Spawn, service, process, request, IInv, Numbering, SocketIsCurrent, TypeOK, Gen
<1>3. Exits'
  BY IpcAssumption DEF Spawn, service, process, request, IInv, Exits, Numbering, TypeOK, Gen
<1>4. Booting'
  BY IpcAssumption DEF Spawn, service, process, request, IInv, Booting, Numbering, SocketIsCurrent, TypeOK, Gen
<1>5. SocketIsCurrent'
  BY IpcAssumption DEF Spawn, service, process, request, IInv, Numbering, SocketIsCurrent, TypeOK, Gen
<1>6. ReadyIsServed'
  BY IpcAssumption DEF Spawn, service, process, request, IInv, Booting, Numbering, ReadyIsServed, TypeOK, Gen
<1>7. Requests' /\ SucceedsOnlyInitialised'
  BY DEF Spawn, service, process, request, IInv, Requests, SucceedsOnlyInitialised
<1>8. QED BY <1>1, <1>2, <1>3, <1>4, <1>5, <1>6, <1>7 DEF IInv

\* The inductive invariant survives a spawn that throws.
LEMMA SpawnFailsKeeps ==
  ASSUME IInv, NEW g \in Gen, SpawnFails(g)
  PROVE  IInv'
<1>1. TypeOK'
  BY IpcAssumption DEF SpawnFails, service, process, request, IInv, TypeOK, Gen
<1>2. Numbering'
  BY IpcAssumption DEF SpawnFails, service, process, request, IInv, Numbering, SocketIsCurrent, TypeOK, Gen
<1>3. Exits'
  BY IpcAssumption DEF SpawnFails, service, process, request, IInv, Exits, Numbering, TypeOK, Gen
<1>4. Booting'
  BY IpcAssumption DEF SpawnFails, service, process, request, IInv, Booting, Numbering, SocketIsCurrent, TypeOK, Gen
<1>5. SocketIsCurrent'
  BY IpcAssumption DEF SpawnFails, service, process, request, IInv, Numbering, SocketIsCurrent, TypeOK, Gen
<1>6. ReadyIsServed'
  BY IpcAssumption DEF SpawnFails, service, process, request, IInv, Booting, Numbering, ReadyIsServed, TypeOK, Gen
<1>7. Requests' /\ SucceedsOnlyInitialised'
  BY DEF SpawnFails, service, process, request, IInv, Requests, SucceedsOnlyInitialised
<1>8. QED BY <1>1, <1>2, <1>3, <1>4, <1>5, <1>6, <1>7 DEF IInv

\* The inductive invariant survives a child that loads.
LEMMA LoadKeeps ==
  ASSUME IInv, NEW g \in Gen, Load(g)
  PROVE  IInv'
<1>1. TypeOK'
  BY IpcAssumption DEF Load, service, process, request, IInv, TypeOK, Gen
<1>2. Numbering'
  BY IpcAssumption DEF Load, service, process, request, IInv, Numbering, SocketIsCurrent, TypeOK, Gen
<1>3. Exits'
  BY IpcAssumption DEF Load, service, process, request, IInv, Exits, Numbering, TypeOK, Gen
<1>4. Booting' /\ Requests' /\ SocketIsCurrent' /\ ReadyIsServed' /\ SucceedsOnlyInitialised'
  BY DEF Load, service, process, request, IInv, Booting, Requests, SocketIsCurrent, ReadyIsServed, SucceedsOnlyInitialised
<1>5. QED BY <1>1, <1>2, <1>3, <1>4 DEF IInv

\* The inductive invariant survives a connection.
LEMMA AcceptKeeps ==
  ASSUME IInv, NEW g \in Gen, Accept(g)
  PROVE  IInv'
<1>1. TypeOK'
  BY IpcAssumption DEF Accept, service, process, request, IInv, TypeOK, Gen
<1>2. Numbering'
  BY IpcAssumption DEF Accept, service, process, request, IInv, Numbering, SocketIsCurrent, TypeOK, Gen
<1>3. Exits'
  BY IpcAssumption DEF Accept, service, process, request, IInv, Exits, Numbering, TypeOK, Gen
<1>4. Booting'
  BY IpcAssumption DEF Accept, service, process, request, IInv, Booting, Numbering, SocketIsCurrent, TypeOK, Gen
<1>5. SocketIsCurrent'
  BY IpcAssumption DEF Accept, service, process, request, IInv, Numbering, SocketIsCurrent, TypeOK, Gen
<1>6. Requests' /\ ReadyIsServed' /\ SucceedsOnlyInitialised'
  BY DEF Accept, service, process, request, IInv, Requests, ReadyIsServed, SucceedsOnlyInitialised
<1>7. QED BY <1>1, <1>2, <1>3, <1>4, <1>5, <1>6 DEF IInv

\* The inductive invariant survives the answer to init.
LEMMA InitAnsweredKeeps ==
  ASSUME IInv, NEW g \in Gen, InitAnswered(g)
  PROVE  IInv'
<1>1. TypeOK'
  BY IpcAssumption DEF InitAnswered, service, process, request, IInv, TypeOK, Gen
<1>2. Numbering'
  BY IpcAssumption DEF InitAnswered, service, process, request, IInv, Numbering, SocketIsCurrent, TypeOK, Gen
<1>3. Exits'
  BY IpcAssumption DEF InitAnswered, service, process, request, IInv, Exits, Numbering, TypeOK, Gen
<1>4. Booting'
  BY IpcAssumption DEF InitAnswered, service, process, request, IInv, Booting, Numbering, SocketIsCurrent, TypeOK, Gen
<1>5. Requests'
  BY IpcAssumption DEF InitAnswered, service, process, request, IInv, Numbering, Requests, TypeOK, Gen
<1>6. ReadyIsServed'
  BY IpcAssumption DEF InitAnswered, service, process, request, IInv, Booting, Numbering, ReadyIsServed, TypeOK, Gen
<1>7. SucceedsOnlyInitialised'
  BY IpcAssumption DEF InitAnswered, service, process, request, IInv, Requests, SucceedsOnlyInitialised, TypeOK, Gen
<1>8. SocketIsCurrent'
  BY DEF InitAnswered, service, process, request, IInv, SocketIsCurrent
<1>9. QED BY <1>1, <1>2, <1>3, <1>4, <1>5, <1>6, <1>7, <1>8 DEF IInv

\* The inductive invariant survives the read of the hashes.
LEMMA MappingReadKeeps ==
  ASSUME IInv, NEW g \in Gen, MappingRead(g)
  PROVE  IInv'
<1>1. TypeOK'
  <2>1. boot' \in [Gen -> {"none", "listen", "connect", "init", "mapping", "update",
                         "done", "failed", "unspawned"}]
    BY DEF MappingRead, SetReady, IInv, TypeOK
  <2>2. target' \in [Gen -> 0 .. MaxStarts]
    BY DEF MappingRead, SetReady, IInv, TypeOK
  <2>3. readyBy' \in 0 .. MaxStarts
    BY IpcAssumption DEF MappingRead, SetReady, IInv, TypeOK, Gen
  <2>4. ready' \in BOOLEAN
    <3>1. CASE ipc = 0
      BY <3>1 DEF MappingRead, SetReady
    <3>2. CASE ipc # 0
      BY <3>2 DEF MappingRead, SetReady, IInv, TypeOK
    <3>3. QED BY <3>1, <3>2
  <2>5. QED BY <2>1, <2>2, <2>3, <2>4 DEF MappingRead, process, request, IInv, TypeOK
<1>2. Numbering'
  BY IpcAssumption DEF MappingRead, SetReady, service, process, request, IInv, Numbering, SocketIsCurrent, TypeOK, Gen
<1>3. Exits'
  BY IpcAssumption DEF MappingRead, SetReady, service, process, request, IInv, Exits, Numbering, TypeOK, Gen
<1>4. Booting'
  BY IpcAssumption DEF MappingRead, SetReady, service, process, request, IInv, Booting, Numbering, SocketIsCurrent, TypeOK, Gen
<1>5. ReadyIsServed'
  <2>1. CASE ipc = 0
    <3>1. UNCHANGED <<child, inited, seen>> /\ ready' /\ readyBy' = IF seen[g] THEN 0 ELSE g
      BY <2>1 DEF MappingRead, SetReady, process
    <3>2. ~seen[g] => g = child /\ inited[g]
      BY IpcAssumption DEF MappingRead, IInv, TypeOK, Numbering, Booting, Gen
    <3>3. QED BY <3>1, <3>2 DEF ReadyIsServed
  <2>2. CASE ipc # 0
    BY <2>2 DEF MappingRead, SetReady, process, IInv, ReadyIsServed
  <2>3. QED BY <2>1, <2>2
<1>6. Requests' /\ SocketIsCurrent' /\ SucceedsOnlyInitialised'
  BY DEF MappingRead, SetReady, service, process, request, IInv, Requests, SocketIsCurrent, SucceedsOnlyInitialised
<1>7. QED BY <1>1, <1>2, <1>3, <1>4, <1>5, <1>6 DEF IInv

\* The inductive invariant survives the answer to the hash mapping.
LEMMA UpdateAnsweredKeeps ==
  ASSUME IInv, NEW g \in Gen, UpdateAnswered(g)
  PROVE  IInv'
<1>1. TypeOK'
  BY IpcAssumption DEF UpdateAnswered, SetReady, service, process, request, IInv, TypeOK, Gen
<1>2. Numbering'
  BY IpcAssumption DEF UpdateAnswered, SetReady, service, process, request, IInv, Numbering, SocketIsCurrent, TypeOK, Gen
<1>3. Exits'
  BY IpcAssumption DEF UpdateAnswered, SetReady, service, process, request, IInv, Exits, Numbering, TypeOK, Gen
<1>4. Booting'
  BY IpcAssumption DEF UpdateAnswered, SetReady, service, process, request, IInv, Booting, Numbering, SocketIsCurrent, TypeOK, Gen
<1>5. ReadyIsServed'
  BY IpcAssumption DEF UpdateAnswered, SetReady, service, process, request, IInv, Booting, Numbering, ReadyIsServed, TypeOK, Gen
<1>6. Requests' /\ SocketIsCurrent' /\ SucceedsOnlyInitialised'
  BY DEF UpdateAnswered, SetReady, service, process, request, IInv, Requests, SocketIsCurrent, SucceedsOnlyInitialised
<1>7. QED BY <1>1, <1>2, <1>3, <1>4, <1>5, <1>6 DEF IInv

\* The inductive invariant survives a failed boot sequence.
LEMMA BootFailsKeeps ==
  ASSUME IInv, NEW g \in Gen, BootFails(g)
  PROVE  IInv'
<1>1. TypeOK'
  BY IpcAssumption DEF BootFails, Alive, service, process, request, IInv, TypeOK, Gen
<1>2. Numbering'
  BY IpcAssumption DEF BootFails, Alive, service, process, request, IInv, Numbering, SocketIsCurrent, TypeOK, Gen
<1>3. Exits'
  <2>1. boot'[g] = "failed" /\ UNCHANGED <<starts, seen, code, retry, proc>>
    BY DEF BootFails, IInv, TypeOK
  <2>2. \A h \in Gen : kill[h] => kill'[h]
    BY DEF BootFails, IInv, TypeOK
  <2>3. QED BY <2>1, <2>2 DEF IInv, Exits
<1>4. Booting'
  BY IpcAssumption DEF BootFails, Alive, service, process, request, IInv, Booting, Numbering, SocketIsCurrent, TypeOK, Gen
<1>5. Requests' /\ SocketIsCurrent' /\ ReadyIsServed' /\ SucceedsOnlyInitialised'
  BY DEF BootFails, Alive, service, process, request, IInv, Requests, SocketIsCurrent, ReadyIsServed, SucceedsOnlyInitialised
<1>6. QED BY <1>1, <1>2, <1>3, <1>4, <1>5 DEF IInv

\* The inductive invariant survives a crash.
LEMMA CrashKeeps ==
  ASSUME IInv, NEW g \in Gen, Crash(g)
  PROVE  IInv'
<1>1. TypeOK'
  BY IpcAssumption DEF Crash, Alive, Exit, service, process, request, IInv, TypeOK, Gen
<1>2. Numbering'
  BY IpcAssumption DEF Crash, Alive, Exit, service, process, request, IInv, Numbering, SocketIsCurrent, TypeOK, Gen
<1>3. Exits'
  BY IpcAssumption DEF Crash, Alive, Exit, service, process, request, IInv, Exits, Numbering, TypeOK, Gen
<1>4. Requests'
  BY IpcAssumption DEF Crash, Alive, Exit, service, process, request, IInv, Numbering, Requests, TypeOK, Gen
<1>5. Booting' /\ SocketIsCurrent' /\ ReadyIsServed' /\ SucceedsOnlyInitialised'
  BY DEF Crash, Alive, Exit, service, process, request, IInv, Booting, SocketIsCurrent, ReadyIsServed, SucceedsOnlyInitialised
<1>6. QED BY <1>1, <1>2, <1>3, <1>4, <1>5 DEF IInv

\* The inductive invariant survives a SIGTERM.
LEMMA TerminatedKeeps ==
  ASSUME IInv, NEW g \in Gen, Terminated(g)
  PROVE  IInv'
<1>1. TypeOK'
  BY IpcAssumption DEF Terminated, Alive, Exit, service, process, request, IInv, TypeOK, Gen
<1>2. Numbering'
  BY IpcAssumption DEF Terminated, Alive, Exit, service, process, request, IInv, Numbering, SocketIsCurrent, TypeOK, Gen
<1>3. Exits'
  BY IpcAssumption DEF Terminated, Alive, Exit, service, process, request, IInv, Exits, Numbering, TypeOK, Gen
<1>4. Requests'
  BY IpcAssumption DEF Terminated, Alive, Exit, service, process, request, IInv, Numbering, Requests, TypeOK, Gen
<1>5. Booting' /\ SocketIsCurrent' /\ ReadyIsServed' /\ SucceedsOnlyInitialised'
  BY DEF Terminated, Alive, Exit, service, process, request, IInv, Booting, SocketIsCurrent, ReadyIsServed, SucceedsOnlyInitialised
<1>6. QED BY <1>1, <1>2, <1>3, <1>4, <1>5 DEF IInv

\* The inductive invariant survives a closed connection.
LEMMA SocketClosedKeeps ==
  ASSUME IInv, NEW g \in Gen, SocketClosed(g)
  PROVE  IInv'
<1>1. TypeOK'
  BY IpcAssumption DEF SocketClosed, service, process, request, IInv, TypeOK, Gen
<1>2. Numbering'
  BY IpcAssumption DEF SocketClosed, service, process, request, IInv, Numbering, SocketIsCurrent, TypeOK, Gen
<1>3. SocketIsCurrent'
  BY IpcAssumption DEF SocketClosed, service, process, request, IInv, Numbering, SocketIsCurrent, TypeOK, Gen
<1>4. Exits' /\ Booting' /\ Requests' /\ ReadyIsServed' /\ SucceedsOnlyInitialised'
  BY DEF SocketClosed, service, process, request, IInv, Exits, Booting, Requests, ReadyIsServed, SucceedsOnlyInitialised
<1>5. QED BY <1>1, <1>2, <1>3, <1>4 DEF IInv

\* The inductive invariant survives the exited handler.
LEMMA ExitedKeeps ==
  ASSUME IInv, NEW g \in Gen, Exited(g)
  PROVE  IInv'
<1>1. TypeOK'
  <2>1. seen' \in [Gen -> BOOLEAN]
    BY DEF Exited, IInv, TypeOK
  <2>2. ready' \in BOOLEAN /\ retry' \in BOOLEAN
    BY DEF Exited, IInv, TypeOK
  <2>3. ipc' \in 0 .. MaxStarts
    BY IpcAssumption DEF Exited
  <2>4. QED BY <2>1, <2>2, <2>3 DEF Exited, request, IInv, TypeOK
<1>2. Numbering'
  BY IpcAssumption DEF Exited, service, process, request, IInv, Numbering, SocketIsCurrent, TypeOK, Gen
<1>3. Exits'
  <2>1. g = starts /\ starts \in Nat
    BY IpcAssumption DEF Exited, IInv, TypeOK, Numbering, Gen
  <2>2. UNCHANGED <<starts, code, proc, kill, boot>> /\ retry' = (retry \/ code[g] # 0)
    BY DEF Exited
  <2>3. QED BY <2>1, <2>2 DEF IInv, Exits
<1>4. SocketIsCurrent'
  BY IpcAssumption DEF Exited, service, process, request, IInv, Numbering, SocketIsCurrent, TypeOK, Gen
<1>5. ReadyIsServed'
  BY IpcAssumption DEF Exited, service, process, request, IInv, Booting, Numbering, ReadyIsServed, TypeOK, Gen
<1>6. Booting' /\ Requests' /\ SucceedsOnlyInitialised'
  BY DEF Exited, service, process, request, IInv, Booting, Requests, SucceedsOnlyInitialised
<1>7. QED BY <1>1, <1>2, <1>3, <1>4, <1>5, <1>6 DEF IInv

\* The inductive invariant survives a call.
LEMMA CallKeeps ==
  ASSUME IInv, NEW r \in Req, Call(r)
  PROVE  IInv'
<1>1. TypeOK'
  <2>1. call' \in [Req -> {"idle", "pending", "notready", "refused", "ok", "error", "timeout"}]
    BY DEF Call, IInv, TypeOK
  <2>2. dest' \in [Req -> 0 .. MaxStarts]
    BY DEF Call, IInv, TypeOK
  <2>3. work' \in [Req -> {"none", "sent", "asking", "answered"}]
    BY DEF Call, IInv, TypeOK
  <2>4. QED BY <2>1, <2>2, <2>3 DEF Call, service, process, IInv, TypeOK
<1>2. Requests'
  BY IpcAssumption DEF Call, Alive, IsReady, service, process, request, IInv, Numbering, Requests, TypeOK, Gen
<1>3. SucceedsOnlyInitialised'
  <2>1. \A x \in Req : call'[x] = "ok" => call[x] = "ok" /\ dest'[x] = dest[x]
    BY DEF Call, IInv, TypeOK
  <2>2. inited' = inited
    BY DEF Call, process
  <2>3. QED BY <2>1, <2>2, IpcAssumption DEF IInv, SucceedsOnlyInitialised
<1>4. Numbering' /\ Exits' /\ Booting' /\ SocketIsCurrent' /\ ReadyIsServed'
  BY DEF Call, Alive, IsReady, service, process, request, IInv, Numbering, Exits, Booting, SocketIsCurrent, ReadyIsServed
<1>5. QED BY <1>1, <1>2, <1>3, <1>4 DEF IInv

\* The inductive invariant survives a requeued call.
LEMMA CallAgainKeeps ==
  ASSUME IInv, NEW r \in Req, CallAgain(r)
  PROVE  IInv'
<1>1. TypeOK'
  BY IpcAssumption DEF CallAgain, service, process, request, IInv, TypeOK, Gen
<1>2. Requests'
  BY IpcAssumption DEF CallAgain, service, process, request, IInv, Numbering, Requests, TypeOK, Gen
<1>3. SucceedsOnlyInitialised'
  BY IpcAssumption DEF CallAgain, service, process, request, IInv, Requests, SucceedsOnlyInitialised, TypeOK, Gen
<1>4. Numbering' /\ Exits' /\ Booting' /\ SocketIsCurrent' /\ ReadyIsServed'
  BY DEF CallAgain, service, process, request, IInv, Numbering, Exits, Booting, SocketIsCurrent, ReadyIsServed
<1>5. QED BY <1>1, <1>2, <1>3, <1>4 DEF IInv

\* The inductive invariant survives the child's handling of a request.
LEMMA HandleKeeps ==
  ASSUME IInv, NEW r \in Req, Handle(r)
  PROVE  IInv'
<1>1. TypeOK'
  <2>1. work' \in [Req -> {"none", "sent", "asking", "answered"}]
    BY DEF Handle, IInv, TypeOK
  <2>2. ask' \in [Req -> {"none", "sent", "replied"}]
    BY DEF Handle, IInv, TypeOK
  <2>3. result' \in [Req -> BOOLEAN]
    BY DEF Handle, IInv, TypeOK
  <2>4. QED BY <2>1, <2>2, <2>3 DEF Handle, service, process, IInv, TypeOK
<1>2. Requests'
  BY IpcAssumption DEF Handle, service, process, request, IInv, Numbering, Requests, TypeOK, Gen
<1>3. Numbering' /\ Exits' /\ Booting' /\ SocketIsCurrent' /\ ReadyIsServed' /\ SucceedsOnlyInitialised'
  BY DEF Handle, service, process, request, IInv, Numbering, Exits, Booting, SocketIsCurrent, ReadyIsServed, SucceedsOnlyInitialised
<1>4. QED BY <1>1, <1>2, <1>3 DEF IInv

\* The inductive invariant survives the server's reply.
LEMMA ReplyKeeps ==
  ASSUME IInv, NEW r \in Req, Reply(r)
  PROVE  IInv'
<1>1. TypeOK'
  BY IpcAssumption DEF Reply, service, process, request, IInv, TypeOK, Gen
<1>2. Numbering' /\ Exits' /\ Booting' /\ Requests' /\ SocketIsCurrent' /\ ReadyIsServed' /\ SucceedsOnlyInitialised'
  BY DEF Reply, service, process, request, IInv, Numbering, Exits, Booting, Requests, SocketIsCurrent, ReadyIsServed, SucceedsOnlyInitialised
<1>3. QED BY <1>1, <1>2 DEF IInv

\* The inductive invariant survives the child's response.
LEMMA FinishKeeps ==
  ASSUME IInv, NEW r \in Req, Finish(r)
  PROVE  IInv'
<1>1. TypeOK'
  <2>1. work' \in [Req -> {"none", "sent", "asking", "answered"}]
    BY DEF Finish, IInv, TypeOK
  <2>2. ask' \in [Req -> {"none", "sent", "replied"}]
    BY DEF Finish, IInv, TypeOK
  <2>3. PICK ok \in BOOLEAN : result' = [result EXCEPT ![r] = ok]
    BY DEF Finish
  <2>4. result' \in [Req -> BOOLEAN]
    BY <2>3 DEF IInv, TypeOK
  <2>5. QED BY <2>1, <2>2, <2>4 DEF Finish, service, process, IInv, TypeOK
<1>2. Requests'
  BY IpcAssumption DEF Finish, service, process, request, IInv, Numbering, Requests, TypeOK, Gen
<1>3. Numbering' /\ Exits' /\ Booting' /\ SocketIsCurrent' /\ ReadyIsServed' /\ SucceedsOnlyInitialised'
  BY DEF Finish, service, process, request, IInv, Numbering, Exits, Booting, SocketIsCurrent, ReadyIsServed, SucceedsOnlyInitialised
<1>4. QED BY <1>1, <1>2, <1>3 DEF IInv

\* The inductive invariant survives a delivered response.
LEMMA DeliverKeeps ==
  ASSUME IInv, NEW r \in Req, Deliver(r)
  PROVE  IInv'
<1>1. TypeOK'
  BY IpcAssumption DEF Deliver, service, process, request, IInv, TypeOK, Gen
<1>2. Requests'
  BY IpcAssumption DEF Deliver, service, process, request, IInv, Numbering, Requests, TypeOK, Gen
<1>3. SucceedsOnlyInitialised'
  BY IpcAssumption DEF Deliver, service, process, request, IInv, Requests, SucceedsOnlyInitialised, TypeOK, Gen
<1>4. Numbering' /\ Exits' /\ Booting' /\ SocketIsCurrent' /\ ReadyIsServed'
  BY DEF Deliver, service, process, request, IInv, Numbering, Exits, Booting, SocketIsCurrent, ReadyIsServed
<1>5. QED BY <1>1, <1>2, <1>3, <1>4 DEF IInv

\* The inductive invariant survives a timeout.
LEMMA TimeoutKeeps ==
  ASSUME IInv, NEW r \in Req, Timeout(r)
  PROVE  IInv'
<1>1. TypeOK'
  BY IpcAssumption DEF Timeout, service, process, request, IInv, TypeOK, Gen
<1>2. Requests'
  BY IpcAssumption DEF Timeout, service, process, request, IInv, Numbering, Requests, TypeOK, Gen
<1>3. SucceedsOnlyInitialised'
  BY IpcAssumption DEF Timeout, service, process, request, IInv, Requests, SucceedsOnlyInitialised, TypeOK, Gen
<1>4. Numbering' /\ Exits' /\ Booting' /\ SocketIsCurrent' /\ ReadyIsServed'
  BY DEF Timeout, service, process, request, IInv, Numbering, Exits, Booting, SocketIsCurrent, ReadyIsServed
<1>5. QED BY <1>1, <1>2, <1>3, <1>4 DEF IInv

\* The initial state satisfies the invariant.
LEMMA InitIInv == Init => IInv
<1> SUFFICES ASSUME Init PROVE IInv
  OBVIOUS
<1>1. TypeOK
  <2>1. /\ seen \in [Gen -> BOOLEAN] /\ kill \in [Gen -> BOOLEAN]
        /\ inited \in [Gen -> BOOLEAN] /\ result \in [Req -> BOOLEAN]
        /\ ready \in BOOLEAN /\ retry \in BOOLEAN
    BY DEF Init
  <2>2. /\ starts \in 0 .. MaxStarts /\ child \in 0 .. MaxStarts
        /\ readyBy \in 0 .. MaxStarts /\ ipc \in 0 .. MaxStarts
        /\ target \in [Gen -> 0 .. MaxStarts] /\ dest \in [Req -> 0 .. MaxStarts]
        /\ code \in [Gen -> 0 .. 1]
    BY IpcAssumption DEF Init
  <2>3. QED BY <2>1, <2>2 DEF Init, TypeOK
<1>2. Numbering /\ Exits /\ Booting /\ Requests
  BY IpcAssumption DEF Init, Numbering, Exits, Booting, Requests, Gen
<1>3. SocketIsCurrent /\ ReadyIsServed /\ SucceedsOnlyInitialised
  BY IpcAssumption DEF Init, SocketIsCurrent, ReadyIsServed, SucceedsOnlyInitialised
<1>4. QED BY <1>1, <1>2, <1>3 DEF IInv

\* So does every step.
LEMMA NextKeepsIInv == IInv /\ [Next]_vars => IInv'
<1> SUFFICES ASSUME IInv, [Next]_vars PROVE IInv'
  OBVIOUS
<1>1. CASE Next
  BY <1>1, StartKeeps, SpawnKeeps, SpawnFailsKeeps, LoadKeeps, AcceptKeeps, InitAnsweredKeeps, MappingReadKeeps, UpdateAnsweredKeeps, BootFailsKeeps, CrashKeeps, TerminatedKeeps, SocketClosedKeeps, ExitedKeeps,
     CallKeeps, CallAgainKeeps, HandleKeeps, ReplyKeeps, FinishKeeps, DeliverKeeps, TimeoutKeeps DEF Next
<1>2. CASE UNCHANGED vars
  BY <1>2 DEF vars, IInv, TypeOK, Numbering, Exits, Booting, Requests, SocketIsCurrent,
     ReadyIsServed, SucceedsOnlyInitialised, Alive
<1>3. QED BY <1>1, <1>2

\* The inductive invariant holds in every reachable state.
THEOREM SpecIInv == Spec => []IInv
BY InitIInv, NextKeepsIInv, PTL DEF Spec

\* There is at most one worker process, that of the last start.
THEOREM OneWorkerProcess == Spec => []OneProcess
<1>1. IInv => OneProcess
  BY IpcAssumption DEF IInv, TypeOK, Numbering, OneProcess, Alive, Gen
<1>2. QED BY <1>1, SpecIInv, PTL

\* Requests are written to the current process's open connection.
THEOREM ConnectionIsCurrent == Spec => []SocketIsCurrent
<1>1. IInv => SocketIsCurrent
  BY DEF IInv
<1>2. QED BY <1>1, SpecIInv, PTL

\* The ready flag means an initialised process, but for a late boot sequence.
THEOREM ReadyMeansServed == Spec => []ReadyIsServed
<1>1. IInv => ReadyIsServed
  BY DEF IInv
<1>2. QED BY <1>1, SpecIInv, PTL

\* A call that needs init succeeds only on a process that has handled it.
THEOREM SuccessMeansInitialised == Spec => []SucceedsOnlyInitialised
<1>1. IInv => SucceedsOnlyInitialised
  BY DEF IInv
<1>2. QED BY <1>1, SpecIInv, PTL

\* Crashes alone never lose the worker: a boot sequence failed, or the retry
\* of startCoreWorkerThread threw.
THEOREM CrashesDoNotLoseWorker == Spec => []LostOnlyAfterFailure
<1>1. IInv => LostOnlyAfterFailure
  BY IpcAssumption DEF IInv, TypeOK, Numbering, Exits, LostOnlyAfterFailure, Lost, Gen
<1>2. QED BY <1>1, SpecIInv, PTL

-----------------------------------------------------------------------------
(* CoreWorkerIpc implements WorkerService. *)

\* A step that leaves the processes, init and what callers are told alone.
LEMMA InvisibleStep ==
  ASSUME UNCHANGED <<child, proc, inited, call, dest>>,
         \A r \in Req : call[r] = "pending" => (work'[r] = "none" <=> work[r] = "none")
  PROVE  UNCHANGED Worker!workerVars
<1>1. \A r \in Req : Outcome(r)' = Outcome(r)
  BY DEF Outcome
<1>2. [r \in Req |-> Outcome(r)]' = [r \in Req |-> Outcome(r)]
  BY <1>1
<1>3. QED BY <1>2 DEF Worker!workerVars, Alive

\* A step that settles one call, or hands it over.
LEMMA OneCallStep ==
  ASSUME IInv, NEW r \in Req, NEW o,
         UNCHANGED <<child, proc, inited>>,
         \A q \in Req \ {r} : call'[q] = call[q] /\ work'[q] = work[q],
         Outcome(r)' = o
  PROVE  /\ [q \in Req |-> Outcome(q)]' = [[q \in Req |-> Outcome(q)] EXCEPT ![r] = o]
         /\ UNCHANGED <<child, {g \in Gen : Alive(g)}, {g \in Gen : inited[g]}>>
<1>1. \A q \in Req \ {r} : Outcome(q)' = Outcome(q)
  BY DEF Outcome
<1>2. [q \in Req |-> Outcome(q)]' = [[q \in Req |-> Outcome(q)] EXCEPT ![r] = o]
  BY <1>1
<1>3. QED BY <1>2 DEF Alive

\* The boot sequence spawns a process only when there is none, and prepares
\* only the process that is there.
LEMMA BootRefines ==
  ASSUME IInv, NEW g \in Gen,
         \/ Start \/ Spawn(g) \/ SpawnFails(g) \/ Load(g) \/ Accept(g)
         \/ InitAnswered(g) \/ MappingRead(g) \/ UpdateAnswered(g) \/ BootFails(g)
  PROVE  [Worker!WorkerNext]_(Worker!workerVars)
<1>1. CASE \/ Start \/ SpawnFails(g) \/ Accept(g) \/ MappingRead(g)
           \/ UpdateAnswered(g) \/ BootFails(g)
  BY <1>1, InvisibleStep
  DEF Start, SpawnFails, Accept, MappingRead, UpdateAnswered, BootFails, SetReady, process, request
<1>2. CASE Spawn(g)
  <2>1. /\ g = starts /\ child = starts - 1 /\ starts \in Nat
        /\ \A h \in Gen : ~Alive(h)
    <3>1. starts \in Nat /\ g \in Nat /\ boot[g] = "listen" /\ g <= starts
      BY <1>2, IpcAssumption DEF Spawn, IInv, TypeOK, Numbering, Gen
    <3>2. g = starts
      BY <3>1 DEF IInv, Numbering
    <3>3. child = starts - 1
      BY <3>1, <3>2, IpcAssumption DEF IInv, Numbering, Gen
    <3>4. ASSUME NEW h \in Gen PROVE ~Alive(h)
      <4>1. h \in Nat /\ (h < starts \/ h = starts \/ h > starts)
        BY <3>1, IpcAssumption DEF Gen
      <4>2. CASE h = g
        BY <3>1, <4>2 DEF IInv, Numbering, Alive
      <4>3. CASE h > starts
        BY <4>3 DEF IInv, Numbering, Alive
      <4>4. CASE h < starts
        BY <4>4 DEF IInv, Numbering, Alive
      <4>5. QED BY <3>2, <4>1, <4>2, <4>3, <4>4
    <3>5. QED BY <3>1, <3>2, <3>3, <3>4
  <2>2. \A h \in Gen : Alive(h)' <=> h = g
    BY <1>2, <2>1 DEF Spawn, Alive, IInv, TypeOK
  <2>3. {h \in Gen : Alive(h)} = {} /\ {h \in Gen : Alive(h)}' = {g}
    BY <2>1, <2>2
  <2>4. child' = g /\ child + 1 = g
    BY <1>2, <2>1 DEF Spawn
  <2>5. \A r \in Req : Outcome(r)' = Outcome(r)
    BY <1>2 DEF Spawn, request, Outcome
  <2>6. [r \in Req |-> Outcome(r)]' = [r \in Req |-> Outcome(r)]
    BY <2>5
  <2>7. Worker!NewProcess
    BY <1>2, <2>3, <2>4, <2>6 DEF Worker!NewProcess, Spawn, request
  <2>8. QED BY <2>7 DEF Worker!WorkerNext
<1>3. CASE Load(g)
  <2>1. \A h \in Gen : Alive(h)' <=> Alive(h)
    BY <1>3 DEF Load, Alive, IInv, TypeOK
  <2>2. {h \in Gen : Alive(h)}' = {h \in Gen : Alive(h)}
    BY <2>1
  <2>3. \A r \in Req : Outcome(r)' = Outcome(r)
    BY <1>3 DEF Load, request, Outcome
  <2>4. [r \in Req |-> Outcome(r)]' = [r \in Req |-> Outcome(r)]
    BY <2>3
  <2>5. QED BY <1>3, <2>2, <2>4 DEF Load, service, request, Worker!workerVars
<1>4. CASE InitAnswered(g)
  <2>1. g \in {h \in Gen : Alive(h)}
    BY <1>4 DEF InitAnswered, Alive
  <2>2. \A h \in Gen : inited'[h] <=> inited[h] \/ h = g
    BY <1>4 DEF InitAnswered, IInv, TypeOK
  <2>3. {h \in Gen : inited[h]}' = {h \in Gen : inited[h]} \cup {g}
    BY <2>2
  <2>4. \A r \in Req : Outcome(r)' = Outcome(r)
    BY <1>4 DEF InitAnswered, request, Outcome
  <2>5. [r \in Req |-> Outcome(r)]' = [r \in Req |-> Outcome(r)]
    BY <2>4
  <2>6. Worker!Prepare(g)
    BY <1>4, <2>1, <2>3, <2>5 DEF Worker!Prepare, InitAnswered, request, Alive
  <2>7. QED BY <2>1, <2>6 DEF Worker!WorkerNext
<1>5. QED BY <1>1, <1>2, <1>3, <1>4

\* A process that dies loses the calls it has not answered, and what the server
\* makes of its death is seen by no caller.
LEMMA EndRefines ==
  ASSUME IInv, NEW g \in Gen,
         Crash(g) \/ Terminated(g) \/ SocketClosed(g) \/ Exited(g)
  PROVE  [Worker!WorkerNext]_(Worker!workerVars)
<1>1. CASE SocketClosed(g) \/ Exited(g)
  BY <1>1, InvisibleStep DEF SocketClosed, Exited, request
<1>2. CASE Crash(g) \/ Terminated(g)
  <2> DEFINE D == {r \in Req : call[r] = "pending" /\ dest[r] = g
                              /\ work[r] \in {"sent", "asking"}}
  <2>1. PICK c \in 0 .. 1 : Alive(g) /\ Exit(g, c)
    BY <1>2 DEF Crash, Terminated
  <2>2. \A h \in Gen : Alive(h)' <=> Alive(h) /\ h # g
    BY <2>1 DEF Exit, Alive, IInv, TypeOK
  <2>3. {h \in Gen : Alive(h)}' = {h \in Gen : Alive(h)} \ {g}
    BY <2>2
  <2>4. \A r \in Req : /\ Outcome(r)' = IF r \in D THEN "lost" ELSE Outcome(r)
                       /\ r \in D => Outcome(r) = "working"
    BY <2>1 DEF Exit, Outcome
  <2>5. [r \in Req |-> Outcome(r)]' = [r \in Req |-> IF r \in D THEN "lost" ELSE Outcome(r)]
    BY <2>4
  <2>6. UNCHANGED <<child, inited, dest>>
    BY <2>1 DEF Exit, service
  <2>7. D \in SUBSET Req /\ g \in {h \in Gen : Alive(h)}
    BY <2>1
  <2>8. Worker!Die(g, D)
    <3>1. \A r \in D : r \in Req /\ dest[r] = g /\ Outcome(r) = "working"
      BY <2>4
    <3> HIDE DEF D
    <3>2. \A r \in D : [q \in Req |-> Outcome(q)][r] = "working" /\ dest[r] = g
      BY <3>1
    <3>3. [r \in Req |-> Outcome(r)]'
            = [r \in Req |-> IF r \in D THEN "lost" ELSE [q \in Req |-> Outcome(q)][r]]
      BY <2>5
    <3>4. QED BY <2>3, <2>6, <2>7, <3>2, <3>3 DEF Worker!Die
  <2>9. QED BY <2>7, <2>8 DEF Worker!WorkerNext
<1>3. QED BY <1>1, <1>2

\* A call is handed to the process the connection belongs to, and is settled by
\* what that one answered or by its timer.
LEMMA CallRefines ==
  ASSUME IInv, NEW r \in Req,
         \/ Call(r) \/ CallAgain(r) \/ Handle(r) \/ Reply(r) \/ Finish(r)
         \/ Deliver(r) \/ Timeout(r)
  PROVE  [Worker!WorkerNext]_(Worker!workerVars)
<1> USE DEF IInv, TypeOK
<1>1. CASE Handle(r) \/ Reply(r) \/ Finish(r)
  <2>1. UNCHANGED <<child, proc, inited, call, dest>>
    BY <1>1 DEF Handle, Reply, Finish, service, process
  <2>2. \A q \in Req : work'[q] = "none" <=> work[q] = "none"
    <3>1. CASE Handle(r)
      BY <3>1 DEF Handle
    <3>2. CASE Reply(r)
      BY <3>2 DEF Reply
    <3>3. CASE Finish(r)
      BY <3>3 DEF Finish
    <3>4. QED BY <1>1, <3>1, <3>2, <3>3
  <2>3. QED BY <2>1, <2>2, InvisibleStep
<1>2. CASE CallAgain(r)
  <2>1. \A q \in Req : Outcome(q)' = Outcome(q)
    BY <1>2 DEF CallAgain, Outcome
  <2>2. [q \in Req |-> Outcome(q)]' = [q \in Req |-> Outcome(q)]
    BY <2>1
  <2>3. QED BY <1>2, <2>2 DEF CallAgain, service, process, Alive, Worker!workerVars
<1>3. CASE Call(r)
  <2>1. UNCHANGED <<child, proc, inited>> /\ Outcome(r) = "idle"
    BY <1>3 DEF Call, service, process, Outcome
  <2>2. CASE call'[r] = "notready" /\ UNCHANGED <<dest, work>>
    <3>1. \A q \in Req : Outcome(q)' = Outcome(q)
      BY <1>3, <2>2 DEF Call, Outcome
    <3>2. [q \in Req |-> Outcome(q)]' = [q \in Req |-> Outcome(q)]
      BY <3>1
    <3>3. QED BY <2>1, <2>2, <3>2 DEF Alive, Worker!workerVars
  <2>3. CASE call' = [call EXCEPT ![r] = "refused"] /\ UNCHANGED <<dest, work>>
    <3>1. Outcome(r)' = "refused"
      BY <2>3 DEF Outcome
    <3>2. Worker!Refuse(r)
      BY <2>1, <2>3, <3>1, OneCallStep DEF Worker!Refuse
    <3>3. QED BY <3>2 DEF Worker!WorkerNext
  <2>4. CASE /\ ipc # 0
             /\ call' = [call EXCEPT ![r] = "pending"]
             /\ dest' = [dest EXCEPT ![r] = ipc]
             /\ work' = [work EXCEPT ![r] = IF Alive(ipc) THEN "sent" ELSE "none"]
    <3>1. ipc \in Gen /\ ipc \in 1 .. child
      BY <2>4, IpcAssumption DEF SocketIsCurrent, Gen
    <3>2. Outcome(r)' = IF ipc \in {h \in Gen : Alive(h)} THEN "working" ELSE "lost"
      BY <2>4, <3>1 DEF Outcome
    <3>3. Worker!HandOver(r, ipc)
      BY <2>1, <2>4, <3>2, OneCallStep DEF Worker!HandOver
    <3>4. QED BY <3>1, <3>3 DEF Worker!WorkerNext
  <2>5. QED BY <1>3, <2>2, <2>3, <2>4 DEF Call
<1>4. CASE Deliver(r)
  <2>1. UNCHANGED <<child, proc, inited, dest>> /\ work[r] = "answered"
    BY <1>4 DEF Deliver, service, process
  <2>2. CASE call[r] # "pending"
    BY <1>4, <2>2, InvisibleStep DEF Deliver, service, process
  <2>3. CASE call[r] = "pending"
    <3> DEFINE o == IF result[r] THEN "ok" ELSE "error"
    <3>1. Outcome(r) = "working" /\ Outcome(r)' = o
      BY <1>4, <2>1, <2>3 DEF Deliver, Outcome
    <3>2. o = "ok" /\ r \in NeedsInit => dest[r] \in {g \in Gen : inited[g]}
      BY <2>1, IpcAssumption DEF Requests, Gen
    <3>3. \A q \in Req \ {r} : call'[q] = call[q] /\ work'[q] = work[q]
      BY <1>4 DEF Deliver
    <3>4. o \in {"ok", "error", "timeout"}
      OBVIOUS
    <3> HIDE DEF o
    <3>5. Worker!Settle(r, o)
      BY <2>1, <3>1, <3>2, <3>3, <3>4, OneCallStep DEF Worker!Settle
    <3>6. QED BY <3>4, <3>5 DEF Worker!WorkerNext
  <2>4. QED BY <2>2, <2>3
<1>5. CASE Timeout(r)
  <2>1. UNCHANGED <<child, proc, inited, dest>> /\ Outcome(r) \in {"working", "lost"}
    BY <1>5 DEF Timeout, service, process, Outcome
  <2>2. Outcome(r)' = "timeout"
    BY <1>5 DEF Timeout, Outcome
  <2>3. \A q \in Req \ {r} : call'[q] = call[q] /\ work'[q] = work[q]
    BY <1>5 DEF Timeout
  <2>4. Worker!Settle(r, "timeout")
    BY <2>1, <2>2, <2>3, OneCallStep DEF Worker!Settle
  <2>5. QED BY <2>4 DEF Worker!WorkerNext
<1>6. QED BY <1>1, <1>2, <1>3, <1>4, <1>5

\* CoreWorkerService and its processes implement WorkerService, for any calls
\* and any number of starts: one process at a time, every call settled at most
\* once, by its own process or its timer, and no success without init.
THEOREM IpcImplementsWorker == Spec => ImplementsWorker
<1>1. Init => Worker!WorkerInit
  <2> SUFFICES ASSUME Init PROVE Worker!WorkerInit
    OBVIOUS
  <2>1. {g \in Gen : Alive(g)} = {} /\ {g \in Gen : inited[g]} = {}
    BY DEF Init, Alive
  <2>2. [r \in Req |-> Outcome(r)] = [r \in Req |-> "idle"]
    BY DEF Init, Outcome
  <2>3. QED BY <2>1, <2>2 DEF Init, Worker!WorkerInit
<1>2. IInv /\ [Next]_vars => [Worker!WorkerNext]_(Worker!workerVars)
  <2> SUFFICES ASSUME IInv, [Next]_vars PROVE [Worker!WorkerNext]_(Worker!workerVars)
    OBVIOUS
  <2>1. 1 \in Gen
    BY IpcAssumption DEF Gen
  <2>2. CASE Next
    BY <2>1, <2>2, BootRefines, EndRefines, CallRefines DEF Next
  <2>3. CASE UNCHANGED vars
    BY <2>3, InvisibleStep DEF vars
  <2>4. QED BY <2>2, <2>3
<1>3. QED BY <1>1, <1>2, SpecIInv, PTL DEF Spec, ImplementsWorker, Worker!WorkerSpec

=============================================================================
