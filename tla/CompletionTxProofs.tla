-------------------------- MODULE CompletionTxProofs --------------------------
(***************************************************************************)
(* Proofs about CompletionTx, for any number of calls of each kind.        *)
(***************************************************************************)
EXTENDS CompletionTx, TLAPS

\* A rollback frees exactly the rows of its transaction.
LEMMA RollBackEffect ==
  ASSUME TypeOK, NEW x \in Call, NEW end \in RolledBack, RollBack(x, end)
  PROVE  /\ pc' = [pc EXCEPT ![x] = end]
         /\ pc' \in [Call -> PC]
         /\ lock' \in [Row -> Call \cup {None}]
         /\ \A r \in Row : lock'[r] = IF lock[r] = x THEN None ELSE lock[r]
  BY DEF TypeOK, RollBack, Goto, PC, RolledBack

\* Rolling back any call keeps the invariant.
LEMMA RollBackKeeps ==
  ASSUME IInv, NEW x \in Call, NEW end \in RolledBack, RollBack(x, end),
         pc[x] # "committed", x \in Progress \cup Report => end = "aborted",
         UNCHANGED <<ended, shown, timer, told>>
  PROVE  IInv'
<1>0. TypeOK
  BY DEF IInv
<1>1. /\ pc' = [pc EXCEPT ![x] = end]
      /\ pc' \in [Call -> PC]
      /\ lock' \in [Row -> Call \cup {None}]
      /\ \A r \in Row : lock'[r] = IF lock[r] = x THEN None ELSE lock[r]
  BY <1>0, RollBackEffect
<1>2. TypeOK'
  BY <1>0, <1>1 DEF TypeOK
<1> USE DEF RolledBack
<1>3. CompleterLocks'
  BY <1>0, <1>1, CallAssumption
  DEF IInv, TypeOK, CompleterLocks, Call, Completer, First, Second, HasSecond, Row
<1>4. ReporterLocks'
  BY <1>0, <1>1, CallAssumption
  DEF IInv, TypeOK, ReporterLocks, Call, Completer, Row
<1>5. RowsEnd'
  BY <1>0, <1>1, CallAssumption DEF IInv, TypeOK, RowsEnd, Call
<1> QED
  BY <1>2, <1>3, <1>4, <1>5 DEF IInv

\* In particular one that gives way to another.
LEMMA AbortKeeps ==
  ASSUME IInv, NEW x \in Call, Abort(x), pc[x] # "committed",
         UNCHANGED <<ended, shown, timer, told>>
  PROVE  IInv'
  BY RollBackKeeps DEF Abort, RolledBack

\* A SELECT takes no row: it moves its call on, or rolls it back.
LEMMA ReadKeeps ==
  ASSUME IInv, NEW x \in Call, Read(x)
  PROVE  IInv'
<1>1. CASE Abort(x)
  BY <1>1, AbortKeeps DEF Read
<1>2. CASE ~Abort(x)
  <2>1. /\ UNCHANGED <<ended, lock, shown, timer, told>>
        /\ x \in Completer
        /\ \/ pc[x] = "ready" /\ pc' = [pc EXCEPT ![x] = "update1"]
           \/ pc[x] = "read2" /\ pc' = [pc EXCEPT ![x] = "update2"]
    BY <1>2 DEF Read, Goto
  <2>2. TypeOK'
    BY <2>1 DEF IInv, TypeOK, PC
  <2>3. CompleterLocks'
    BY <2>1 DEF IInv, TypeOK, CompleterLocks, Call
  <2>4. ReporterLocks'
    BY <2>1, CallAssumption DEF IInv, TypeOK, ReporterLocks, Call, Completer
  <2>5. RowsEnd'
    BY <2>1 DEF IInv, TypeOK, RowsEnd, Call
  <2> QED
    BY <2>2, <2>3, <2>4, <2>5 DEF IInv
<1> QED
  BY <1>1, <1>2

\* An UPDATE takes a free row that is not ended, or rolls its call back.
LEMMA UpdateKeeps ==
  ASSUME IInv, NEW x \in Call, Update(x)
  PROVE  IInv'
<1>1. CASE Abort(x)
  BY <1>1, AbortKeeps DEF Update
<1>2. CASE ~Abort(x)
  <2>1. /\ UNCHANGED <<ended, shown, timer, told>>
        /\ x \in Completer
        /\ \/ /\ pc[x] = "update1" /\ pc' = [pc EXCEPT ![x] = "tell1"]
              /\ ended[First(x)] = None /\ lock[First(x)] = None
              /\ lock' = [lock EXCEPT ![First(x)] = x]
           \/ /\ pc[x] = "update2" /\ pc' = [pc EXCEPT ![x] = "tell2"]
              /\ ended[Second(x)] = None /\ lock[Second(x)] = None
              /\ lock' = [lock EXCEPT ![Second(x)] = x]
    BY <1>2 DEF Update, Goto, Target
  <2>2. TypeOK'
    BY <2>1 DEF IInv, TypeOK, PC, Row, First, Second
  <2>3. CompleterLocks'
    BY <2>1, CallAssumption
    DEF IInv, TypeOK, CompleterLocks, Call, Completer, First, Second, HasSecond, Row
  <2>4. ReporterLocks'
    BY <2>1, CallAssumption
    DEF IInv, TypeOK, CompleterLocks, ReporterLocks, Call, Completer, Row, First,
        Second, HasSecond
  <2>5. RowsEnd'
    BY <2>1 DEF IInv, TypeOK, RowsEnd, Call, Row, First, Second
  <2> QED
    BY <2>2, <2>3, <2>4, <2>5 DEF IInv
<1> QED
  BY <1>1, <1>2

\* A broadcast changes no row.
LEMMA AnnounceKeeps ==
  ASSUME IInv, NEW x \in Call, Announce(x)
  PROVE  IInv'
<1>1. /\ UNCHANGED <<ended, lock>>
      /\ x \in Completer
      /\ \/ pc[x] = "tell1" /\ HasSecond(x) /\ pc' = [pc EXCEPT ![x] = "read2"]
         \/ pc[x] = "tell1" /\ ~HasSecond(x) /\ pc' = [pc EXCEPT ![x] = "commit"]
         \/ pc[x] = "tell2" /\ pc' = [pc EXCEPT ![x] = "commit"]
  BY DEF Announce, Goto
<1>2. TypeOK'
  <2>1. pc' \in [Call -> PC]
    BY <1>1 DEF IInv, TypeOK, PC
  <2>2. told' \in [Row -> SUBSET Completer]
    BY <1>1 DEF IInv, TypeOK, Announce
  <2>3. shown' \in {"none", "progress", "terminal"} /\ timer' \in BOOLEAN
    BY DEF IInv, TypeOK, Announce
  <2> QED
    BY <1>1, <2>1, <2>2, <2>3 DEF IInv, TypeOK
<1>3. CompleterLocks'
  BY <1>1 DEF IInv, TypeOK, CompleterLocks, Call
<1>4. ReporterLocks'
  BY <1>1, CallAssumption DEF IInv, TypeOK, ReporterLocks, Call, Completer
<1>5. RowsEnd'
  BY <1>1 DEF IInv, TypeOK, RowsEnd, Call
<1> QED
  BY <1>2, <1>3, <1>4, <1>5 DEF IInv

\* What a commit of a completion does to the two rows.
LEMMA CommitEffect ==
  ASSUME IInv, NEW x \in Call, Commit(x)
  PROVE  /\ x \in Processor \cup Hook =>
              /\ ended["inner"] = None /\ ended["runner"] = None
              /\ ended'["inner"] = x /\ ended'["runner"] = x
         /\ x \in Catch =>
              /\ ended["inner"] = None /\ ended["runner"] = None
              /\ ended'["inner"] = None /\ ended'["runner"] = x
         /\ x \notin Completer => ended' = ended
<1>1. CASE x \in Processor \cup Hook
  <2>1. lock["inner"] = x /\ lock["runner"] = x
    BY <1>1, CallAssumption
    DEF IInv, CompleterLocks, Commit, Completer, First, Second, HasSecond
  <2> QED
    BY <1>1, <2>1, CallAssumption DEF IInv, RowsEnd, TypeOK, Commit, Row, Completer, Call
<1>2. CASE x \in Catch
  <2>1. lock["inner"] # x /\ lock["runner"] = x
    BY <1>2, CallAssumption
    DEF IInv, CompleterLocks, Commit, Completer, First, Second, HasSecond
  <2>2. ended["runner"] = None
    BY <1>2, <2>1, CallAssumption DEF IInv, RowsEnd, Row, Call
  <2>3. ended["inner"] = None
    BY <2>2 DEF IInv, RowsEnd
  <2> QED
    BY <1>2, <2>1, <2>2, <2>3, CallAssumption
    DEF IInv, TypeOK, Commit, Row, Completer, Call
<1>3. CASE x \notin Completer
  <2>1. ended' = [r \in Row |-> ended[r]]
    BY <1>3 DEF Commit
  <2>2. ended = [r \in Row |-> ended[r]]
    BY DEF IInv, TypeOK
  <2>3. x \notin Processor \cup Hook /\ x \notin Catch
    BY <1>3 DEF Completer
  <2> QED
    BY <2>1, <2>2, <2>3
<1> QED
  BY <1>1, <1>2, <1>3 DEF Completer

\* A commit ends every row its call holds.
LEMMA CommitKeeps ==
  ASSUME IInv, NEW x \in Call, Commit(x)
  PROVE  IInv'
<1>1. /\ pc[x] = "commit"
      /\ pc' = [pc EXCEPT ![x] = "committed"]
      /\ \A r \in Row : lock'[r] = IF lock[r] = x THEN None ELSE lock[r]
      /\ lock' \in [Row -> Call \cup {None}]
      /\ UNCHANGED <<shown, timer, told>>
  BY DEF IInv, TypeOK, Commit, Goto
<1>2. TypeOK'
  <2>1. pc' \in [Call -> PC]
    BY <1>1 DEF IInv, TypeOK, PC
  <2>2. ended' \in [Row -> Completer \cup {None}]
    BY DEF IInv, TypeOK, Commit
  <2> QED
    BY <1>1, <2>1, <2>2 DEF IInv, TypeOK
<1>3. CompleterLocks'
  BY <1>1, CallAssumption
  DEF IInv, TypeOK, CompleterLocks, Call, Completer, First, Second, HasSecond, Row
<1>4. ReporterLocks'
  BY <1>1, CallAssumption
  DEF IInv, TypeOK, ReporterLocks, Call, Completer, Row
<1>5. RowsEnd'
  <2>1. ASSUME NEW r \in Row, lock'[r] # None
        PROVE  ended'[r] = None
    BY <1>1, <2>1 DEF IInv, TypeOK, RowsEnd, Commit
  <2>2. ASSUME NEW r \in Row, ended'[r] # None
        PROVE  pc'[ended'[r]] = "committed"
    BY <1>1, <2>2 DEF IInv, TypeOK, RowsEnd, Commit, Call
  <2>3. ended'["inner"] # None => ended'["runner"] = ended'["inner"]
    BY CommitEffect DEF IInv, RowsEnd, Completer
  <2> QED
    BY <2>1, <2>2, <2>3 DEF RowsEnd
<1> QED
  BY <1>2, <1>3, <1>4, <1>5 DEF IInv

\* Progress reports end no row.
LEMMA ProgressKeeps ==
  ASSUME IInv, NEW x \in Call, ProgressWrite(x) \/ ProgressTell(x)
  PROVE  IInv'
<1>1. /\ UNCHANGED <<ended, shown, told>>
      /\ x \in Progress \cup Report
      /\ timer' \in BOOLEAN
      /\ \/ /\ pc[x] = "ready" /\ pc' = [pc EXCEPT ![x] = "tell1"]
            /\ lock["inner"] = None /\ ended["inner"] = None
            /\ x \in Progress
            /\ lock' = [lock EXCEPT !["inner"] = x]
         \/ /\ pc[x] = "ready" /\ pc' = [pc EXCEPT ![x] = "tell1"]
            /\ x \notin Progress /\ UNCHANGED lock
         \/ /\ pc[x] = "ready" /\ pc' = [pc EXCEPT ![x] = "aborted"]
            /\ UNCHANGED lock
         \/ /\ pc[x] = "tell1" /\ pc' = [pc EXCEPT ![x] = "commit"]
            /\ x \in Progress /\ UNCHANGED lock
         \/ /\ pc[x] = "tell1" /\ pc' = [pc EXCEPT ![x] = "committed"]
            /\ x \notin Progress /\ UNCHANGED lock
  <2>1. CASE ProgressWrite(x)
    BY <2>1 DEF ProgressWrite, Goto, IInv, TypeOK
  <2>2. CASE ProgressTell(x)
    BY <2>2 DEF ProgressTell, Goto
  <2> QED
    BY <2>1, <2>2
<1>2. TypeOK'
  BY <1>1 DEF IInv, TypeOK, PC, Row
<1>3. CompleterLocks'
  BY <1>1, CallAssumption
  DEF IInv, TypeOK, CompleterLocks, Call, Completer, First, Second, HasSecond, Row
<1>4. ReporterLocks'
  BY <1>1, CallAssumption DEF IInv, TypeOK, ReporterLocks, Call, Completer, Row
<1>5. RowsEnd'
  BY <1>1, CallAssumption DEF IInv, TypeOK, RowsEnd, Call, Completer, Row
<1> QED
  BY <1>2, <1>3, <1>4, <1>5 DEF IInv

\* Every statement of the completion and progress transactions keeps IInv.
LEMMA NextKeepsIInv ==
  IInv /\ [Next]_vars => IInv'
<1> SUFFICES ASSUME IInv, [Next]_vars PROVE IInv'
  OBVIOUS
<1>1. CASE UNCHANGED vars
  BY <1>1
  DEF vars, IInv, TypeOK, CompleterLocks, ReporterLocks, RowsEnd
<1>2. CASE TimerFires
  BY <1>2
  DEF TimerFires, IInv, TypeOK, CompleterLocks, ReporterLocks, RowsEnd
<1>3. ASSUME NEW x \in Call, Step(x) PROVE IInv'
  <2>1. CASE HandlerThrows(x)
    <3>1. x \notin Progress \cup Report
      BY <2>1, CallAssumption DEF HandlerThrows, Completer
    <3> QED
      BY <2>1, <3>1, RollBackKeeps DEF HandlerThrows, RolledBack
  <2>2. CASE DeadlockDetected(x)
    BY <2>2, AbortKeeps DEF DeadlockDetected, Deadlocked, Waits
  <2> QED
    BY <1>3, <2>1, <2>2, ReadKeeps, UpdateKeeps, AnnounceKeeps, CommitKeeps,
       ProgressKeeps
    DEF Step
<1> QED
  BY <1>1, <1>2, <1>3 DEF Next

\* Before the first statement no row is held or ended.
LEMMA InitIInv == Init => IInv
<1> SUFFICES ASSUME Init PROVE IInv
  OBVIOUS
<1>1. TypeOK
  BY DEF Init, TypeOK, PC
<1>2. CompleterLocks
  BY CallAssumption
  DEF Init, CompleterLocks, Row, First, Second, HasSecond, Call, Completer
<1>3. ReporterLocks
  BY CallAssumption DEF Init, ReporterLocks, Row, Call
<1>4. RowsEnd
  BY DEF Init, RowsEnd, Row
<1> QED
  BY <1>1, <1>2, <1>3, <1>4 DEF IInv

\* The invariant holds of every behaviour, whatever the calls.
THEOREM SpecIInv == Spec => []IInv
  BY InitIInv, NextKeepsIInv, PTL DEF Spec

\* registerTaskCompleted's transactions, of the processor, of any number of
\* hooks and of the catch, end an attempt once and end its two rows together.
THEOREM CompletionIsAtomic == Spec => EndsOnceTogether
<1> DEFINE A == ended' # ended =>
       /\ ended["runner"] = None
       /\ ended["inner"] = None
       /\ \E x \in Completer :
            /\ ended'["runner"] = x
            /\ ended'["inner"] = IF x \in Catch THEN None ELSE x
<1>1. IInv /\ [Next]_vars => [A]_vars
  <2> SUFFICES ASSUME IInv, Next, ended' # ended PROVE A
    BY DEF vars
  <2>1. PICK x \in Call : Commit(x)
    BY DEF Next, TimerFires, Step, Read, Update, HandlerThrows, Announce,
           ProgressWrite, ProgressTell, DeadlockDetected
  <2>2. x \in Completer
    BY <2>1, CommitEffect
  <2> QED
    BY <2>1, <2>2, CommitEffect, CallAssumption DEF Completer
<1> QED
  BY <1>1, SpecIInv, PTL DEF Spec, EndsOnceTogether

\* The transactions, statement by statement, end the attempt as TaskPipeline's
\* completion step does: both implement AttemptEnd.
THEOREM TxImplementsAttemptEnd == Spec => ImplementsAttemptEnd
<1> DEFINE inner == {a \in {"attempt"} : ended["inner"] # None}
           closed == {a \in {"attempt"} : ended["runner"] # None}
<1>1. Init => AttemptEnds!EndInit
  BY DEF Init, Row, AttemptEnds!EndInit
<1>2. ASSUME IInv, [Next]_vars
      PROVE  [AttemptEnds!EndNext]_AttemptEnds!endVars
  <2>1. CASE ended' = ended
    BY <2>1 DEF AttemptEnds!endVars
  <2>2. CASE ended' # ended
    <3>1. PICK x \in Call : Commit(x)
      BY <1>2, <2>2
      DEF vars, Next, TimerFires, Step, Read, Update, HandlerThrows, Announce,
          ProgressWrite, ProgressTell, DeadlockDetected
    <3>2. x \in Completer /\ x # None
      BY <1>2, <2>2, <3>1, CommitEffect, CallAssumption
    <3>3. /\ inner = {} /\ closed = {} /\ closed' = {"attempt"}
          /\ inner' = IF x \in Catch THEN {} ELSE {"attempt"}
      BY <1>2, <3>1, <3>2, CommitEffect, CallAssumption DEF Completer
    <3>4. AttemptEnds!EndTogether("attempt") \/ AttemptEnds!EndRunnerAlone("attempt")
      BY <3>3 DEF AttemptEnds!EndTogether, AttemptEnds!EndRunnerAlone
    <3> QED
      BY <3>4 DEF AttemptEnds!EndNext
  <2> QED
    BY <2>1, <2>2
<1> QED
  BY <1>1, <1>2, SpecIInv, PTL
  DEF Spec, ImplementsAttemptEnd, AttemptEnds!EndSpec

\* A completion gives way only to another one: the processor, the hooks and the
\* catch of an attempt that is not ended are never all rolled back because of
\* each other.
THEOREM NoMutualAbort == Spec => []AbortHasWinner
<1>1. Init => AbortHasWinner
  BY DEF Init, AbortHasWinner, Call, Completer
<1>2. IInv /\ AbortHasWinner /\ [Next]_vars => AbortHasWinner'
  <2> SUFFICES ASSUME IInv, AbortHasWinner, [Next]_vars,
                      NEW z \in Completer, pc'[z] = "aborted", ended'["runner"] = None
               PROVE  \E y \in Completer \ {z} : Contends(y)'
    BY DEF AbortHasWinner
  <2> USE DEF IInv, TypeOK, Contends
  <2>a. pc[z] = "aborted" /\ ended["runner"] = None
          => \E y \in Completer \ {z} : Contends(y)
    BY DEF AbortHasWinner
  <2>1. CASE TimerFires \/ UNCHANGED vars
    BY <2>1, <2>a DEF TimerFires, vars
  <2>2. ASSUME NEW x \in Call, Step(x)
        PROVE  \E y \in Completer \ {z} : Contends(y)'
    <3>1. z \in Call
      BY DEF Call
    \* A step that leaves its call under way.
    <3>2. ASSUME NEW q \in PC \ {"ready", "aborted", "committed"},
                 pc' = [pc EXCEPT ![x] = q], ended' = ended
          PROVE  \E y \in Completer \ {z} : Contends(y)'
      <4>1. pc[z] = "aborted" /\ z # x
        BY <3>1, <3>2
      <4>2. PICK y \in Completer \ {z} : Contends(y)
        BY <2>a, <3>2, <4>1
      <4> QED
        BY <3>2, <4>2 DEF Call
    \* A call that finds a row ended: the runner is.
    <3>3. ASSUME NEW r \in Row, ended[r] # None, ended' = ended
          PROVE  FALSE
      BY <3>3 DEF RowsEnd, Row
    <3>4. ASSUME x \notin Completer, NEW q \in PC, pc' = [pc EXCEPT ![x] = q], ended' = ended
          PROVE  \E y \in Completer \ {z} : Contends(y)'
      BY <2>a, <3>1, <3>4 DEF Call
    <3>5. CASE Read(x)
      <4>1. CASE Abort(x)
        <5>1. First(x) \in Row /\ Second(x) \in Row
          BY DEF First, Second, Row
        <5>2. \E r \in Row : ended[r] # None
          BY <3>5, <4>1, <5>1 DEF Read, Abort, RollBack, Goto
        <5> QED
          BY <3>3, <3>5, <5>2 DEF Read
      <4>2. CASE ~Abort(x)
        BY <3>2, <3>5, <4>2 DEF Read, Goto, PC
      <4> QED
        BY <4>1, <4>2
    <3>6. CASE Update(x)
      <4>1. CASE Abort(x)
        <5>1. Target(x) \in Row
          BY DEF Target, First, Second, Row
        <5>2. ended[Target(x)] # None
          BY <3>6, <4>1 DEF Update, Abort, RollBack, Goto
        <5> QED
          BY <3>3, <3>6, <5>1, <5>2 DEF Update
      <4>2. CASE ~Abort(x)
        BY <3>2, <3>6, <4>2 DEF Update, Goto, PC
      <4> QED
        BY <4>1, <4>2
    <3>7. CASE Announce(x)
      BY <3>2, <3>7 DEF Announce, Goto, PC
    <3>8. CASE Commit(x)
      <4>1. x \notin Completer
        BY <3>8, CommitEffect, CallAssumption DEF Completer, Call
      <4>2. ended' = ended
        BY <3>8, <4>1, CommitEffect
      <4> QED
        BY <3>4, <3>8, <4>1, <4>2 DEF Commit, Goto, PC
    <3>9. CASE ProgressWrite(x) \/ ProgressTell(x)
      <4>1. x \notin Completer
        BY <3>9, CallAssumption DEF ProgressWrite, ProgressTell, Completer
      <4> QED
        BY <3>4, <3>9, <4>1 DEF ProgressWrite, ProgressTell, Goto, PC
    \* The other one of two deadlocked calls goes on.
    <3>10. CASE DeadlockDetected(x)
      <4>1. PICK y \in Completer \ {x} : pc[y] \in {"update1", "update2"}
        BY <3>10 DEF DeadlockDetected, Deadlocked, Waits
      <4>2. y # z /\ pc'[y] = pc[y]
        BY <3>1, <3>10, <4>1 DEF DeadlockDetected, Abort, RollBack, Goto, Call
      <4> QED
        BY <4>1, <4>2
    <3>11. CASE HandlerThrows(x)
      BY <3>2, <3>11 DEF HandlerThrows, RollBack, Goto, PC
    <3> QED
      BY <2>2, <3>5, <3>6, <3>7, <3>8, <3>9, <3>10, <3>11 DEF Step
  <2> QED
    BY <2>1, <2>2 DEF Next
<1> QED
  BY <1>1, <1>2, SpecIInv, PTL DEF Spec

\* A report over the app socket that got past its UPDATE stays past it.
LEMMA ReportedStays ==
  ASSUME IInv, [Next]_vars, Reported
  PROVE  Reported'
<1>1. PICK y \in Report : pc[y] \in {"tell1", "committed"}
  BY DEF Reported
<1>2. y \in Call /\ y \notin Completer
  BY CallAssumption DEF Call, Completer
<1>3. CASE UNCHANGED vars
  BY <1>1, <1>3 DEF vars, Reported
<1>4. CASE TimerFires
  BY <1>1, <1>4 DEF TimerFires, Reported
<1>5. ASSUME NEW x \in Call, Step(x) PROVE pc'[y] \in {"tell1", "committed"}
  <2>1. CASE x # y
    BY <1>1, <1>2, <1>5, <2>1
    DEF IInv, TypeOK, Step, Read, Update, HandlerThrows, Announce, Commit, ProgressWrite,
        ProgressTell, DeadlockDetected, Abort, RollBack, Goto
  <2>2. CASE x = y
    BY <1>1, <1>2, <1>5, <2>2, CallAssumption
    DEF IInv, TypeOK, Step, Read, Update, HandlerThrows, Announce, Commit, ProgressWrite,
        ProgressTell, DeadlockDetected, Abort, RollBack, Goto
  <2> QED
    BY <2>1, <2>2
<1> QED
  BY <1>1, <1>3, <1>4, <1>5 DEF Next, Reported

\* No progress frame follows the terminal frame of an ended task, as long as no
\* report over the app socket got past its UPDATE.
THEOREM TerminalFrameIsLast == Spec => []TerminalFrameLast
<1> DEFINE FInv == AnnouncedFrame /\ TerminalFrameLast
<1>1. Init => FInv
  BY DEF Init, AnnouncedFrame, TerminalFrameLast, Row, Call, Completer
<1>2. IInv /\ FInv /\ [Next]_vars => FInv'
  <2> SUFFICES ASSUME IInv, FInv, [Next]_vars PROVE FInv'
    OBVIOUS
  <2>0. CASE Reported'
    BY <2>0 DEF AnnouncedFrame, TerminalFrameLast
  <2> SUFFICES ASSUME ~Reported' PROVE FInv'
    BY <2>0
  <2>n. ~Reported
    BY ReportedStays
  <2> USE <2>n DEF IInv, TypeOK
  <2>1. CASE UNCHANGED vars
    BY <2>1 DEF vars, AnnouncedFrame, TerminalFrameLast
  <2>2. CASE TimerFires
    BY <2>2 DEF TimerFires, AnnouncedFrame, TerminalFrameLast
  <2>3. ASSUME NEW x \in Call, Step(x) PROVE FInv'
    <3>1. CASE \E end \in RolledBack : RollBack(x, end) /\ UNCHANGED <<ended, shown, timer, told>>
      BY <3>1 DEF RollBack, RolledBack, Goto, AnnouncedFrame, TerminalFrameLast, Call, Completer
    <3>2. CASE Read(x) /\ ~Abort(x)
      BY <3>2 DEF Read, Goto, AnnouncedFrame, TerminalFrameLast, Call, Completer
    <3>3. CASE Update(x) /\ ~Abort(x)
      BY <3>3 DEF Update, Goto, AnnouncedFrame, TerminalFrameLast, Call, Completer
    <3>4. CASE Announce(x)
      BY <3>4, CallAssumption
      DEF Announce, Goto, Target, First, Second, HasSecond, AnnouncedFrame,
          TerminalFrameLast, CompleterLocks, Call, Completer
    <3>5. CASE Commit(x)
      <4>1. AnnouncedFrame'
        BY <3>5 DEF Commit, Goto, AnnouncedFrame, Call, Completer
      <4>2. TerminalFrameLast'
        BY <3>5, CommitEffect, CallAssumption
        DEF Commit, AnnouncedFrame, TerminalFrameLast, Completer
      <4> QED
        BY <4>1, <4>2
    <3>6. CASE ProgressWrite(x)
      BY <3>6, CallAssumption
      DEF ProgressWrite, Goto, AnnouncedFrame, TerminalFrameLast, Call, Completer
    \* The report holds the inner row, so no completion has announced it.
    <3>7. CASE ProgressTell(x)
      <4>1. x \in Progress /\ lock["inner"] = x
        BY <3>7 DEF ProgressTell, ReporterLocks, Reported
      <4>2. ended["inner"] = None
        BY <4>1, CallAssumption DEF RowsEnd, Row, Call
      <4>3. \A y \in Processor \cup Hook : lock["inner"] # y
        BY <4>1, CallAssumption
      <4>4. /\ \A y \in Processor : pc[y] \notin {"read2", "update2", "tell2", "commit"}
            /\ \A y \in Hook : pc[y] # "commit"
        BY <4>3, CallAssumption
        DEF CompleterLocks, Completer, First, Second, HasSecond
      <4> QED
        BY <3>7, <4>1, <4>2, <4>4, CallAssumption
        DEF ProgressTell, Goto, AnnouncedFrame, TerminalFrameLast, Call, Completer
    <3> QED
      BY <2>3, <3>1, <3>2, <3>3, <3>4, <3>5, <3>6, <3>7
      DEF Step, Read, Update, HandlerThrows, DeadlockDetected, Abort, RolledBack
  <2> QED
    BY <2>1, <2>2, <2>3 DEF Next
<1>3. FInv => TerminalFrameLast
  OBVIOUS
<1> QED
  BY <1>1, <1>2, <1>3, SpecIInv, PTL DEF Spec

\* Apart from the announcements of calls that are rolled back later, the end of
\* a row is announced once, by the call that ended it.
THEOREM AnnouncedByItsEnder == Spec => []AnnouncedOnce
<1>1. Init => ToldInv
  BY CallAssumption DEF Init, ToldInv, Row, Call, Completer
<1>2. IInv /\ ToldInv /\ [Next]_vars => ToldInv'
  <2> SUFFICES ASSUME IInv, ToldInv, [Next]_vars PROVE ToldInv'
    OBVIOUS
  <2> USE DEF IInv, TypeOK
  <2>1. CASE UNCHANGED vars
    BY <2>1 DEF vars, ToldInv, Target
  <2>2. CASE TimerFires
    BY <2>2 DEF TimerFires, ToldInv, Target
  <2>3. ASSUME NEW x \in Call, Step(x) PROVE ToldInv'
    <3> SUFFICES ASSUME NEW r \in Row, NEW y \in Completer
                 PROVE  /\ y \in told'[r] => lock'[r] = y \/ ended'[r] = y \/ pc'[y] \in RolledBack
                        /\ \/ y \in told'[r]
                           \/ lock'[r] # y /\ ended'[r] # y
                           \/ lock'[r] = y /\ pc'[y] \in {"tell1", "tell2"} /\ Target(y)' = r
      BY DEF ToldInv
    <3>0. y \in Call /\ y # None
      BY CallAssumption DEF Call
    <3>a. /\ y \in told[r] => lock[r] = y \/ ended[r] = y \/ pc[y] \in RolledBack
          /\ \/ y \in told[r]
             \/ lock[r] # y /\ ended[r] # y
             \/ lock[r] = y /\ pc[y] \in {"tell1", "tell2"} /\ Target(y) = r
      BY DEF ToldInv
    <3>b. ended[r] = y => pc[y] = "committed"
      BY <3>0 DEF RowsEnd
    <3>1. CASE \E end \in RolledBack : RollBack(x, end) /\ UNCHANGED <<ended, shown, timer, told>>
      BY <3>0, <3>1, <3>a, <3>b DEF RollBack, RolledBack, Goto, Target
    <3>2. CASE Read(x) /\ ~Abort(x)
      BY <3>0, <3>2, <3>a DEF Read, Goto, Target, RolledBack
    <3>3. CASE Update(x) /\ ~Abort(x)
      BY <3>0, <3>3, <3>a DEF Update, Goto, Target, RolledBack
    <3>4. CASE Announce(x)
      <4>1. lock[Target(x)] = x
        BY <3>4 DEF Announce, Target, CompleterLocks
      <4> QED
        BY <3>0, <3>4, <3>a, <4>1 DEF Announce, Goto, Target, RolledBack
    <3>5. CASE Commit(x)
      <4>1. lock[r] = x => ended[r] = None
        BY CallAssumption DEF RowsEnd, Call
      <4>2. y # x => pc'[y] = pc[y] /\ Target(y)' = Target(y)
        BY <3>0, <3>5 DEF Commit, Goto, Target
      <4>3. y = x => pc[y] \notin {"tell1", "tell2"}
        BY <3>5 DEF Commit
      <4> QED
        BY <3>0, <3>5, <3>a, <4>1, <4>2, <4>3 DEF Commit, RolledBack
    <3>6. CASE ProgressWrite(x)
      BY <3>0, <3>6, <3>a, CallAssumption DEF ProgressWrite, Goto, Target, Completer, RolledBack
    <3>7. CASE ProgressTell(x)
      BY <3>0, <3>7, <3>a, CallAssumption DEF ProgressTell, Goto, Target, Completer, RolledBack
    <3> QED
      BY <2>3, <3>1, <3>2, <3>3, <3>4, <3>5, <3>6, <3>7
      DEF Step, Read, Update, HandlerThrows, DeadlockDetected, Abort, RolledBack
  <2> QED
    BY <2>1, <2>2, <2>3 DEF Next
<1>3. IInv /\ ToldInv => AnnouncedOnce
  <2> SUFFICES ASSUME IInv, ToldInv, NEW r \in Row, ended[r] # None
               PROVE  /\ ended[r] \in told[r]
                      /\ \A x \in told[r] \ {ended[r]} : pc[x] \in RolledBack
    BY DEF AnnouncedOnce
  <2>1. ended[r] \in Completer /\ told[r] \subseteq Completer
    BY DEF IInv, TypeOK
  <2>2. lock[r] = None
    BY DEF IInv, RowsEnd
  <2>3. \A x \in Completer : x # None
    BY CallAssumption DEF Call
  <2> QED
    BY <2>1, <2>2, <2>3 DEF ToldInv
<1> QED
  BY <1>1, <1>2, <1>3, SpecIInv, PTL DEF Spec
=============================================================================
