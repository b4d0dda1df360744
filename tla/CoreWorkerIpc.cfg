\* Two starts: a late boot sequence of the first meets the process of the second.
\* One call that needs init and one that does not.
SPECIFICATION FairSpec
CONSTANTS
  Req = {task, analyze}
  NeedsInit = {task}
  MaxStarts = 2
\* Starts and calls are finitely many: when all are over nothing is left to do.
CHECK_DEADLOCK FALSE
INVARIANTS
  OneProcess
  SocketIsCurrent
  ReadyIsServed
  LostOnlyAfterFailure
PROPERTIES
  EveryRequestSettles
  CrashedIsReplaced
  ImplementsWorker
