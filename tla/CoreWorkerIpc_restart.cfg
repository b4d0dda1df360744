\* A boot sequence that fails kills the child, which then exits with code 0.
SPECIFICATION FairSpec
CONSTANTS
  Req = {task, analyze}
  NeedsInit = {task}
  MaxStarts = 2
\* Starts and calls are finitely many: when all are over nothing is left to do.
CHECK_DEADLOCK FALSE
INVARIANT KilledIsRestarted
