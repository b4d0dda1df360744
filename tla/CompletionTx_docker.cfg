\* A docker attempt: its failing dispatch and the catch, the completion hooks of
\* the job and of its cancellation, two progress reports in transactions and one
\* over the app socket.  The handlers of any completion may throw.
SPECIFICATION FairSpec
CONSTANTS
  Processor = {p}
  Hook = {h1, h2}
  Catch = {c}
  Progress = {g1, g2}
  Report = {g3}
  None = None
  p = p
  h1 = h1
  h2 = h2
  c = c
  g1 = g1
  g2 = g2
  g3 = g3
INVARIANTS
  AbortHasWinner
  TerminalFrameLast
  AnnouncedOnce
PROPERTIES
  ImplementsAttemptEnd
  EndsOnceTogether
  EveryCallEnds
\* The calls are finitely many: when all are over nothing is left to do.
CHECK_DEADLOCK FALSE
