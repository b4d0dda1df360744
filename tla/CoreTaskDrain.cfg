\* Two calls in flight and three rows, two to a batch: one row is left over, so
\* that calls repeat themselves.
SPECIFICATION FairSpec
CONSTANTS
  CoreTask = {t1, t2, t3}
  Caller = {c1, c2}
  Limit = 2
  None = None
INVARIANTS
  OneDrain
  NotStartedDuringDrain
  CountMatchesRunning
PROPERTIES
  ImplementsSerialDrain
  DueTaskStarts
