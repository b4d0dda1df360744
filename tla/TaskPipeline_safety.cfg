\* A serverless and a docker task with a docker and two serverless children, two
\* drained rows at a time, so that selected rows and late hooks interleave.
SPECIFICATION Spec
CONSTANTS
  a = a
  b = b
  c = c
  d = d
  e = e
  None = None
  Task = {a, b, c, d, e}
  DockerTask = {b, c}
  Root = {a, b}
  OnComplete <- Handlers
  MaxAttempts = 1
  DrainLimit = 2
INVARIANTS
  OneLiveRunner
  RunningHasRunner
  WaitingHasRunner
  ServerlessOwnsAttempt
  HandlersMatchCompletion
PROPERTIES
  ImplementsSerialDrain
  ImplementsAttemptEnd
  ImplementsLifecycle
