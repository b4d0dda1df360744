\* A requeued attempt whose handler's child already exists.
SPECIFICATION Spec
CONSTANTS
  a = a
  b = b
  c = c
  d = d
  e = e
  None = None
  Task = {a, c}
  DockerTask = {}
  Root = {a}
  OnComplete <- Handlers
  MaxAttempts = 1
  DrainLimit = 10
INVARIANTS
  CompletedTogether
