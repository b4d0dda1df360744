\* A task that asks for a requeue at its last attempt.
SPECIFICATION Spec
CONSTANTS
  a = a
  b = b
  c = c
  d = d
  e = e
  None = None
  Task = {a}
  DockerTask = {}
  Root = {a}
  OnComplete <- NoHandlers
  MaxAttempts = 1
  DrainLimit = 10
PROPERTIES
  NullSuccessIsRequeue
