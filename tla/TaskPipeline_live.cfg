\* Crash-free fair runs: a docker task that races its dispatcher must not
\* keep the drain from a serverless one.
SPECIFICATION FairSpec
CONSTANTS
  a = a
  b = b
  c = c
  d = d
  e = e
  None = None
  Task = {a, b}
  DockerTask = {b}
  Root = {a, b}
  OnComplete <- NoHandlers
  MaxAttempts = 2
  DrainLimit = 1
PROPERTIES
  RuntimeTaskSettles
