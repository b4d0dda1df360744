\* A direct request that has timed out, and a streaming one whose headers arrive
\* before the next chunk of the first.
SPECIFICATION Spec
CONSTANTS
  Direct = {d}
  Streaming = {e}
  Socket = {h}
  HasBody = {d}
  Client = {c}
  Ephemeral = TRUE
  MaxConcurrent = 2
  MaxTeardowns = 1
  None = None
INVARIANT BodyIsItsOwn
\* Requests and teardowns are finitely many: when all are over nothing is left to do.
CHECK_DEADLOCK FALSE
