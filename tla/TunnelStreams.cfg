\* A direct, a streaming and a client's request on an ephemeral session with two
\* slots; the direct one has a body.
SPECIFICATION FairSpec
CONSTANTS
  Direct = {d}
  Streaming = {e}
  Socket = {h}
  HasBody = {d}
  Client = {c}
  Ephemeral = TRUE
  MaxConcurrent = 2
  MaxTeardowns = 1
  None = None
INVARIANTS SlotsExact ResponseComplete StrayIsAbandoned GoneIsEmpty GraceIsIdle
PROPERTIES ImplementsService LimitedRequestSettles DeadAgentEndsAll
\* Requests and teardowns are finitely many: when all are over nothing is left to do.
CHECK_DEADLOCK FALSE
