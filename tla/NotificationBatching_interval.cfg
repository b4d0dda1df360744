\* maxIntervalSeconds against events that keep coming.
SPECIFICATION Spec
CONSTANTS
  Event = {e1, e2, e3}
  Window = 2
  Slack = 1
  Debounce = 3
  MaxInterval = 6
  MaxRequeues = 16
  MinDelay = 1
  DeliveryWindow = 1
  LastEmit = 6
  MaxTime = 8
PROPERTY MaxIntervalFlushes
CHECK_DEADLOCK FALSE
