\* Three events over two windows; the delivery windows and the ceiling on
\* requeues are the smallest the assumptions allow.
SPECIFICATION FairSpec
CONSTANTS
  Event = {e1, e2, e3}
  Window = 2
  Slack = 1
  Debounce = 3
  MaxInterval = 3
  MaxRequeues = 1
  MinDelay = 1
  DeliveryWindow = 1
  LastEmit = 3
  MaxTime = 4
INVARIANT EventHasTask
INVARIANT NotifiedOnce
INVARIANT RequeuesBounded
PROPERTY EveryEventNotified
PROPERTY ImplementsDelivery
CHECK_DEADLOCK FALSE
