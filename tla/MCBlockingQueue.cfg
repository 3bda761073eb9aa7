\* All threads may be waiting for one another: the system may really stop.
CHECK_DEADLOCK FALSE
CONSTANTS
  t1 = t1
  t2 = t2
  t3 = t3
  Threads <- MCThreads
  MaxSize = 2
  MaxPuts = 3
SPECIFICATION Spec
INVARIANTS TypeOK NoLostWakeup ClosedQueueHoldsNobody
PROPERTIES ImplementsFifoQueue
