\* A thread that waits without a timeout and is never notified stays in wait:
\* the system may really stop.
CHECK_DEADLOCK FALSE
CONSTANTS
  t1 = t1
  t2 = t2
  t3 = t3
  Threads <- MCThreads
  NoThread = NoThread
  MaxDepth = 2
  MaxNotify = 2
SYMMETRY Symmetry
SPECIFICATION Spec
INVARIANTS TypeOK FreedOnlyWhenUnused
PROPERTIES WaitRestoresLevels NotifyReachesTheParked
