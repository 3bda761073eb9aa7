CONSTANTS
  t1 = t1
  t2 = t2
  t3 = t3
  Threads <- MCThreads
  NoThread = NoThread
  MaxDepth = 2
SPECIFICATION Spec
INVARIANTS NoLostWakeup
PROPERTIES ImplementsReentrantLock
