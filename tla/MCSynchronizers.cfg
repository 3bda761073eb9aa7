CONSTANTS
  Threads <- MCThreads
  NoThread = NoThread
  t1 = t1
  t2 = t2
  t3 = t3
  MaxInitial = 2
  MaxRelease = 2
  MaxValue = 3
  NoLimit = NoLimit
  MaxParties = 3
  MaxRounds = 2
  NoValue = NoValue
\* Threads may wait for a lock that they hold themselves, for a permit,
\* a set, a party or a result that never comes: the system may really stop.
CHECK_DEADLOCK FALSE
SPECIFICATION SynchronizersSpec
INVARIANTS TypesAndCounts NoLostWakeup NoLostPermit OneOutcome
PROPERTIES HandoverOnlyThroughRelease OnlyFullRoundsPass WaitsEnd
