CONSTANTS
  c1 = c1
  c2 = c2
  c3 = c3
  Clients <- MCClients
  Holders <- MCHolders
  MaxStrong = 1
  MaxWeak = 1
\* The thread has ended and its state has been released, or the last handle has
\* been dropped: nothing is left to do.
CHECK_DEADLOCK FALSE
SPECIFICATION LifetimesSpec
INVARIANTS TypesAndCounts FreedOnlyWhenUnused OneNativeThread HandlesKeepAlive NothingLeaks
PROPERTIES CallsReturn
