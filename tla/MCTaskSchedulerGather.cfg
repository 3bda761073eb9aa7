\* After an exception has left Task.run every later call of it is refused: the
\* system may really stop.
CHECK_DEADLOCK FALSE
CONSTANTS
  MaxTasks = 4
  MaxPeriods = 2
  MaxChildren = 2
  MaxLinks = 3
SPECIFICATION Spec
INVARIANT GatherCompletes
