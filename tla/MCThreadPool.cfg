CONSTANTS
  u1 = u1
  u2 = u2
  Users <- MCUsers
  MaxWorkers = 2
  MaxPuts = 3
  MaxSize = 0
SPECIFICATION Spec
INVARIANTS EveryJobHasOnePlace RunOrCancelled
PROPERTIES ShutdownCompletes WorkGetsDone
