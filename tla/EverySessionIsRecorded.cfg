SPECIFICATION Spec
CONSTANTS
  Sessions = {1, 2, 3}
  MaxCrashes = 1
CHECK_DEADLOCK FALSE
INVARIANT EverySessionIsRecorded
