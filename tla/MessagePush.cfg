SPECIFICATION Spec
CONSTANTS
  Messages = {1, 2}
  Copies <- CopiesInTwoMailboxes
  HighestUid <- TwoUids
  None = None
  MaxCommands = 3
  MaxFaults = 1
  MaxForeign = 1
CHECK_DEADLOCK FALSE
INVARIANTS MoveIsExact
PROPERTIES QueueOrderIsKept QueueDrains
