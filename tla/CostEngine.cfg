CONSTANTS
  Nil = Nil
  None = None
  timer = timer
  Plain = {timer}
  Events <- MCEvents
  Second = 2
  Widths = {1, 3}
  Sample = 1
  BucketCounts = {1, 8}
  MaxTop = 45
  MaxMulti = 2
  MaxSlots = 2
  Delays = {0, 3}
  Stop = 4
  ClearStats = 2
SPECIFICATION Spec
INVARIANTS ActiveIsQueued SlotsAccounted
PROPERTIES QueueSpec
CHECK_DEADLOCK FALSE
