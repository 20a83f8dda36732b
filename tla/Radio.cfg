\* Terrain of 6 x 6 cells of 3; the battery holds two frames; a frame may pass FinishTime.
CONSTANTS
  a = a
  b = b
  c = c
  Nodes = {a, b, c}
  Broadcast = Broadcast
  Never = Never
  NoPayload = NoPayload
  SegmentSize = 1
  Setups <- MCSetups
  GridSize = 3
  Columns = 6
  Rows = 6
  TXPower = 3
  RXPower = 2
  IdlePower = 1
  InitialEnergy = 14
  BeginTime = 1
  FinishTime = 4
  StopTime = 5
  Cycles = {2}
SPECIFICATION Spec
INVARIANTS ReferencesCounted ChargedOnce EveryNeighbourHears
\* The simulation ends at StopTime.
CHECK_DEADLOCK FALSE
