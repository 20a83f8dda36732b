CONSTANTS
  s = s
  a = a
  b = b
  d = d
  Nodes = {s, a, b, d}
  Scenarios <- FloodScenarios
  Broadcast = Broadcast
  Nothing = Nothing
  Unset = Unset
  Protocols = {"Flooding", "AODVI", "AODVII", "DSRI"}
  TimeToLive = 3
  MaxRepairTTL = 5
  MinRepairTTL = 2
  LocalAddTTL = 2
  Window = 8
  Width = 32
  Junk = {0, 7}
  MaxLosses = 1
  MaxRequests = 2
  MaxResend = 1
  NumT2Slots = 1
  NumT3Slots = 1
  Unindexed = 3
SPECIFICATION NetSpec
INVARIANT RequestsAreFlooded
\* The simulation ends when nothing is left to do.
CHECK_DEADLOCK FALSE
