CONSTANTS
  a = a
  b = b
  c = c
  Stations = {a, b, c}
  Hearing <- MCHearing
  Broadcast = Broadcast
  Nobody = Nobody
  Traffic <- MCTraffic
  Promiscuity = TRUE
  SIFS = 1
  Slot = 1
  ControlTime = 2
  DataTime = 3
  CWMin = 1
  CWMax = 3
  ShortRetryLimit = 2
  LongRetryLimit = 2
  Powers = {"stronger", "weaker", "neither"}
  MaxErrors = 1
SPECIFICATION Spec
INVARIANTS AssertsHold AnsweredOnceInOrder DeliveredOnce NothingLeftBehind
PROPERTIES NavRespected
CHECK_DEADLOCK FALSE
