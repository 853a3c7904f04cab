SPECIFICATION MCSpec
CONSTANTS
  Cmd = {c1, c2}
  NoCmd = NoCmd
  MaxReports = 2
  Request = {q1, q2}
  MaxNews = 1
  Visit = {v1, v2}
  MaxClimate = 1
  Top = 2
  MaxMoves = 3
  Req = {r1, r2, r3}
  NoReq = NoReq
  Conf <- MCConf
  Readings <- MCReadings
  Orders <- MCOrders
  Commands <- MCCommands
  Lights = {"lamp"}
  Glow <- MCGlow
  NoValue = NoValue
INVARIANT TypesOK
INVARIANT StopEndsItsOwnAlarm
INVARIANT TimedStopStaysDue
INVARIANT ShownStatesSettle
INVARIANT ShowsTheRoom
INVARIANT LoneCallTakesEffect
INVARIANT DirectionIsReal
INVARIANT NewestCommandDecides
INVARIANT TimedTurnOnHasTimer
PROPERTY OffEndsPendingTimer
PROPERTY ElapsedTurnOffCompletes
INVARIANT HcuUpToDate
INVARIANT OrderIsReported
INVARIANT OppositeSupersedes
INVARIANT NoRetryCarriesAnOldValue
CHECK_DEADLOCK FALSE
