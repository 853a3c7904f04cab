SPECIFICATION MCSpec
CONSTANTS
  Cmd = {c1}
  NoCmd = NoCmd
  MaxReports = 0
  Request = {q1}
  MaxNews = 1
  Visit = {v1}
  MaxClimate = 0
  Top = 1
  MaxMoves = 0
  Req = {r1}
  NoReq = NoReq
  Conf <- MCConf
  Readings <- MCReadings
  Orders <- MCOrders
  Commands <- MCCommands
  Lights = {"lamp"}
  Glow <- MCGlow
  NoValue = NoValue
INVARIANT NothingDropped
CHECK_DEADLOCK FALSE
