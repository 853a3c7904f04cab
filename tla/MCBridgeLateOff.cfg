SPECIFICATION AutoOffSpec
CONSTANTS
  Req = {r1, r2, r3}
  NoReq = NoReq
PROPERTY LaterTurnOnNotCutShort
