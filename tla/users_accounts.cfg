SPECIFICATION Spec
CONSTANTS
  Uids <- OneUid
  SystemUids = {}
  Infos = {"i1", "i2"}
  NoInfo = "nothing"
  Sessions = {"c1"}
  SessionUid <- OneSessionUid
  SeatSessions = {"c1"}
  FirstSession = "c1"
  LiveUid = 999
  RefreshTicks = 1
  LingerTicks = 0
  MaxAccountMsgs = 3
  MaxLogin1Msgs = 0
  CurrentMoves = FALSE
  SpacedRemovals = FALSE
  MayFail = TRUE
INVARIANTS MirrorFresh AccountsSettle
CHECK_DEADLOCK FALSE
