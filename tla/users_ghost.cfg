SPECIFICATION Spec
CONSTANTS
  Uids <- TwoUids
  SystemUids = {}
  Infos = {"i1"}
  NoInfo = "nothing"
  Sessions = {"c1", "c2"}
  SessionUid <- TwoSessionUid
  SeatSessions = {"c1", "c2"}
  FirstSession = "c1"
  LiveUid = 999
  RefreshTicks = 2
  LingerTicks = 1
  MaxAccountMsgs = 0
  MaxLogin1Msgs = 3
  CurrentMoves = FALSE
  SpacedRemovals = FALSE
  MayFail = FALSE
INVARIANTS LoginsSettle
CHECK_DEADLOCK FALSE
