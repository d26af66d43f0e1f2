SPECIFICATION FairSpec
CONSTANTS
  Uids <- LiveUids
  SystemUids = {}
  Infos = {"i1"}
  NoInfo = "nothing"
  Sessions = {"c1", "c2", "c3"}
  SessionUid <- LiveSessionUid
  SeatSessions = {"c1", "c2"}
  FirstSession = "c1"
  LiveUid = 999
  RefreshTicks = 1
  LingerTicks = 0
  MaxAccountMsgs = 0
  MaxLogin1Msgs = 2
  CurrentMoves = TRUE
  SpacedRemovals = TRUE
  MayFail = FALSE
INVARIANTS TypeOK MirrorFresh LoginsSettle
PROPERTIES SilentOnceDisposed Converges
CHECK_DEADLOCK FALSE
