SPECIFICATION FairSpec
CONSTANTS
  AccountUids <- OneUid
  SystemUids = {}
  AccountInfos = {"ann"}
  NoInfo = "nothing"
  Sessions = {"c1"}
  SessionUid <- OneSessionUid
  SeatSessions = {"c1"}
  FirstSession = "c1"
  LiveUid = 999
  RefreshTicks = 1
  LingerTicks = 0
  MaxAccountMsgs = 1
  MaxLogin1Msgs = 1
  CurrentMoves = FALSE
  SpacedRemovals = TRUE
  MayFail = FALSE
  LabelOf <- Labels
  NoLabel = ""
  NoMenu = NoMenu
  Frequency <- Zero
  MaxUsersChoices = {1}
  bLocal = TRUE
  RemoteSuspendable = FALSE
  HasUsageMode = FALSE
  Defaults <- Desktop
  MutableInputs = {}
INVARIANTS MenusTellTheTruth
PROPERTIES KeepsTheServicesPromise MenusFollowTheWorld
CHECK_DEADLOCK FALSE
