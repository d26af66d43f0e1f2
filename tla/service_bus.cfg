SPECIFICATION Spec
CONSTANTS
  Uids = {}
  Infos = {"ann"}
  LabelOf <- OneLabel
  NoLabel = ""
  NoMenu = NoMenu
  Frequency <- Zero
  MaxUsersChoices = {1, 2}
  bLocal = TRUE
  RemoteSuspendable = FALSE
  HasUsageMode = FALSE
  Defaults <- Desktop
  Mutable <- MixedInputs
  MayFail = TRUE
INVARIANTS StaleIsScheduled CleanShutdown
CHECK_DEADLOCK FALSE
