SPECIFICATION Spec
CONSTANTS
  Uids = {u1, u2}
  Infos = {"often", "nameless"}
  LabelOf <- TwoLabels
  NoLabel = ""
  NoMenu = NoMenu
  Frequency <- TwoFrequencies
  MaxUsersChoices = {1}
  bLocal = TRUE
  RemoteSuspendable = FALSE
  HasUsageMode = FALSE
  Defaults <- Desktop
  Mutable <- ShowMenu
  MayFail = FALSE
SYMMETRY Symmetry
INVARIANTS TypeOK StaleIsScheduled HeaderIsScheduled TableIsCurrent OwnerIsListed
CHECK_DEADLOCK FALSE
