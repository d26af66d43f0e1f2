SPECIFICATION SwitchSpec
CONSTANTS
  Objects = {"actions", "users", "guest"}
  Unhurried = TRUE
  MaxClicks = 3
INVARIANTS TypeOK SwitchTypeOK FreedAfterLastReply AllGivenTogether AwayIsLocked
PROPERTIES NeverGivenToTheDead KeepsPromise
CHECK_DEADLOCK FALSE
