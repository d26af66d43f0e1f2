SPECIFICATION Spec
CONSTANTS
  Desktops <- OnlyLomiri
  MaxRequests = 2
INVARIANTS ConfirmedIsDone
CHECK_DEADLOCK FALSE
