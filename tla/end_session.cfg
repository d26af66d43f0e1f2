SPECIFICATION FairSpec
CONSTANTS
  Desktops <- All
  MaxRequests = 2
INVARIANTS TypeOK CancelIsHeeded OneAnswerOneCall ListensOnlyWhileOpen
PROPERTIES LogoutGetsThrough
CHECK_DEADLOCK FALSE
