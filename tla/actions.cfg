SPECIFICATION Spec
CONSTANTS
  Desktops <- TwoDesktops
  Answers = {"yes", "challenge"}
  Mutable = {"disable-log-out", "suppress-logout-menuitem", "suppress-logout-restart-shutdown"}
  MaxMsgs = 1
INVARIANTS TypeOK PropertiesMirrored 
CHECK_DEADLOCK FALSE
