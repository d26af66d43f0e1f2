SPECIFICATION FairSpec
CONSTANTS
  Sessions = {"c1", "g1", "g2"}
  GuestSessions = {"g1", "g2"}
  FirstSession = "c1"
  CurrentMoves = TRUE
  MaxMsgs = 2
INVARIANTS TypeOK ListenerIsFresh GuestSettles
PROPERTIES GuestConverges
CHECK_DEADLOCK FALSE
