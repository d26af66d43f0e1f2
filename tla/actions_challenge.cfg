SPECIFICATION Spec
CONSTANTS
  Desktops <- OnlyGnome
  Answers = {"yes", "challenge"}
  Mutable = {}
  MaxMsgs = 1
INVARIANTS ChallengeIsAYes
CHECK_DEADLOCK FALSE
