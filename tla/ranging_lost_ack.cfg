SPECIFICATION OneByOneSpec
CONSTANTS
  None = None
  Broadcast = Broadcast
  Tags = {t1}
  Anchors = {a1, a2}
  BlinkLimit = 2
  LaterBlinkLimit = 3
  InactiveAfter = 2
  MaxRound = 2
  MaxFaults = 1
INVARIANTS RangesMatched
