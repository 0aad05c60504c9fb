SPECIFICATION Spec
CONSTANTS
  Nodes <- Both
  Masked <- SketchMask
  AutoReenable = TRUE
  Rounds = 2
  StampApart = TRUE
  EarlyReset = FALSE
INVARIANTS SameRound
PROPERTIES ListensAfterPoll RangesAgain
