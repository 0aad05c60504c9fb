SPECIFICATION EachSpec
CONSTANTS
  Masked <- DefaultMask
  AutoReenable = TRUE
  Prompt = TRUE
INVARIANTS ReportedOnce NotDeaf LateLineSeen
PROPERTIES DelayedAsAsked LateListens
