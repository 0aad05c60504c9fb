SPECIFICATION FairSpec
CONSTANTS
  Tags = {t1}
  N = 2
  Rounds = 1
  BlinkRate = 0
  Lost <- AllLost
  Prompt = FALSE
  Early = TRUE
  Alone = FALSE
PROPERTIES BackToRest
