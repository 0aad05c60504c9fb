SPECIFICATION Spec
CONSTANTS
  Tags = {t1, t2}
  N = 3
  Rounds = 2
  BlinkRate = 200
  Lost <- AllLost
  Prompt = TRUE
  Early = FALSE
  Alone = TRUE
INVARIANTS OneExchange
PROPERTIES DisplayedTogether LocalizedByAll
