SPECIFICATION FairSpec
CONSTANTS
  NoTag = NoTag
  Tags = {t1, t2}
  TokenTimeout = 1
  ServerTimeout = 3
  Pauses = {0, 3}
  MaxConnections = 3
  MaxDrops = 0
  MaxRestarts = 2
INVARIANT OneAtATime
PROPERTIES TokenMovesOn ImplementsToken
