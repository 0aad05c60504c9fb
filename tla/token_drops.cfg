SPECIFICATION Spec
CONSTANTS
  NoTag = NoTag
  Tags = {t1, t2, t3}
  TokenTimeout = 1
  ServerTimeout = 3
  Pauses = {0, 3}
  MaxConnections = 4
  MaxDrops = 1
  MaxRestarts = 0
INVARIANTS TypeOK TokensBounded
SYMMETRY TagSymmetry
