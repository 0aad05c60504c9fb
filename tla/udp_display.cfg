SPECIFICATION EachSpec
CONSTANTS
  Tags = {t1, t2, t3}
  MaxLosses = 1
  MaxRestarts = 2
  Addresses = {0, 1, 2}
  Ranges = {3}
  Anchor1 = 1
  Anchor2 = 2
  MaxDevices = 2
  MaxLinks = 2
  MaxStream = 2
INVARIANTS RangingBounded LinksFollowDevices
PROPERTIES RingAsks DrawnFromOneMessage
CHECK_DEADLOCK FALSE
