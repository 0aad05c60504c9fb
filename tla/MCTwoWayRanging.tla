---- MODULE MCTwoWayRanging ----
EXTENDS TwoWayRangingProperties

Both == {I, R}
====
