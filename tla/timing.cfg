SPECIFICATION EachSpec
CONSTANTS
  Clock = 32
  Short = 8
  Coarse = 4
  Antenna = 3
  Delay = 9
  Flights = {0, 1, 4}
  Replies = {4, 7, 20}
  Powers = {55, 70, 93, 99}
  BiasTable <- SmallBias
  Ng = FALSE
  NgClock = 64
  NgShort = 32
  NgDelay = 8
  NgPower = 61
  Start = 16600
  Step = 100
  Bests <- Around
  Noise = 9
INVARIANTS RangeExact SentAsWritten NgRangeExact FinalClose
PROPERTIES Ends
CHECK_DEADLOCK FALSE
