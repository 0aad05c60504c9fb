---- MODULE RangeTiming ----
(* The time stamps of one exchange after another: two free running clocks    *)
(* that wrap, delayed transmissions of which the radio ignores the low bits, *)
(* receptions corrected for their strength, and the two computations of a    *)
(* range. Times are counted in ticks; the clocks run at the same rate.       *)
EXTENDS Integers

CONSTANTS
  Clock,         \* TIME_OVERFLOW: ticks until a clock wraps
  Short,         \* ticks that fit in the uint32_t of DW1000NgRanging
  Coarse,        \* DX_TIME and SYS_TIME count in units of this many ticks
  Antenna,       \* antenna delay of the tag
  Delay,         \* reply delay of the tag
  Flights,       \* times of flight
  Replies,       \* times that a node takes to answer
  Powers,        \* received power, in dBm below zero
  BiasTable,     \* BIAS_500_16, ...: a correction for each 2 dBm
  Ng             \* the tag and the anchor run DW1000Ng

\* What the constants have to be.
TimingAssumption ==
  /\ Coarse \in Nat \ {0} /\ Short \in Nat \ {0} /\ Clock \in Nat \ {0}
  /\ Antenna \in 0..(Clock - 1) /\ Delay \in 0..(Clock - 1)
  /\ Flights \subseteq Nat /\ Replies \subseteq Nat /\ Powers \subseteq Int
  /\ BiasTable \in [0..17 -> Int] /\ Ng \in BOOLEAN
  /\ Clock % Short = 0 /\ Clock % Coarse = 0

VARIABLES
  step,                       \* how far the exchange is
  tag, anchor,                \* the clocks
  flight, power,              \* of this exchange
  timePollSent, timePollAckReceived, timeRangeSent,    \* by the tag's clock
  timePollReceived, timePollAckSent, timeRangeReceived, \* by the anchor's
  txTime,                     \* when RANGE really left the tag
  tof                         \* the result

stamps == <<timePollSent, timePollAckReceived, timeRangeSent,
            timePollReceived, timePollAckSent, timeRangeReceived>>
vars == <<step, tag, anchor, flight, power, stamps, txTime, tof>>

\* A clock some ticks later, and how long it takes from one reading to another.
Later(t, d) == (t + d) % Clock
Elapsed(s, t) == (t - s) % Clock
RoundDown(t) == t - (t % Coarse)
SystemTime(t) == RoundDown(t)

\* setTimestamp(byte[]), getTimestamp(byte[]): five bytes.
Bytes(t) == t % Clock

\* Mutant of Wrap: one less than the period.
WrapShort(t) == IF t < 0 THEN t + Clock - 1 ELSE t

Wrap(t) == IF t < 0 THEN t + Clock ELSE t

\* Integer division of C, which rounds to zero.
Quotient(a, b) == IF a < 0 THEN -((-a) \div b) ELSE a \div b

TimeOfFlight(round1, reply1, round2, reply2) ==
  LET sum == round1 + round2 + reply1 + reply2 IN
  IF sum = 0 THEN 0 ELSE Quotient(round1 * round2 - reply1 * reply2, sum)

----
(* correctTimestamp *)

BiasLow(p) == LET low == Quotient(p - 61, 2) IN
              IF low <= 0 THEN 0 ELSE IF low + 1 >= 17 THEN 17 ELSE low

BiasHigh(p) == LET low == Quotient(p - 61, 2) IN
               IF low <= 0 THEN 0 ELSE IF low + 1 >= 17 THEN 17 ELSE low + 1

\* Linear interpolation, in half steps.
Bias(p) == BiasTable[BiasLow(p)] +
           Quotient((p - 61 - 2 * BiasLow(p)) * (BiasTable[BiasHigh(p)] - BiasTable[BiasLow(p)]), 2)

\* DW1000Ng returns the time stamp as it is; correctRange is applied to the range.
Received(t) == IF Ng THEN t ELSE t - Bias(power)

----
(* The delayed transmission of RANGE: what DX_TIME gets and what RANGE says. *)

\* Mutant of SetDelay: the bits that the radio ignores are left in.
SetDelayExact(t) == LET future == SystemTime(t) + Delay IN
                    [dx |-> Bytes(future), says |-> Bytes(future) + Antenna]

SetDelay(t) == LET future == RoundDown(Bytes(SystemTime(t) + Delay)) IN
               [dx |-> future, says |-> future + Antenna]

\* transmitFinalMessage and transmitRange of DW1000Ng: the time is not cut.
SetDelayedTRX(t) == LET future == SystemTime(t) + Delay IN
                    [dx |-> Bytes(future), says |-> future + Antenna]

Delayed(t) == IF Ng THEN SetDelayedTRX(t) ELSE SetDelay(t)
LeavesAt(dx) == Later(RoundDown(dx), Antenna)

----
(* computeRangeAsymmetric *)

OldRange ==
  TimeOfFlight(Wrap(timePollAckReceived - timePollSent), Wrap(timePollAckSent - timePollReceived),
               Wrap(timeRangeReceived - timePollAckSent), Wrap(timeRangeSent - timePollAckReceived))

\* Mutant of Difference: the operands are cut, their difference is not.
DifferenceSigned(a, b) == (a % Short) - (b % Short)

\* Of two uint32_t.
Difference(a, b) == ((a % Short) - (b % Short)) % Short

NgRange ==
  TimeOfFlight(Difference(timePollAckReceived, timePollSent), Difference(timePollAckSent, timePollReceived),
               Difference(timeRangeReceived, timePollAckSent), Difference(timeRangeSent, timePollAckReceived))

----
Init ==
  /\ step = "idle" /\ tag \in 0..(Clock - 1) /\ anchor \in 0..(Clock - 1)
  /\ flight = 0 /\ power = 61
  /\ timePollSent = 0 /\ timePollAckReceived = 0 /\ timeRangeSent = 0
  /\ timePollReceived = 0 /\ timePollAckSent = 0 /\ timeRangeReceived = 0
  /\ txTime = 0 /\ tof = 0

Poll ==
  /\ step \in {"idle", "ranged"} /\ step' = "polled"
  /\ flight' \in Flights /\ power' \in Powers
  /\ timePollSent' = tag
  /\ tag' = Later(tag, flight') /\ anchor' = Later(anchor, flight')
  /\ timePollReceived' = IF Ng THEN anchor' ELSE anchor' - Bias(power')
  /\ UNCHANGED <<timePollAckReceived, timeRangeSent, timePollAckSent, timeRangeReceived, txTime, tof>>

\* What the driver takes off a reception in this exchange.
Correction == IF Ng THEN 0 ELSE Bias(power)

\* A computation is right only while its counters do not go round in between:
\* the bound on the length of an exchange.
Period == IF Ng THEN Short ELSE Clock
InTime(d) == \A c \in {0, Correction} : /\ d + 2 * flight - c \in 0..(Period - 1)
                                        /\ d + c \in 0..(Period - 1)

PollAck ==
  /\ step = "polled" /\ step' = "answered"
  /\ \E d \in Replies:
       /\ InTime(d)
       /\ timePollAckSent' = Later(anchor, d)
       /\ tag' = Later(tag, d + flight) /\ anchor' = Later(anchor, d + flight)
  /\ timePollAckReceived' = Received(tag')
  /\ UNCHANGED <<flight, power, timePollSent, timeRangeSent, timePollReceived, timeRangeReceived, txTime, tof>>

\* RANGE carries the time stamps of the tag in five bytes each. FINAL of DW1000NgRTLS
\* carries four, of which the anchor reads five: the last belongs to what follows.
Carried(t, next) == IF Ng THEN (t % Short) + Short * next ELSE Bytes(t)

Range ==
  /\ step = "answered" /\ step' = "ranged"
  /\ \E d \in Replies:
       LET delayed == Delayed(Later(tag, d))
           leaves == LeavesAt(delayed.dx)
           reply == Elapsed(tag, leaves) IN
       /\ d <= reply /\ InTime(reply)
       /\ tag' = Later(leaves, flight) /\ anchor' = Later(anchor, reply + flight)
       /\ \E next \in 0..(Clock \div Short - 1) :
            /\ timePollSent' = Carried(timePollSent, next)
            /\ timePollAckReceived' = Carried(timePollAckReceived, next)
            /\ timeRangeSent' = Carried(delayed.says, next)
       /\ txTime' = leaves
  /\ timeRangeReceived' = Received(anchor')
  /\ UNCHANGED <<flight, power, timePollReceived, timePollAckSent>>
  /\ tof' = IF Ng THEN NgRange' ELSE OldRange'

Next == Poll \/ PollAck \/ Range

Spec == Init /\ [][Next]_vars
====
