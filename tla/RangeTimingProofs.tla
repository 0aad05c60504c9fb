---- MODULE RangeTimingProofs ----
(* An exchange of DW1000Time gives the time of flight for clocks of any      *)
(* period and readings anywhere in it. The modulus is a parameter, so each   *)
(* reading is described by the two or three values it may have: Reads. Then  *)
(* the search for the antenna delay ends close to the right one; and last an *)
(* exchange of DW1000Ng, with readings of 40 bits and differences of 32, of  *)
(* which only what is left after whole periods counts: Alike.                *)
EXTENDS MCRangeTiming, TLAPS

----
(* Remainders and quotients by a parameter *)

\* The remainder of a number less than two periods away.
LEMMA SmallRemainder ==
  ASSUME NEW m \in Nat \ {0}, NEW x \in Int, -m <= x, x < 2 * m
  PROVE /\ x % m \in 0..(m - 1)
        /\ x % m = x \/ x % m = x - m \/ x % m = x + m
<1>1. x % m \in Int /\ 0 <= x % m /\ x % m < m /\ x \div m \in Int /\ x = m * (x \div m) + (x % m)
  OBVIOUS
<1>2. PICK q \in Int, r \in Int : x = m * q + r /\ r = x % m /\ 0 <= r /\ r < m
  BY <1>1
<1>3. q <= 1
  <2> SUFFICES ASSUME q >= 2 PROVE FALSE BY <1>2
  <2>1. m * q >= m * 2 OBVIOUS
  <2> QED BY <1>2, <2>1
<1>4. q >= -1
  <2> SUFFICES ASSUME q <= -2 PROVE FALSE BY <1>2
  <2>1. m * q <= m * (-2) OBVIOUS
  <2> QED BY <1>2, <2>1
<1>5. CASE q = 0 BY <1>2, <1>5
<1>6. CASE q = 1 BY <1>2, <1>6
<1>7. CASE q = -1 BY <1>2, <1>7
<1> QED BY <1>2, <1>3, <1>4, <1>5, <1>6, <1>7

\* What is cut to units stays as it is when it is cut again.
LEMMA CutTwice ==
  ASSUME NEW t \in Int, Coarse \in Nat \ {0}
  PROVE RoundDown(RoundDown(t)) = RoundDown(t) /\ RoundDown(t) \in Int
<1>1. PICK q \in Int, r \in Int : t = Coarse * q + r /\ r = t % Coarse
  OBVIOUS
<1>2. RoundDown(t) = Coarse * q
  BY <1>1 DEF RoundDown
<1>3. (Coarse * q) % Coarse = 0
  OBVIOUS
<1> QED BY <1>2, <1>3 DEF RoundDown

\* A whole number of periods divides evenly, also when it is negative.
LEMMA ExactQuotient ==
  ASSUME NEW g \in Int, NEW s \in Int, s > 0
  PROVE Quotient(g * s, s) = g
<1>1. CASE g >= 0
  <2>1. g * s >= 0 BY <1>1
  <2>2. (g * s) \div s = g OBVIOUS
  <2> QED BY <2>1, <2>2 DEF Quotient
<1>2. CASE g < 0
  <2>1. g * s < 0 BY <1>2
  <2>2. -(g * s) = (-g) * s OBVIOUS
  <2>3. ((-g) * s) \div s = -g OBVIOUS
  <2> QED BY <2>1, <2>2, <2>3 DEF Quotient
<1> QED BY <1>1, <1>2

\* The formula of asymmetric two-way ranging, without rounding.
LEMMA ExactFlight ==
  ASSUME NEW x \in Nat, NEW y \in Nat, NEW g \in Int, x + 2 * g >= 0, y + 2 * g >= 0
  PROVE TimeOfFlight(x + 2 * g, x, y + 2 * g, y) = g
<1> DEFINE sum == (x + 2 * g) + (y + 2 * g) + x + y
<1>1. (x + 2 * g) * (y + 2 * g) - x * y = g * sum
  OBVIOUS
<1>2. sum \in Int /\ sum >= 0 OBVIOUS
<1>3. CASE sum = 0
  <2>1. g = 0 BY <1>3
  <2> QED BY <1>3, <2>1 DEF TimeOfFlight
<1>4. CASE sum > 0
  BY <1>1, <1>4, ExactQuotient DEF TimeOfFlight
<1> QED BY <1>2, <1>3, <1>4

----
(* Readings of one clock *)

\* Both are readings of a clock, the second one d ticks after the first.
Reads(s, t, d) == s \in Ticks /\ t \in Ticks /\ (t = s + d \/ t = s + d - Clock)

LEMMA LaterReads ==
  ASSUME TimingAssumption, NEW s \in Ticks, NEW d \in 0..(Clock - 1)
  PROVE Reads(s, Later(s, d), d)
<1> DEFINE x == s + d
<1>1. Clock \in Nat \ {0} /\ x \in Int /\ -Clock <= x /\ x < 2 * Clock /\ 0 <= x
  BY DEF TimingAssumption, Ticks
<1> HIDE DEF x
<1>2. x % Clock \in 0..(Clock - 1) /\ (x % Clock = x \/ x % Clock = x - Clock \/ x % Clock = x + Clock)
  BY <1>1, SmallRemainder
<1>3. x % Clock = x \/ x % Clock = x - Clock
  BY <1>1, <1>2
<1> QED BY <1>1, <1>2, <1>3 DEF x, Later, Reads, Ticks

LEMMA ElapsedReads ==
  ASSUME TimingAssumption, NEW s \in Ticks, NEW t \in Ticks
  PROVE Elapsed(s, t) \in Ticks /\ Reads(s, t, Elapsed(s, t))
<1> DEFINE x == t - s
<1>1. Clock \in Nat \ {0} /\ x \in Int /\ -Clock <= x /\ x < 2 * Clock
  BY DEF TimingAssumption, Ticks
<1> HIDE DEF x
<1>2. x % Clock \in 0..(Clock - 1) /\ (x % Clock = x \/ x % Clock = x - Clock \/ x % Clock = x + Clock)
  BY <1>1, SmallRemainder
<1>3. x < Clock
  BY <1>1 DEF x, Ticks
<1>4. x % Clock = x \/ x % Clock = x + Clock
  BY <1>1, <1>2, <1>3
<1> QED BY <1>1, <1>2, <1>4 DEF x, Elapsed, Reads, Ticks

\* Two readings one after the other.
LEMMA ReadsTwice ==
  ASSUME TimingAssumption, NEW s, NEW t, NEW u, NEW d \in Nat, NEW e \in Nat,
         Reads(s, t, d), Reads(t, u, e), d + e < Clock
  PROVE Reads(s, u, d + e)
BY DEF TimingAssumption, Reads, Ticks

\* Readings after d and after d + e ticks.
LEMMA ReadsBetween ==
  ASSUME TimingAssumption, NEW s, NEW t, NEW u, NEW d \in Nat, NEW e \in Nat,
         Reads(s, t, d), Reads(s, u, d + e), d + e < Clock
  PROVE Reads(t, u, e)
BY DEF TimingAssumption, Reads, Ticks

\* wrap() gives the time between two readings of which either was corrected.
LEMMA WrapReads ==
  ASSUME TimingAssumption, NEW s, NEW t, NEW d \in Int, NEW c \in Int,
         Reads(s, t, d), d + c \in 0..(Clock - 1)
  PROVE Wrap(t - s + c) = d + c
BY DEF TimingAssumption, Reads, Ticks, Wrap

\* The time stamp of a reception, cut to five bytes.
LEMMA BytesReads ==
  ASSUME TimingAssumption, NEW t \in Ticks, NEW c \in Int, -Clock < c, c < Clock
  PROVE Bytes(t - c) \in Ticks /\ (Bytes(t - c) = t - c \/ Bytes(t - c) = t - c - Clock \/ Bytes(t - c) = t - c + Clock)
<1> DEFINE x == t - c
<1>1. Clock \in Nat \ {0} /\ x \in Int /\ -Clock <= x /\ x < 2 * Clock
  BY DEF TimingAssumption, Ticks
<1> HIDE DEF x
<1>2. x % Clock \in 0..(Clock - 1) /\ (x % Clock = x \/ x % Clock = x - Clock \/ x % Clock = x + Clock)
  BY <1>1, SmallRemainder
<1> QED BY <1>2 DEF x, Bytes, Ticks

LEMMA WrapBytes ==
  ASSUME TimingAssumption, NEW s, NEW t, NEW u, NEW d \in Nat, NEW e \in Nat, NEW c \in Int,
         -Clock < c, c < Clock, Reads(s, t, d), Reads(t, u, e),
         d - c \in 0..(Clock - 1), e + c \in 0..(Clock - 1)
  PROVE Wrap(Bytes(t - c) - s) = d - c /\ Wrap(u - Bytes(t - c)) = e + c
<1>1. PICK b \in Ticks : Bytes(t - c) = b /\ (b = t - c \/ b = t - c - Clock \/ b = t - c + Clock)
  BY BytesReads DEF Reads
<1>2. Wrap(b - s) = d - c
  BY <1>1 DEF TimingAssumption, Reads, Ticks, Wrap
<1>3. Wrap(u - b) = e + c
  BY <1>1 DEF TimingAssumption, Reads, Ticks, Wrap
<1> QED BY <1>1, <1>2, <1>3

\* An answer after d ticks leaves no counter time to go round.
Fits(d, f, c) == /\ d + 2 * f - c \in 0..(Clock - 1) /\ d + 2 * f < Clock
                 /\ d + c \in 0..(Clock - 1)

\* The readings of an exchange of DW1000Ranging: f is the time of flight, c the
\* correction, d and r the times the nodes take to answer.
Exchanged(f, c, d, r, tps, tag1, tpr, tpas, anc, leaves) ==
  /\ f \in Nat /\ c \in Int /\ d \in Nat /\ r \in Nat /\ tpr \in Int
  /\ Fits(d, f, c) /\ Fits(r, f, c)
  /\ Reads(tps, tag1, d + 2 * f) /\ Reads(tpr + c, tpas, d)
  /\ Reads(tpas, anc, f) /\ Reads(tag1, leaves, r)

LEMMA OldExchange ==
  ASSUME TimingAssumption, NEW f, NEW c, NEW d, NEW r, NEW tps, NEW tag1, NEW tpr, NEW tpas, NEW anc,
         NEW leaves, Exchanged(f, c, d, r, tps, tag1, tpr, tpas, anc, leaves)
  PROVE TimeOfFlight(Wrap(Bytes(tag1 - c) - tps), Wrap(tpas - tpr),
                     Wrap((Later(anc, r + f) - c) - tpas), Wrap(leaves - Bytes(tag1 - c))) = f - c
<1> USE DEF Fits, Exchanged
<1>1. -Clock < c /\ c < Clock /\ Clock \in Nat \ {0}
  BY DEF TimingAssumption
<1>2. Wrap(Bytes(tag1 - c) - tps) = d + 2 * f - c /\ Wrap(leaves - Bytes(tag1 - c)) = r + c
  BY <1>1, WrapBytes
<1>3. Wrap(tpas - tpr) = d + c
  <2>1. Wrap(tpas - (tpr + c) + c) = d + c BY WrapReads
  <2>2. tpas - (tpr + c) + c = tpas - tpr BY DEF Reads, Ticks
  <2> QED BY <2>1, <2>2
<1>4. Wrap((Later(anc, r + f) - c) - tpas) = r + 2 * f - c
  <2>1. anc \in Ticks /\ r + f \in 0..(Clock - 1)
    BY <1>1 DEF Reads
  <2>2. Reads(anc, Later(anc, r + f), r + f)
    BY <2>1, LaterReads
  <2>3. PICK w : w = Later(anc, r + f)
    OBVIOUS
  <2>4. Reads(tpas, w, f + (r + f))
    <3>1. PICK e \in Nat : e = r + f
      OBVIOUS
    <3>2. f + e < Clock
      BY <3>1
    <3> QED BY <2>2, <2>3, <3>1, <3>2, ReadsTwice
  <2>5. Wrap(w - tpas + (-c)) = f + (r + f) + (-c)
    <3>1. f + (r + f) \in Int /\ -c \in Int /\ f + (r + f) + (-c) \in 0..(Clock - 1)
      BY <1>1
    <3> QED BY <2>4, <3>1, WrapReads
  <2>6. w - tpas + (-c) = (w - c) - tpas /\ f + (r + f) + (-c) = r + 2 * f - c
    BY <2>4 DEF Reads, Ticks
  <2> QED BY <2>3, <2>5, <2>6
<1>5. PICK x \in Nat, y \in Nat, g \in Int : x = d + c /\ y = r + c /\ g = f - c
  OBVIOUS
<1>6. /\ x + 2 * g = d + 2 * f - c /\ y + 2 * g = r + 2 * f - c
      /\ x + 2 * g >= 0 /\ y + 2 * g >= 0
  BY <1>5
<1>7. TimeOfFlight(x + 2 * g, x, y + 2 * g, y) = g
  BY <1>6, ExactFlight
<1> QED BY <1>2, <1>3, <1>4, <1>5, <1>6, <1>7

----
(* The states of an exchange *)

Bounds ==
  /\ step \in {"idle", "polled", "answered", "ranged"}
  /\ tag \in Ticks /\ anchor \in Ticks /\ txTime \in Ticks
  /\ flight \in Flights \cup {0} /\ power \in Powers \cup {61}
  /\ timePollSent \in Ticks /\ timeRangeSent \in Ticks /\ timePollAckSent \in Ticks
  /\ timePollAckReceived \in Int /\ timePollReceived \in Int /\ timeRangeReceived \in Int

\* POLL has been received by the one anchor that is modelled.
Polled == /\ flight < Clock => Reads(timePollSent, tag, flight)
          /\ timePollReceived = anchor - Correction

\* POLL_ACK has been received, d ticks after POLL.
Answered(d) == /\ d \in Nat /\ InTime(d)
               /\ Reads(timePollSent, tag, d + 2 * flight)
               /\ timePollAckReceived = tag - Correction
               /\ Reads(timePollReceived + Correction, timePollAckSent, d)
               /\ Reads(timePollAckSent, anchor, flight)

IInv == /\ Bounds
        /\ step = "polled" => Polled
        /\ step = "answered" => \E d \in Nat : Answered(d)
        /\ step = "ranged" => tof = flight - Correction /\ timeRangeSent = txTime
        /\ tof \in Int

LEMMA BiasType ==
  ASSUME TimingAssumption, NEW p \in Int
  PROVE Bias(p) \in Int
<1>1. \A a, b \in Int : b > 0 => Quotient(a, b) \in Int
  BY DEF Quotient
<1>2. BiasLow(p) \in 0..17 /\ BiasHigh(p) \in 0..17
  <2>1. PICK low \in Int : low = Quotient(p - 61, 2)
    BY <1>1
  <2> QED BY <2>1 DEF BiasLow, BiasHigh
<1>3. PICK l \in 0..17, t \in Int, u \in Int : l = BiasLow(p) /\ t = BiasTable[l] /\ u = BiasTable[BiasHigh(p)]
  BY <1>2 DEF TimingAssumption
<1>4. (p - 61 - 2 * l) * (u - t) \in Int
  OBVIOUS
<1>5. Quotient((p - 61 - 2 * l) * (u - t), 2) \in Int
  BY <1>1, <1>4
<1> QED BY <1>3, <1>5 DEF Bias

LEMMA CorrectionType ==
  ASSUME TimingAssumption, Bounds
  PROVE Correction \in Int /\ flight \in Nat
<1>1. power \in Int /\ flight \in Nat
  BY DEF Bounds, TimingAssumption
<1>2. Bias(power) \in Int
  BY <1>1, BiasType
<1> QED BY <1>1, <1>2 DEF Correction

LEMMA InitIInv == TimingAssumption /\ Init => IInv
BY DEF TimingAssumption, Init, IInv, Bounds, Ticks

\* A reading stays in the period of its clock.
LEMMA InTicks ==
  ASSUME TimingAssumption, NEW x \in Int
  PROVE x % Clock \in Ticks
BY DEF TimingAssumption, Ticks

\* What DW1000 writes into RANGE is when RANGE leaves.
LEMMA LeavesAsSaid ==
  ASSUME TimingAssumption, ~Ng, NEW t \in Ticks
  PROVE /\ Bytes(Delayed(t).says) = LeavesAt(Delayed(t).dx)
        /\ LeavesAt(Delayed(t).dx) \in Ticks
<1>1. Coarse \in Nat \ {0} /\ Clock \in Nat \ {0} /\ Antenna \in Int /\ Delay \in Int /\ t \in Int
  BY DEF TimingAssumption, Ticks
<1>2. SystemTime(t) \in Int
  BY <1>1, CutTwice DEF SystemTime
<1>3. PICK b \in Int : b = Bytes(SystemTime(t) + Delay)
  BY <1>1, <1>2 DEF Bytes
<1>4. RoundDown(RoundDown(b)) = RoundDown(b) /\ RoundDown(b) \in Int
  BY <1>1, CutTwice
<1>5. Delayed(t).dx = RoundDown(b) /\ Delayed(t).says = RoundDown(b) + Antenna
  BY <1>3 DEF Delayed, SetDelay
<1>6. (RoundDown(b) + Antenna) % Clock \in Ticks
  <2>1. RoundDown(b) + Antenna \in Int BY <1>1, <1>4
  <2> QED BY <2>1, InTicks
<1> QED BY <1>4, <1>5, <1>6 DEF LeavesAt, Later, Bytes

LEMMA PollIInv ==
  ASSUME TimingAssumption, ~Ng, IInv, Poll
  PROVE IInv'
<1>1. PICK f \in Flights, p \in Powers : f = flight' /\ p = power'
  BY DEF Poll
<1>2. f \in Nat /\ p \in Int /\ Bias(p) \in Int
  BY <1>1, BiasType DEF TimingAssumption
<1>3. tag \in Ticks /\ anchor \in Ticks /\ tag \in Int /\ anchor \in Int
  BY DEF IInv, Bounds, Ticks, TimingAssumption
<1>4. PICK t \in Ticks, a \in Ticks : t = Later(tag, f) /\ a = Later(anchor, f)
  <2>1. tag + f \in Int /\ anchor + f \in Int BY <1>2, <1>3
  <2> QED BY <2>1, InTicks DEF Later
<1>5. /\ tag' = t /\ anchor' = a /\ timePollSent' = tag
      /\ timePollReceived' = a - Bias(p) /\ step' = "polled"
  BY <1>1, <1>4 DEF Poll
<1>6. a \in Int /\ a - Bias(p) \in Int
  BY <1>2 DEF Ticks, TimingAssumption
<1>7. Bounds'
  BY <1>1, <1>3, <1>5, <1>6 DEF IInv, Bounds, Poll
<1>8. Polled'
  <2>1. Correction' = Bias(p)
    BY <1>1 DEF Correction
  <2>2. f < Clock => Reads(tag, t, f)
    BY <1>2, <1>3, <1>4, LaterReads DEF TimingAssumption
  <2> QED BY <1>1, <1>5, <2>1, <2>2 DEF Polled, Reads
<1> QED BY <1>5, <1>7, <1>8 DEF IInv, Poll

LEMMA PollAckIInv ==
  ASSUME TimingAssumption, ~Ng, IInv, PollAck
  PROVE IInv'
<1>1. PICK d \in Replies : /\ InTime(d) /\ timePollAckSent' = Later(anchor, d)
                           /\ tag' = Later(tag, d + flight) /\ anchor' = Later(anchor, d + flight)
  BY DEF PollAck
<1>2. PICK f \in Nat, c \in Int : f = flight /\ c = Correction
  BY CorrectionType DEF IInv
<1>3. d \in Nat /\ Clock \in Nat \ {0}
  BY DEF TimingAssumption
<1>4. /\ d + 2 * f \in 0..(Clock - 1) /\ d + 2 * f - c \in 0..(Clock - 1) /\ d + c \in 0..(Clock - 1)
      /\ d + f \in 0..(Clock - 1) /\ d \in 0..(Clock - 1) /\ f < Clock
  <2>1. d + 2 * f - 0 \in 0..(Clock - 1) /\ d + 2 * f - c \in 0..(Clock - 1) /\ d + c \in 0..(Clock - 1)
    BY <1>1, <1>2 DEF InTime, Period
  <2> QED BY <1>2, <1>3, <2>1
<1>5. PICK s \in Ticks, t1 \in Ticks, a1 \in Ticks : s = timePollSent /\ t1 = tag /\ a1 = anchor
  BY DEF IInv, Bounds
<1>6. PICK t2, a2, w : t2 = Later(t1, d + f) /\ a2 = Later(a1, d + f) /\ w = Later(a1, d)
  OBVIOUS
<1>7. Reads(t1, t2, d + f) /\ Reads(a1, a2, d + f) /\ Reads(a1, w, d)
  BY <1>4, <1>5, <1>6, LaterReads
<1>8. Reads(s, t1, f) /\ timePollReceived = a1 - c
  BY <1>2, <1>4, <1>5 DEF IInv, PollAck, Polled
<1>9. Reads(s, t2, d + 2 * f)
  <2>1. d \in Nat /\ Clock \in Nat
    BY DEF TimingAssumption
  <2>2. PICK e \in Nat : e = d + f
    BY <2>1
  <2>3. f + e < Clock /\ f + e = d + 2 * f BY <1>2, <1>4, <2>1, <2>2
  <2> QED BY <1>7, <1>8, <2>2, <2>3, ReadsTwice
<1>10. Reads(w, a2, f)
  <2>1. d + f < Clock BY <1>3, <1>4
  <2> QED BY <1>2, <1>3, <1>7, <2>1, ReadsBetween
<1>11. t2 \in Ticks /\ a2 \in Ticks /\ w \in Ticks /\ t2 \in Int
  BY <1>7 DEF Reads, Ticks, TimingAssumption
<1>12. /\ tag' = t2 /\ anchor' = a2 /\ timePollAckSent' = w
       /\ timePollAckReceived' = t2 - c /\ step' = "answered"
       /\ UNCHANGED <<flight, power, timePollSent, timeRangeSent, timePollReceived, timeRangeReceived, txTime, tof>>
  <2>1. tag' = t2 /\ anchor' = a2 /\ timePollAckSent' = w
    BY <1>1, <1>2, <1>5, <1>6
  <2> QED BY <1>2, <2>1 DEF PollAck, Received, Correction
<1>13. t2 - c \in Int
  BY <1>2, <1>11
<1>14. Bounds'
  BY <1>11, <1>12, <1>13 DEF IInv, Bounds
<1>15. Answered(d)'
  <2>1. Correction' = c /\ InTime(d)'
    BY <1>1, <1>2, <1>12 DEF Correction, InTime
  <2>2. (a1 - c) + c = a1
    BY <1>2, <1>5 DEF Ticks, TimingAssumption
  <2>3. Reads(timePollReceived' + Correction', timePollAckSent', d)
    BY <1>7, <1>8, <1>12, <2>1, <2>2
  <2> QED BY <1>2, <1>3, <1>5, <1>9, <1>10, <1>12, <2>1, <2>3 DEF Answered
<1> QED BY <1>3, <1>12, <1>14, <1>15 DEF IInv

LEMMA RangeIInv ==
  ASSUME TimingAssumption, ~Ng, IInv, Range
  PROVE IInv'
<1>1. PICK d \in Nat : Answered(d)
  <2>1. step = "answered" BY DEF Range
  <2> QED BY <2>1 DEF IInv
<1>2. PICK q \in Replies :
        LET delayed == Delayed(Later(tag, q))
            leaves == LeavesAt(delayed.dx)
            reply == Elapsed(tag, leaves) IN
        /\ InTime(reply)
        /\ tag' = Later(leaves, flight) /\ anchor' = Later(anchor, reply + flight)
        /\ \E next \in 0..(Clock \div Short - 1) :
             /\ timePollSent' = Carried(timePollSent, next)
             /\ timePollAckReceived' = Carried(timePollAckReceived, next)
             /\ timeRangeSent' = Carried(delayed.says, next)
        /\ txTime' = leaves
  BY DEF Range
<1>3. PICK f \in Nat, c \in Int : f = flight /\ c = Correction
  BY CorrectionType DEF IInv
<1>4. PICK s \in Ticks, t1 \in Ticks, a1 \in Ticks : s = timePollSent /\ t1 = tag /\ a1 = anchor
  BY DEF IInv, Bounds
<1>5. t1 \in Int /\ a1 \in Int /\ s \in Int /\ Clock \in Nat \ {0}
  BY DEF Ticks, TimingAssumption
<1>6. PICK now \in Ticks : now = Later(t1, q)
  <2>1. q \in Nat /\ t1 + q \in Int BY <1>5 DEF TimingAssumption
  <2> QED BY <2>1, InTicks DEF Later
<1>7. PICK leaves \in Ticks : leaves = LeavesAt(Delayed(now).dx) /\ leaves = Bytes(Delayed(now).says)
  BY LeavesAsSaid
<1>8. PICK r \in Nat : r = Elapsed(t1, leaves) /\ Reads(t1, leaves, r)
  <2>1. Ticks \subseteq Nat BY DEF Ticks, TimingAssumption
  <2> QED BY <2>1, ElapsedReads
<1>9. r \in Nat /\ leaves \in Int
  BY DEF Ticks, TimingAssumption
<1>10. /\ InTime(r) /\ tag' = Later(leaves, f) /\ anchor' = Later(a1, r + f)
       /\ timePollSent' = Bytes(s) /\ timePollAckReceived' = Bytes(timePollAckReceived)
       /\ timeRangeSent' = leaves /\ txTime' = leaves
  BY <1>2, <1>3, <1>4, <1>6, <1>7, <1>8 DEF Carried
<1>11. Bytes(s) = s
  BY <1>5 DEF Bytes, Ticks
<1>12. /\ timePollAckReceived = t1 - c /\ timePollReceived \in Int
       /\ Reads(s, t1, d + 2 * f) /\ Reads(timePollAckSent, a1, f)
       /\ Reads(timePollReceived + c, timePollAckSent, d) /\ d \in Nat /\ InTime(d)
  BY <1>1, <1>3, <1>4 DEF Answered, IInv, Bounds
<1>13. PICK a2 \in Ticks, t2 \in Ticks : a2 = Later(a1, r + f) /\ t2 = Later(leaves, f)
  <2>1. a1 + (r + f) \in Int /\ leaves + f \in Int BY <1>3, <1>5, <1>9
  <2> QED BY <2>1, InTicks DEF Later
<1>14. a2 \in Int /\ a2 - c \in Int /\ Bytes(t1 - c) \in Int
  <2>1. a2 \in Int /\ t1 - c \in Int BY <1>3, <1>5 DEF Ticks
  <2> QED BY <1>3, <1>5, <2>1 DEF Bytes
<1>15. /\ tag' = t2 /\ anchor' = a2 /\ timePollSent' = s /\ timePollAckReceived' = Bytes(t1 - c)
       /\ timeRangeSent' = leaves /\ txTime' = leaves /\ timeRangeReceived' = a2 - c
       /\ UNCHANGED <<flight, power, timePollReceived, timePollAckSent>> /\ step' = "ranged"
  <2>1. timeRangeReceived' = a2 - c
    <3>1. power' = power /\ timeRangeReceived' = anchor' - Bias(power) BY DEF Range, Received
    <3> QED BY <1>3, <1>10, <1>13, <3>1 DEF Correction
  <2> QED BY <1>10, <1>11, <1>12, <1>13, <2>1 DEF Range
<1>16. tof' = f - c
  <2>1. TimeOfFlight(Wrap(Bytes(t1 - c) - s), Wrap(timePollAckSent - timePollReceived),
                     Wrap((Later(a1, r + f) - c) - timePollAckSent), Wrap(leaves - Bytes(t1 - c))) = f - c
    <3>1. Fits(d, f, c)
      <4>1. /\ d + 2 * f - 0 \in 0..(Clock - 1) /\ d + 2 * f - c \in 0..(Clock - 1)
            /\ d + c \in 0..(Clock - 1)
        BY <1>3, <1>12 DEF InTime, Period
      <4> QED BY <1>3, <1>5, <1>12, <4>1 DEF Fits
    <3>2. Fits(r, f, c)
      <4>1. /\ r + 2 * f - 0 \in 0..(Clock - 1) /\ r + 2 * f - c \in 0..(Clock - 1)
            /\ r + c \in 0..(Clock - 1)
        BY <1>3, <1>10 DEF InTime, Period
      <4> QED BY <1>3, <1>5, <1>9, <4>1 DEF Fits
    <3>3. Exchanged(f, c, d, r, s, t1, timePollReceived, timePollAckSent, a1, leaves)
      BY <1>3, <1>8, <1>12, <3>1, <3>2 DEF Exchanged
    <3> QED BY <3>3, OldExchange
  <2>2. tof' = OldRange'
    BY DEF Range
  <2> QED BY <1>13, <1>15, <2>1, <2>2 DEF OldRange
<1>17. Bounds'
  BY <1>14, <1>15 DEF IInv, Bounds
<1>18. tof' = flight' - Correction' /\ timeRangeSent' = txTime' /\ tof' \in Int
  <2>1. flight' = f /\ Correction' = c BY <1>3, <1>15 DEF Correction
  <2> QED BY <1>3, <1>15, <1>16, <2>1
<1> QED BY <1>15, <1>17, <1>18 DEF IInv

LEMMA SpecIInv ==
  ASSUME TimingAssumption, ~Ng
  PROVE Spec => []IInv
<1>1. Init => IInv
  BY InitIInv
<1>2. IInv /\ [Next]_vars => IInv'
  <2> SUFFICES ASSUME IInv, [Next]_vars PROVE IInv' OBVIOUS
  <2>1. CASE Poll BY <2>1, PollIInv
  <2>2. CASE PollAck BY <2>2, PollAckIInv
  <2>3. CASE Range BY <2>3, RangeIInv
  <2>4. CASE UNCHANGED vars
    BY <2>4 DEF vars, stamps, IInv, Bounds, Polled, Answered, InTime, Correction
  <2> QED BY <2>1, <2>2, <2>3, <2>4 DEF Next
<1> QED BY <1>1, <1>2, PTL DEF Spec

----
(* What DW1000Ranging promises for every period, delay and bias table *)

\* The variables keep their types: the transmitted time stamps stay within five bytes.
THEOREM OldTypeOK ==
  ASSUME TimingAssumption, ~Ng
  PROVE Spec => []TypeOK
<1>1. IInv => TypeOK
  BY DEF IInv, Bounds, TypeOK
<1> QED BY <1>1, SpecIInv, PTL

\* computeRangeAsymmetric of DW1000Ranging is exact wherever in their period the two
\* clocks were read, if only no counter goes round within one exchange.
THEOREM OldRangeExact ==
  ASSUME TimingAssumption, ~Ng
  PROVE Spec => []RangeExact
<1>1. IInv => RangeExact
  BY DEF IInv, RangeExact
<1> QED BY <1>1, SpecIInv, PTL

\* setDelay tells the tag the time at which RANGE leaves, whatever the delay and the
\* antenna delay are.
THEOREM OldSentAsWritten ==
  ASSUME TimingAssumption, ~Ng
  PROVE Spec => []SentAsWritten
<1>1. IInv => SentAsWritten
  <2> SUFFICES ASSUME IInv, step = "ranged" PROVE (timeRangeSent - txTime) % Period = 0
    BY DEF SentAsWritten
  <2>1. PICK t \in Int : t = timeRangeSent /\ t = txTime
    BY DEF IInv, Bounds, Ticks, TimingAssumption
  <2>2. t - t = 0 /\ Period \in Nat \ {0}
    BY DEF TimingAssumption, Period
  <2> QED BY <2>1, <2>2
<1> QED BY <1>1, SpecIInv, PTL

----
(* The search for the antenna delay remembers on which side of the right     *)
(* delay the last measurement was made: the sign of the last error, at a     *)
(* delay one step away.                                                      *)

SearchTypes ==
  /\ best \in Bests /\ adelay \in Int /\ antd = adelay
  /\ delta \in 0..Step /\ last \in Int /\ phase \in {"calibrating", "done"}

\* The search stays between the start and the right delay, but for a step and an
\* error of measurement.
Low == adelay >= Start \/ adelay >= best - Noise - Step
High == adelay <= Start \/ adelay <= best + Noise + Step

\* The last measurement was made one step before, and the right delay lies on the
\* side its error says, but for the error of the measurement.
LastSide ==
  delta >= 3 =>
    /\ last > 0 => 2 * (best - (adelay - delta)) >= -Noise
    /\ last < 0 => 2 * (best - (adelay + delta)) <= Noise

Close == delta < 3 => 2 * (adelay - best) \in -(6 + Noise)..(6 + Noise)

SearchInv == SearchTypes /\ Low /\ High /\ LastSide /\ Close /\ (phase = "done" => delta < 3)

\* Two numbers of which the product is negative have different signs.
LEMMA OppositeSigns ==
  ASSUME NEW a \in Int, NEW b \in Int
  PROVE a * b < 0 <=> ((a < 0 /\ b > 0) \/ (a > 0 /\ b < 0))
<1>1. CASE a > 0 BY <1>1
<1>2. CASE a = 0 BY <1>2
<1>3. CASE a < 0 BY <1>3
<1> QED BY <1>1, <1>2, <1>3

\* What fits in sixteen bits is kept.
LEMMA SmallIsKept ==
  ASSUME NEW n \in Int, 0 <= n, n < 65536
  PROVE Search!uint16(n) = n
BY DEF Search!uint16

LEMMA InitSearch ==
  ASSUME Search!CalibrationAssumption, Search!Init
  PROVE SearchInv
<1>1. SearchTypes /\ delta = Step /\ Step >= 3 /\ adelay = Start /\ Start \in Int /\ last = 0 /\ phase = "calibrating"
  BY DEF Search!CalibrationAssumption, Search!Init, SearchTypes
<1>2. Low /\ High /\ LastSide /\ Close
  BY <1>1 DEF Search!CalibrationAssumption, SearchTypes, Low, High, LastSide, Close
<1> QED BY <1>1, <1>2 DEF SearchInv

LEMMA NextSearch ==
  ASSUME Search!CalibrationAssumption, SearchInv, [Search!newRange]_Search!vars
  PROVE SearchInv'
<1>1. CASE Search!Final
  BY <1>1 DEF Search!Final, SearchInv, SearchTypes, Low, High, LastSide, Close
<1>2. CASE UNCHANGED Search!vars
  BY <1>2 DEF Search!vars, SearchInv, SearchTypes, Low, High, LastSide, Close
<1>3. CASE Search!NewTrial
  <2>1. PICK this \in Search!Errors : /\ delta' = Search!NextDelta(this) /\ last' = this
                                      /\ adelay' = Search!uint16(IF this > 0 THEN adelay + delta' ELSE adelay - delta')
    BY <1>3 DEF Search!NewTrial
  <2>2. PICK n \in -Noise..Noise : this = 2 * (best - antd) + n
    BY <2>1 DEF Search!Errors
  <2>3. delta >= 3 /\ phase = "calibrating" /\ antd' = adelay' /\ best' = best /\ phase' = phase
    BY <1>3 DEF Search!NewTrial
  <2>4. /\ Noise \in Nat /\ Step \in Nat /\ best \in Int /\ adelay \in Int /\ antd = adelay
        /\ delta \in Int /\ delta <= Step /\ last \in Int /\ n \in Int /\ this \in Int
        /\ -Noise <= n /\ n <= Noise
    BY <2>2 DEF Search!CalibrationAssumption, SearchInv, SearchTypes
  <2> DEFINE Inside(d) == Noise + Step <= d /\ d <= 65535 - Noise - Step
  <2>a. Start \in Int /\ Inside(Start) /\ Inside(best)
    BY DEF Search!CalibrationAssumption, SearchInv, SearchTypes
  <2>b. Low /\ High
    BY DEF SearchInv
  <2>5. PICK width \in Int : /\ delta' = width /\ 1 <= width /\ width <= delta
                             /\ width < 3 => 2 * width >= delta - 1 /\ this * last < 0
                             /\ width >= 3 => width = delta \/ 2 * width <= delta
    <3>1. delta' = IF this * last < 0 THEN delta \div 2 ELSE delta
      BY <2>1 DEF Search!NextDelta
    <3>2. CASE this * last < 0
      BY <3>1, <3>2, <2>3, <2>4
    <3>3. CASE ~(this * last < 0)
      BY <3>1, <3>3, <2>3, <2>4
    <3> QED BY <3>2, <3>3
  <2>6. this > 0 => 0 <= adelay + width /\ adelay + width < 65536
    BY <2>2, <2>4, <2>5, <2>a, <2>b DEF Low, High
  <2>7. ~(this > 0) => 0 <= adelay - width /\ adelay - width < 65536
    BY <2>2, <2>4, <2>5, <2>a, <2>b DEF Low, High
  <2>8. PICK next \in Int : adelay' = next /\ next = IF this > 0 THEN adelay + width ELSE adelay - width
    <3>1. CASE this > 0
      <4>1. adelay' = Search!uint16(adelay + width)
        BY <3>1, <2>1, <2>5
      <4> QED BY <3>1, <4>1, <2>4, <2>5, <2>6, SmallIsKept
    <3>2. CASE ~(this > 0)
      <4>1. adelay' = Search!uint16(adelay - width)
        BY <3>2, <2>1, <2>5
      <4> QED BY <3>2, <4>1, <2>4, <2>5, <2>7, SmallIsKept
    <3> QED BY <3>1, <3>2
  <2>9. SearchTypes'
    BY <2>1, <2>3, <2>4, <2>5, <2>8 DEF SearchInv, SearchTypes
  <2>10. (next >= Start \/ next >= best - Noise - Step) /\ (next <= Start \/ next <= best + Noise + Step)
    BY <2>2, <2>4, <2>5, <2>8, <2>a, <2>b DEF Low, High
  <2>11. Low' /\ High'
    BY <2>3, <2>8, <2>10 DEF Low, High
  <2>12. /\ this > 0 => 2 * (best - (next - width)) >= -Noise
         /\ this < 0 => 2 * (best - (next + width)) <= Noise
    BY <2>2, <2>4, <2>5, <2>8
  <2>13. LastSide'
    BY <2>1, <2>3, <2>5, <2>8, <2>12 DEF LastSide
  <2>14. width < 3 => 2 * (next - best) \in -(6 + Noise)..(6 + Noise)
    <3> SUFFICES ASSUME width < 3 PROVE 2 * (next - best) \in -(6 + Noise)..(6 + Noise)
      OBVIOUS
    <3>1. (this < 0 /\ last > 0) \/ (this > 0 /\ last < 0)
      BY <2>4, <2>5, OppositeSigns
    <3>2. /\ last > 0 => 2 * (best - (adelay - delta)) >= -Noise
          /\ last < 0 => 2 * (best - (adelay + delta)) <= Noise
      BY <2>3 DEF SearchInv, LastSide
    <3>3. delta <= 5
      BY <2>4, <2>5
    <3> QED BY <2>2, <2>3, <2>4, <2>5, <2>8, <3>1, <3>2, <3>3
  <2>15. Close'
    BY <2>3, <2>5, <2>8, <2>14 DEF Close
  <2> QED BY <2>3, <2>9, <2>11, <2>13, <2>15 DEF SearchInv
<1> QED BY <1>1, <1>2, <1>3 DEF Search!newRange

\* Whatever the right delay, the first step and the errors of the measurements: the
\* delay that is printed is three steps and an error from the right one.
THEOREM FinalIsClose == EachSpec => []FinalClose
<1>1. EachInit => SearchInv
  BY SearchValues, InitSearch DEF EachInit
<1>2. SearchInv /\ [EachNext]_allVars => SearchInv'
  <2>1. [EachNext]_allVars => [Search!newRange]_Search!vars
    BY DEF EachNext, OldStep, NgStep, SearchStep, allVars, searchVars, Search!vars
  <2> QED BY <2>1, SearchValues, NextSearch
<1>3. SearchInv => FinalClose
  BY DEF SearchInv, Close, FinalClose, Search!FinalClose
<1> QED BY <1>1, <1>2, <1>3, PTL DEF EachSpec

----
(* DW1000NgRTLS: differences of 32 bits are taken of readings of 40 bits, of *)
(* which FINAL carries the low four bytes. What counts is what the readings  *)
(* are but for whole periods of the 32 bit counter: Alike.                   *)

Alike(x, y) == x \in Int /\ y \in Int /\ \E k \in Int : x = y + k * NgShort

LEMMA Division ==
  ASSUME NEW m \in Nat \ {0}, NEW x \in Int
  PROVE x % m \in 0..(m - 1) /\ x \div m \in Int /\ x = m * (x \div m) + (x % m)
OBVIOUS

\* Factors may change places.
LEMMA Regroup ==
  ASSUME NEW a \in Int, NEW b \in Int, NEW c \in Int
  PROVE (a * b) * c = (b * c) * a /\ b * c \in Int
OBVIOUS

LEMMA NgPeriods ==
  /\ NgClock \in Nat \ {0} /\ NgShort \in Nat \ {0} /\ Coarse \in Nat \ {0}
  /\ NgClock = NgShort * (NgClock \div NgShort) /\ NgClock \div NgShort \in Int
  /\ NgClock = Coarse * (NgClock \div Coarse) /\ NgClock \div Coarse \in Int
  /\ Antenna \in Int /\ NgDelay \in Int /\ Flights \subseteq Nat /\ Replies \subseteq Nat
<1>1. /\ NgClock \in Nat \ {0} /\ NgShort \in Nat \ {0} /\ Coarse \in Nat \ {0}
      /\ NgClock % NgShort = 0 /\ NgClock % Coarse = 0
      /\ Antenna \in Int /\ NgDelay \in Int /\ Flights \subseteq Nat /\ Replies \subseteq Nat
  BY NgTimes DEF NgTiming!TimingAssumption
<1>2. ASSUME NEW m \in Nat \ {0}, NgClock % m = 0
      PROVE NgClock = m * (NgClock \div m) /\ NgClock \div m \in Int
  <2>1. NgClock \in Int BY <1>1
  <2>2. NgClock = m * (NgClock \div m) + (NgClock % m) /\ NgClock \div m \in Int
    BY <2>1, Division
  <2>3. m * (NgClock \div m) \in Int BY <2>2
  <2> QED BY <1>2, <2>2, <2>3
<1> QED BY <1>1, <1>2

LEMMA AlikeTwice ==
  ASSUME NEW x, NEW y, NEW z, Alike(x, y), Alike(y, z)
  PROVE Alike(x, z)
<1>1. PICK k \in Int : x = y + k * NgShort
  BY DEF Alike
<1>2. PICK l \in Int : y = z + l * NgShort
  BY DEF Alike
<1>3. NgShort \in Int BY NgPeriods
<1>4. x = z + (k + l) * NgShort
  BY <1>1, <1>2, <1>3 DEF Alike
<1> QED BY <1>4 DEF Alike

LEMMA AlikeBack ==
  ASSUME NEW x, NEW y, Alike(x, y)
  PROVE Alike(y, x)
<1>1. PICK k \in Int : x = y + k * NgShort
  BY DEF Alike
<1>2. NgShort \in Int BY NgPeriods
<1>3. y = x + (-k) * NgShort
  BY <1>1, <1>2 DEF Alike
<1> QED BY <1>3 DEF Alike

LEMMA AlikeLater ==
  ASSUME NEW x, NEW y, NEW d \in Int, Alike(x, y)
  PROVE Alike(x + d, y + d)
<1>1. PICK k \in Int : x = y + k * NgShort
  BY DEF Alike
<1>2. NgShort \in Int BY NgPeriods
<1>3. x + d = (y + d) + k * NgShort
  BY <1>1, <1>2 DEF Alike
<1> QED BY <1>3 DEF Alike

\* A reading of the clock counts whole periods of the counter.
LEMMA ClockAlike ==
  ASSUME NEW x \in Int
  PROVE Alike(x % NgClock, x) /\ x % NgClock \in 0..(NgClock - 1)
<1>1. /\ NgClock \in Nat \ {0} /\ NgShort \in Nat \ {0}
  BY NgPeriods
<1>2. PICK q \in Int : NgClock = NgShort * q
  BY NgPeriods
<1>3. PICK k \in Int, r \in Int : x = NgClock * k + r /\ r = x % NgClock /\ 0 <= r /\ r < NgClock
  BY <1>1
<1>4. r = x + (-(q * k)) * NgShort
  <2>1. NgClock * k = (q * k) * NgShort BY <1>1, <1>2, Regroup
  <2>2. PICK e \in Int : e = q * k OBVIOUS
  <2>3. PICK p \in Int : p = NgClock * k BY <1>1
  <2>4. (-e) * NgShort = -p BY <1>1, <2>1, <2>2, <2>3
  <2>5. r = x + (-p) BY <1>3, <2>3
  <2> QED BY <2>2, <2>4, <2>5
<1>5. -(q * k) \in Int OBVIOUS
<1>6. Alike(r, x) BY <1>4, <1>5 DEF Alike
<1>7. r \in 0..(NgClock - 1) BY <1>1, <1>3
<1> QED BY <1>3, <1>6, <1>7

LEMMA ShortAlike ==
  ASSUME NEW x \in Int
  PROVE Alike(x % NgShort, x)
<1>1. NgShort \in Nat \ {0}
  BY NgPeriods
<1>2. PICK k \in Int, r \in Int : x = NgShort * k + r /\ r = x % NgShort
  BY <1>1
<1>3. r = x + (-k) * NgShort
  BY <1>1, <1>2
<1> QED BY <1>2, <1>3 DEF Alike

LEMMA AlikeSmall ==
  ASSUME NEW x, NEW y, Alike(x, y), y \in 0..(NgShort - 1)
  PROVE x % NgShort = y
<1>1. PICK k \in Int : x = y + k * NgShort
  BY DEF Alike
<1>2. NgShort \in Nat \ {0} /\ y \in Int /\ x \in Int
  BY NgPeriods DEF Alike
<1>3. PICK q \in Int, r \in Int : x = NgShort * q + r /\ r = x % NgShort /\ 0 <= r /\ r < NgShort
  BY <1>2
<1>4. y - r = (q - k) * NgShort
  <2>1. y + k * NgShort = NgShort * q + r BY <1>1, <1>3
  <2>2. PICK n \in Int : n = NgShort BY <1>2
  <2>3. y - r = n * q - k * n BY <1>2, <2>1, <2>2
  <2>4. n * q - k * n = (q - k) * n BY <2>2
  <2> QED BY <2>2, <2>3, <2>4
<1>5. PICK e \in Int : e = q - k
  OBVIOUS
<1>6. e < 1
  <2> SUFFICES ASSUME e >= 1 PROVE FALSE BY <1>5
  <2>1. e * NgShort >= NgShort BY <1>2
  <2> QED BY <1>2, <1>3, <1>4, <1>5, <2>1
<1>7. e > -1
  <2> SUFFICES ASSUME e <= -1 PROVE FALSE BY <1>5
  <2>1. e * NgShort <= -NgShort BY <1>2
  <2> QED BY <1>2, <1>3, <1>4, <1>5, <2>1
<1>8. e = 0 BY <1>5, <1>6, <1>7
<1> QED BY <1>2, <1>3, <1>4, <1>5, <1>8

\* A difference of two uint32_t is the time between the readings.
LEMMA DifferenceAlike ==
  ASSUME NEW s, NEW t, NEW d \in 0..(NgShort - 1), Alike(t, s + d), s \in Int
  PROVE NgTiming!Difference(t, s) = d
<1>1. NgShort \in Nat \ {0} /\ t \in Int
  BY NgPeriods DEF Alike
<1>2. PICK a \in Int, b \in Int : a = t % NgShort /\ b = s % NgShort
  BY <1>1
<1>3. Alike(a, t) /\ Alike(b, s)
  BY <1>1, <1>2, ShortAlike
<1>4. d \in Int BY <1>1
<1>5. Alike(a, s + d)
  BY <1>3, AlikeTwice
<1>6. Alike(s + d, b + d)
  BY <1>3, <1>4, AlikeBack, AlikeLater
<1>7. Alike(a, b + d)
  BY <1>5, <1>6, AlikeTwice
<1>8. Alike(a + (-b), (b + d) + (-b))
  BY <1>2, <1>7, AlikeLater
<1>9. a + (-b) = a - b /\ (b + d) + (-b) = d
  BY <1>2, <1>4
<1>10. Alike(a - b, d)
  BY <1>8, <1>9
<1> QED BY <1>2, <1>10, AlikeSmall DEF NgTiming!Difference

----
(* The states of an exchange of DW1000NgRTLS *)

NgBounds ==
  /\ ngStep \in {"idle", "polled", "answered", "ranged"}
  /\ ngTag \in Int /\ ngAnchor \in Int /\ ngFlight \in Nat
  /\ ngPollSent \in Int /\ ngPollAckSent \in Int /\ ngPollReceived \in Int

NgPolled == Alike(ngTag, ngPollSent + ngFlight) /\ ngPollReceived = ngAnchor

NgAnswered(d) ==
  /\ d + 2 * ngFlight < NgShort
  /\ Alike(ngTag, ngPollSent + (d + 2 * ngFlight)) /\ ngPollAckReceived = ngTag
  /\ Alike(ngPollAckSent, ngPollReceived + d) /\ Alike(ngAnchor, ngPollAckSent + ngFlight)

NgInv ==
  /\ NgBounds
  /\ ngStep = "polled" => NgPolled
  /\ ngStep = "answered" => \E d \in Nat : NgAnswered(d)
  /\ ngStep = "ranged" => ngTof = ngFlight

LEMMA NgPollInv ==
  ASSUME NgInv, NgTiming!Poll
  PROVE NgInv'
<1>1. PICK f \in Nat : f = ngFlight'
  BY NgPeriods DEF NgTiming!Poll
<1>2. ngTag \in Int /\ ngAnchor \in Int /\ ngPollAckSent \in Int
  BY DEF NgInv, NgBounds
<1>3. /\ ngTag' = (ngTag + f) % NgClock /\ ngAnchor' = (ngAnchor + f) % NgClock
      /\ ngPollSent' = ngTag /\ ngPollReceived' = ngAnchor' /\ ngStep' = "polled"
      /\ ngPollAckSent' = ngPollAckSent
  BY <1>1 DEF NgTiming!Poll, NgTiming!Later
<1>4. Alike((ngTag + f) % NgClock, ngTag + f) /\ Alike((ngAnchor + f) % NgClock, ngAnchor + f)
  BY <1>1, <1>2, ClockAlike
<1>5. ngTag' \in Int /\ ngAnchor' \in Int
  BY <1>3, <1>4 DEF Alike
<1> QED BY <1>1, <1>2, <1>3, <1>4, <1>5 DEF NgInv, NgBounds, NgPolled

\* What InTime says of the exchange: no counter goes round.
LEMMA NgInTime ==
  ASSUME NEW d \in Nat, ngFlight \in Nat, NgTiming!InTime(d)
  PROVE d + 2 * ngFlight < NgShort
<1>1. d + 2 * ngFlight - 0 \in 0..(NgShort - 1)
  BY DEF NgTiming!InTime, NgTiming!Period
<1> QED BY <1>1, NgPeriods

LEMMA NgPollAckInv ==
  ASSUME NgInv, NgTiming!PollAck
  PROVE NgInv'
<1>1. PICK d \in Nat : /\ NgTiming!InTime(d) /\ ngPollAckSent' = (ngAnchor + d) % NgClock
                       /\ ngTag' = (ngTag + (d + ngFlight)) % NgClock
                       /\ ngAnchor' = (ngAnchor + (d + ngFlight)) % NgClock
  BY NgPeriods DEF NgTiming!PollAck, NgTiming!Later
<1>2. PICK f \in Nat : f = ngFlight
  BY DEF NgInv, NgBounds
<1>3. /\ ngTag \in Int /\ ngAnchor \in Int /\ ngPollSent \in Int
      /\ Alike(ngTag, ngPollSent + f) /\ ngPollReceived = ngAnchor
  BY <1>2 DEF NgInv, NgBounds, NgPolled, NgTiming!PollAck
<1>4. /\ UNCHANGED <<ngFlight, ngPollSent, ngPollReceived>>
      /\ ngPollAckReceived' = ngTag' /\ ngStep' = "answered"
  BY DEF NgTiming!PollAck, NgTiming!Received
<1>5. PICK tag1 \in Int, anchor1 \in Int, sent1 \in Int :
        tag1 = ngTag' /\ anchor1 = ngAnchor' /\ sent1 = ngPollAckSent'
  <2>1. (ngAnchor + d) % NgClock \in Int /\ (ngTag + (d + f)) % NgClock \in Int /\ (ngAnchor + (d + f)) % NgClock \in Int
    BY <1>3, NgPeriods
  <2> QED BY <1>1, <1>2, <2>1
<1>6. /\ Alike(tag1, ngTag + (d + f)) /\ Alike(anchor1, ngAnchor + (d + f)) /\ Alike(sent1, ngAnchor + d)
  BY <1>1, <1>2, <1>3, <1>5, ClockAlike
<1>7. Alike(tag1, ngPollSent + (d + 2 * f))
  <2>1. Alike(ngTag + (d + f), (ngPollSent + f) + (d + f))
    <3>1. d + f \in Int OBVIOUS
    <3> QED BY <1>3, <3>1, AlikeLater
  <2>2. (ngPollSent + f) + (d + f) = ngPollSent + (d + 2 * f)
    BY <1>3
  <2> QED BY <1>6, <2>1, <2>2, AlikeTwice
<1>8. Alike(anchor1, sent1 + f)
  <2>1. Alike((ngAnchor + d) + f, sent1 + f)
    <3>1. Alike(ngAnchor + d, sent1) /\ f \in Int BY <1>6, AlikeBack
    <3> QED BY <3>1, AlikeLater
  <2>2. (ngAnchor + d) + f = ngAnchor + (d + f)
    BY <1>3
  <2> QED BY <1>6, <2>1, <2>2, AlikeTwice
<1>9. d + 2 * f < NgShort
  BY <1>1, <1>2, NgInTime
<1>10. NgAnswered(d)'
  BY <1>2, <1>3, <1>4, <1>5, <1>6, <1>7, <1>8, <1>9 DEF NgAnswered
<1>11. NgBounds'
  BY <1>2, <1>3, <1>4, <1>5 DEF NgBounds
<1> QED BY <1>4, <1>10, <1>11 DEF NgInv

\* A delay in whole units of the radio: FINAL leaves when it says, but for whole
\* periods of the clock.
LEMMA NgLeavesAsSaid ==
  ASSUME NgDelay % Coarse = 0, NEW t \in Int
  PROVE /\ NgTiming!Delayed(t).says \in Int
        /\ Alike(NgTiming!LeavesAt(NgTiming!Delayed(t).dx), NgTiming!Delayed(t).says)
        /\ NgTiming!LeavesAt(NgTiming!Delayed(t).dx) \in 0..(NgClock - 1)
<1>1. /\ Coarse \in Nat \ {0} /\ NgClock \in Nat \ {0} /\ Antenna \in Int /\ NgDelay \in Int
  BY NgPeriods
<1>2. PICK a \in Int : NgDelay = Coarse * a
  <2>1. NgDelay = Coarse * (NgDelay \div Coarse) + (NgDelay % Coarse) /\ NgDelay \div Coarse \in Int
    BY <1>1, Division
  <2>2. Coarse * (NgDelay \div Coarse) \in Int BY <1>1, <2>1
  <2> QED BY <2>1, <2>2
<1>3. PICK b \in Int : NgClock = Coarse * b
  BY NgPeriods
<1>4. PICK q \in Int : NgTiming!SystemTime(t) = Coarse * q
  <2>1. PICK q \in Int, r \in Int : t = Coarse * q + r /\ r = t % Coarse
    BY <1>1, Division
  <2>2. t - (t % Coarse) = Coarse * q
    BY <1>1, <2>1
  <2> QED BY <2>2 DEF NgTiming!SystemTime, NgTiming!RoundDown
<1>5. PICK future \in Int : future = NgTiming!SystemTime(t) + NgDelay
  BY <1>1, <1>4
<1>6. future = Coarse * (q + a)
  BY <1>1, <1>2, <1>4, <1>5
<1>7. PICK k \in Int, dx \in Int : future = NgClock * k + dx /\ dx = future % NgClock
  <2>1. future % NgClock \in Int BY <1>1
  <2> QED BY <1>1, <2>1, Division
<1>8. dx = Coarse * (q + a - b * k)
  <2>1. PICK e \in Int : e = b * k OBVIOUS
  <2>2. NgClock * k = e * Coarse BY <1>1, <1>3, <2>1, Regroup
  <2>3. dx = Coarse * (q + a) - e * Coarse
    <3>1. PICK p \in Int : p = NgClock * k BY <1>1
    <3>2. dx = future - p BY <1>7, <3>1
    <3> QED BY <1>6, <2>2, <3>1, <3>2
  <2>4. Coarse * (q + a) - e * Coarse = Coarse * (q + a - e) BY <1>1
  <2> QED BY <2>1, <2>3, <2>4
<1>9. dx % Coarse = 0
  <2>1. PICK e \in Int : e = q + a - b * k
    OBVIOUS
  <2>2. (Coarse * e) % Coarse = 0
    BY <1>1
  <2> QED BY <1>8, <2>1, <2>2
<1>10. NgTiming!RoundDown(dx) = dx
  BY <1>9 DEF NgTiming!RoundDown
<1>11. NgTiming!Delayed(t).dx = dx /\ NgTiming!Delayed(t).says = future + Antenna
  BY <1>5, <1>7 DEF NgTiming!Delayed, NgTiming!SetDelayedTRX, NgTiming!Bytes
<1>12. NgTiming!LeavesAt(dx) = (dx + Antenna) % NgClock
  BY <1>10 DEF NgTiming!LeavesAt, NgTiming!Later
<1>13. Alike((dx + Antenna) % NgClock, dx + Antenna) /\ (dx + Antenna) % NgClock \in 0..(NgClock - 1)
  <2>1. dx + Antenna \in Int BY <1>1
  <2> QED BY <2>1, ClockAlike
<1>14. Alike(dx + Antenna, future + Antenna)
  <2>1. Alike(dx, future) BY <1>7, ClockAlike
  <2> QED BY <1>1, <2>1, AlikeLater
<1> QED BY <1>1, <1>11, <1>12, <1>13, <1>14, AlikeTwice

\* What FINAL carries of a time stamp, and the byte behind it.
LEMMA CarriedAlike ==
  ASSUME NEW t \in Int, NEW n \in Int
  PROVE NgTiming!Carried(t, n) \in Int /\ Alike(NgTiming!Carried(t, n), t)
<1>1. NgShort \in Int /\ t % NgShort \in Int
  BY NgPeriods
<1>2. Alike((t % NgShort) + NgShort * n, t % NgShort)
  <2>1. PICK u \in Int, m \in Int : u = t % NgShort /\ m = NgShort
    BY <1>1
  <2>2. u + m * n = u + n * m /\ u + m * n \in Int
    OBVIOUS
  <2> QED BY <2>1, <2>2 DEF Alike
<1>3. Alike((t % NgShort) + NgShort * n, t)
  BY <1>2, ShortAlike, AlikeTwice
<1> QED BY <1>3 DEF NgTiming!Carried, Alike

LEMMA NgRangeInv ==
  ASSUME NgDelay % Coarse = 0, NgInv, NgTiming!Range
  PROVE NgInv'
<1>1. PICK d \in Nat : NgAnswered(d)
  BY DEF NgTiming!Range, NgInv
<1>2. PICK f \in Nat, t \in Int, a \in Int, ps \in Int, pas \in Int, pr \in Int :
        /\ f = ngFlight /\ t = ngTag /\ a = ngAnchor
        /\ ps = ngPollSent /\ pas = ngPollAckSent /\ pr = ngPollReceived
  BY DEF NgInv, NgBounds
<1>3. PICK q \in Replies :
        LET delayed == NgTiming!Delayed(NgTiming!Later(ngTag, q))
            leaves == NgTiming!LeavesAt(delayed.dx)
            reply == NgTiming!Elapsed(ngTag, leaves) IN
        /\ NgTiming!InTime(reply)
        /\ ngTag' = NgTiming!Later(leaves, ngFlight) /\ ngAnchor' = NgTiming!Later(ngAnchor, reply + ngFlight)
        /\ \E next \in 0..(NgClock \div NgShort - 1) :
             /\ ngPollSent' = NgTiming!Carried(ngPollSent, next)
             /\ ngPollAckReceived' = NgTiming!Carried(ngPollAckReceived, next)
             /\ ngRangeSent' = NgTiming!Carried(delayed.says, next)
  BY DEF NgTiming!Range
<1>4. PICK now \in Int : now = NgTiming!Later(t, q)
  <2>1. (t + q) % NgClock \in Int BY NgPeriods
  <2> QED BY <2>1 DEF NgTiming!Later
<1>5. PICK leaves \in Int, says \in Int :
        /\ leaves = NgTiming!LeavesAt(NgTiming!Delayed(now).dx) /\ says = NgTiming!Delayed(now).says
        /\ Alike(leaves, says)
  <2>1. NgClock \in Int BY NgPeriods
  <2> QED BY <2>1, NgLeavesAsSaid
<1>6. PICK r \in Nat : r = NgTiming!Elapsed(t, leaves) /\ Alike(r, leaves - t)
  <2>1. NgClock \in Int BY NgPeriods
  <2> QED BY <2>1, ClockAlike DEF NgTiming!Elapsed
<1>7. PICK next \in Int :
        /\ NgTiming!InTime(r)
        /\ ngTag' = NgTiming!Later(leaves, f) /\ ngAnchor' = NgTiming!Later(a, r + f)
        /\ ngPollSent' = NgTiming!Carried(ps, next)
        /\ ngPollAckReceived' = NgTiming!Carried(t, next)
        /\ ngRangeSent' = NgTiming!Carried(says, next)
  <2>1. ngPollAckReceived = t BY <1>1, <1>2 DEF NgAnswered
  <2> QED BY <1>2, <1>3, <1>4, <1>5, <1>6, <2>1, NgPeriods
<1>8. PICK ps1 \in Int, par1 \in Int, rs1 \in Int, a1 \in Int, t1 \in Int :
        /\ ps1 = ngPollSent' /\ par1 = ngPollAckReceived' /\ rs1 = ngRangeSent' /\ a1 = ngAnchor' /\ t1 = ngTag'
        /\ Alike(ps1, ps) /\ Alike(par1, t) /\ Alike(rs1, says) /\ Alike(a1, a + (r + f))
  <2>1. /\ NgTiming!Later(leaves, f) = (leaves + f) % NgClock
        /\ NgTiming!Later(a, r + f) = (a + (r + f)) % NgClock
    BY DEF NgTiming!Later
  <2>2. (leaves + f) % NgClock \in Int /\ (a + (r + f)) % NgClock \in Int
    BY NgPeriods
  <2>3. Alike((a + (r + f)) % NgClock, a + (r + f))
    BY ClockAlike
  <2> QED BY <1>7, <2>1, <2>2, <2>3, CarriedAlike
<1>9. /\ d + 2 * f < NgShort /\ Alike(t, ps + (d + 2 * f))
      /\ Alike(pas, pr + d) /\ Alike(a, pas + f)
  BY <1>1, <1>2 DEF NgAnswered
<1>10. r + 2 * f < NgShort
  BY <1>2, <1>7, NgInTime
<1>11. ngFlight' = f /\ ngPollReceived' = pr /\ ngPollAckSent' = pas /\ ngRangeReceived' = a1 /\ ngStep' = "ranged"
  BY <1>2, <1>8 DEF NgTiming!Range, NgTiming!Received
<1>12. NgTiming!Difference(par1, ps1) = d + 2 * f
  <2>1. Alike(ps + (d + 2 * f), ps1 + (d + 2 * f))
    <3>1. Alike(ps, ps1) /\ d + 2 * f \in Int BY <1>8, AlikeBack
    <3> QED BY <3>1, AlikeLater
  <2>2. Alike(par1, ps1 + (d + 2 * f))
    BY <1>8, <1>9, <2>1, AlikeTwice
  <2>3. d + 2 * f \in 0..(NgShort - 1)
    BY <1>9, NgPeriods
  <2> QED BY <2>2, <2>3, DifferenceAlike
<1>13. NgTiming!Difference(pas, pr) = d
  <2>1. d \in 0..(NgShort - 1)
    BY <1>9, NgPeriods
  <2> QED BY <1>9, <2>1, DifferenceAlike
<1>14. NgTiming!Difference(a1, pas) = r + 2 * f
  <2>1. Alike(a + (r + f), (pas + f) + (r + f))
    <3>1. r + f \in Int OBVIOUS
    <3> QED BY <1>9, <3>1, AlikeLater
  <2>2. (pas + f) + (r + f) = pas + (r + 2 * f)
    OBVIOUS
  <2>3. Alike(a1, pas + (r + 2 * f))
    BY <1>8, <2>1, <2>2, AlikeTwice
  <2>4. r + 2 * f \in 0..(NgShort - 1)
    BY <1>10, NgPeriods
  <2> QED BY <2>3, <2>4, DifferenceAlike
<1>15. NgTiming!Difference(rs1, par1) = r
  <2>1. Alike(leaves - t, r)
    BY <1>6, AlikeBack
  <2>2. Alike((leaves - t) + t, r + t)
    BY <2>1, AlikeLater
  <2>3. (leaves - t) + t = leaves /\ r + t = t + r
    OBVIOUS
  <2>4. Alike(t + r, par1 + r)
    <3>1. Alike(t, par1) /\ r \in Int BY <1>8, AlikeBack
    <3> QED BY <3>1, AlikeLater
  <2>5. Alike(rs1, leaves)
    BY <1>5, <1>8, AlikeBack, AlikeTwice
  <2>6. Alike(leaves, par1 + r)
    BY <2>2, <2>3, <2>4, AlikeTwice
  <2>7. Alike(rs1, par1 + r)
    BY <2>5, <2>6, AlikeTwice
  <2>8. r \in 0..(NgShort - 1)
    BY <1>10, NgPeriods
  <2> QED BY <2>7, <2>8, DifferenceAlike
<1>16. ngTof' = f
  <2>1. ngTof' = NgTiming!TimeOfFlight(NgTiming!Difference(par1, ps1), NgTiming!Difference(pas, pr),
                                       NgTiming!Difference(a1, pas), NgTiming!Difference(rs1, par1))
    BY <1>8, <1>11 DEF NgTiming!Range, NgTiming!NgRange
  <2>2. TimeOfFlight(d + 2 * f, d, r + 2 * f, r) = f
    <3>1. d + 2 * f >= 0 /\ r + 2 * f >= 0 OBVIOUS
    <3> QED BY <3>1, ExactFlight
  <2>3. NgTiming!TimeOfFlight(d + 2 * f, d, r + 2 * f, r) = TimeOfFlight(d + 2 * f, d, r + 2 * f, r)
    BY DEF NgTiming!TimeOfFlight, TimeOfFlight, NgTiming!Quotient, Quotient
  <2> QED BY <1>12, <1>13, <1>14, <1>15, <2>1, <2>2, <2>3
<1> QED BY <1>8, <1>11, <1>16 DEF NgInv, NgBounds

LEMMA NgNextInv ==
  ASSUME NgDelay % Coarse = 0, NgInv, [EachNext]_allVars
  PROVE NgInv'
<1>1. CASE NgTiming!Poll BY <1>1, NgPollInv
<1>2. CASE NgTiming!PollAck BY <1>2, NgPollAckInv
<1>3. CASE NgTiming!Range BY <1>3, NgRangeInv
<1>4. CASE UNCHANGED ngVars
  BY <1>4 DEF ngVars, NgInv, NgBounds, NgPolled, NgAnswered
<1>5. NgTiming!Next \/ UNCHANGED ngVars
  BY DEF EachNext, OldStep, NgStep, SearchStep, allVars
<1> QED BY <1>1, <1>2, <1>3, <1>4, <1>5 DEF NgTiming!Next

\* computeRangeAsymmetric of DW1000NgRanging is exact wherever the clocks are and
\* whatever the fifth byte of a time stamp is, if only no exchange takes longer than
\* the 32 bits count and the delay is in the units the radio counts in, as that of
\* the sketches is.
THEOREM NgRangeIsExact ==
  ASSUME NgDelay % Coarse = 0
  PROVE EachSpec => []NgRangeExact
<1>1. EachInit => NgInv
  <2> SUFFICES ASSUME EachInit PROVE NgInv OBVIOUS
  <2>1. NgTiming!Init BY DEF EachInit
  <2>2. 0..(NgClock - 1) \subseteq Int BY NgPeriods
  <2> QED BY <2>1, <2>2 DEF NgTiming!Init, NgInv, NgBounds
<1>2. NgInv /\ [EachNext]_allVars => NgInv'
  BY NgNextInv
<1>3. NgInv => NgRangeExact
  <2> SUFFICES ASSUME NgInv, ngStep = "ranged" PROVE ngTof = ngFlight - 0
    BY DEF NgRangeExact, NgTiming!RangeExact, NgTiming!Correction
  <2> QED BY DEF NgInv, NgBounds
<1> QED BY <1>1, <1>2, <1>3, PTL DEF EachSpec
====
