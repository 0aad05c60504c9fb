---- MODULE RangeTimingProperties ----
(* What the time stamps of an exchange promise. *)
EXTENDS RangeTiming

Ticks == 0..(Clock - 1)

TypeOK ==
  /\ step \in {"idle", "polled", "answered", "ranged"}
  /\ tag \in Ticks /\ anchor \in Ticks /\ txTime \in Ticks
  /\ flight \in Flights \cup {0} /\ power \in Powers \cup {61}
  /\ timePollSent \in Ticks /\ timeRangeSent \in Ticks /\ timePollAckSent \in Ticks
  /\ timePollAckReceived \in Int /\ timePollReceived \in Int /\ timeRangeReceived \in Int /\ tof \in Int

\* The computed time is the time of flight less the correction for the received
\* power, whenever in their period the two clocks were read (DW1000Ranging.cpp:962,
\* DW1000NgRanging.cpp:35).
RangeExact == step = "ranged" => tof = flight - Correction

\* RANGE leaves at the very time that is written into it, as far as its bytes go
\* (DW1000Ranging.cpp:893, DW1000NgRTLS.cpp:82).
SentAsWritten == step = "ranged" => (timeRangeSent - txTime) % Period = 0
====
