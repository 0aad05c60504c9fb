---- MODULE Calibration ----
(* anchor_autocalibrate.ino: the search for the antenna delay with which an  *)
(* anchor measures a known distance. The step is halved when the error of    *)
(* the measured distance changes its sign. An error is counted in half steps *)
(* of the delay and falls when the delay grows.                              *)
EXTENDS Integers

CONSTANTS
  Start,     \* this_anchor_Adelay at the start
  Step,      \* Adelay_delta at the start
  Bests,     \* delays that could be the right one
  Noise      \* a measurement errs by at most so many half steps

\* The search stays away from the ends of uint16_t.
CalibrationAssumption ==
  /\ Step \in Nat /\ Step >= 3 /\ Noise \in Nat
  /\ Start \in (Noise + Step)..(65535 - Noise - Step)
  /\ Bests \subseteq (Noise + Step)..(65535 - Noise - Step)

VARIABLES
  best,         \* the delay that measures the target distance
  adelay,       \* this_anchor_Adelay
  delta,        \* Adelay_delta
  last,         \* last_delta
  antd,         \* the delay the radio uses
  phase         \* "calibrating", or "done": in while(1)

vars == <<best, adelay, delta, last, antd, phase>>

uint16(n) == n % 65536

\* this_delta. Odd, so that no measured distance is the target itself.
Errors == {2 * (best - antd) + n : n \in {k \in -Noise..Noise : k % 2 = 1}}

Init ==
  /\ best \in Bests
  /\ adelay = Start /\ antd = Start /\ delta = Step /\ last = 0 /\ phase = "calibrating"

Final ==
  /\ phase = "calibrating" /\ delta < 3
  /\ phase' = "done"
  /\ UNCHANGED <<best, adelay, delta, last, antd>>

\* Mutants of NextDelta: the step is halved when the sign stays; it never gets
\* lower than what the end is tested for.
NextDeltaSame(this) == IF this * last > 0 THEN delta \div 2 ELSE delta
NextDeltaFloor(this) == IF this * last < 0 /\ delta > 5 THEN delta \div 2 ELSE delta

\* The sign changed: the step is halved.
NextDelta(this) == IF this * last < 0 THEN delta \div 2 ELSE delta

\* A distance that is too long asks for a longer delay.
NewTrial ==
  /\ phase = "calibrating" /\ delta >= 3
  /\ \E this \in Errors :
       /\ delta' = NextDelta(this)
       /\ last' = this
       /\ adelay' = uint16(IF this > 0 THEN adelay + delta' ELSE adelay - delta')
  /\ antd' = adelay'
  /\ UNCHANGED <<best, phase>>

newRange == Final \/ NewTrial

Spec == Init /\ [][newRange]_vars
FairSpec == Spec /\ WF_vars(newRange)
====
