---- MODULE MCDriverInterrupt ----
(* Instances of DriverInterrupt for TLC: a processor that is done with each  *)
(* interrupt before the next event comes, and one that may be late at any    *)
(* point. The variables of the other one stay as they start.                 *)
EXTENDS DriverInterruptProperties

VARIABLES
  processor,
  lateChip, latePending, lateStatus, lateControl, lateMode, latePermanent, lateIsr, lateMain, lateWant, lateFresh, lateRearmed

Late == INSTANCE DriverInterruptProperties
  WITH Prompt <- FALSE,
       chip <- lateChip, pending <- latePending, sysstatus <- lateStatus, sysctrl <- lateControl,
       deviceMode <- lateMode, permanent <- latePermanent, isr <- lateIsr, main <- lateMain,
       want <- lateWant, fresh <- lateFresh, rearmed <- lateRearmed

lateVars == <<lateChip, latePending, lateStatus, lateControl, lateMode, latePermanent, lateIsr, lateMain,
              lateWant, lateFresh, lateRearmed>>

EachInit == processor \in {"prompt", "late"} /\ Init /\ Late!Init
PromptStep == processor = "prompt" /\ Next /\ UNCHANGED <<processor, lateVars>>
LateStep == processor = "late" /\ Late!Next /\ UNCHANGED <<processor, vars>>
EachSpec ==
  /\ EachInit /\ [][PromptStep \/ LateStep]_<<processor, vars, lateVars>>
  /\ processor = "late" => Late!Fairness

\* While the line of the late processor is up an edge is due or its routine runs: it
\* waits for edges, so a line that stays up would be the last interrupt (DW1000.cpp:751).
LateLineSeen == Late!LineSeen

\* Whatever events the late processor misses, its radio listens again and again.
LateListens == processor = "late" => Late!ListensAgain
====
