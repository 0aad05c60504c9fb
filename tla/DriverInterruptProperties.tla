---- MODULE DriverInterruptProperties ----
EXTENDS DriverInterrupt

TypeOK ==
  /\ chip \in Chip /\ pending \in BOOLEAN /\ fresh \in BOOLEAN /\ permanent \in BOOLEAN
  /\ rearmed \in BOOLEAN
  /\ sysstatus \subseteq Events /\ sysctrl \subseteq ControlBits
  /\ deviceMode \in {"idle", "rx", "tx"}
  /\ isr \in {"off", "read", "sent", "received", "rearm", "clear"}
  /\ main \in {"loop", "idling", "ready", "set", "sending"}
  /\ want \in {"plain", "delayed", "receive"}

\* While the line is up an edge is due or the routine runs: the routine waits
\* for edges, so a line that stays up unseen would be the last interrupt.
LineSeen == Raised(chip) => pending \/ isr # "off"

\* A good frame is reported, once: it waits for a routine that is due or runs,
\* and the handler is only called for a frame that was not reported.
ReportedOnce ==
  /\ fresh => pending \/ isr \in {"read", "sent", "received"}
  /\ isr = "received" /\ IsReceiveDone => fresh

\* Once started, the receiver is on whenever main is in its loop and no routine is due.
NotDeaf == permanent /\ main = "loop" /\ isr = "off" /\ ~pending => chip.mode # "idle"

\* A transmission for which setDelay was called waits for its time, and no other does:
\* the time that transmitRange writes into RANGE is the time it leaves. Wherever in main
\* an interrupt comes, only one thing can break that: the routine receives a frame between
\* the two statements of idle() (DW1000.cpp:1034-1037) and so takes over _sysctrl.
DelayedAsAsked ==
  [][~Sending(chip) /\ Sending(chip') => rearmed \/ (chip'.mode = "delayed" <=> want = "delayed")]_vars

\* Whatever events the routine missed, the radio listens again and again.
ListensAgain == []<>Listening(chip)
====
