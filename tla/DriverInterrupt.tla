---- MODULE DriverInterrupt ----
(* DW1000.cpp between the interrupt service routine and the main program.    *)
(* The routine runs on a rising edge of the interrupt line, reads the status *)
(* register once and acts on that copy; main sends and listens through       *)
(* newTransmit, setDelay, startTransmit and receiver(), as DW1000Ranging     *)
(* does. Both write the same static members.                                 *)
EXTENDS Radio

CONSTANT
  Prompt         \* the routine is over before the chip has its next event,
                 \* and main does not go on while it is due

VARIABLES
  chip, pending, \* the radio, and an edge of its line not yet served
  sysstatus,     \* _sysstatus: the copy of the status register
  sysctrl,       \* _sysctrl: the bits of the next write to SYS_CTRL
  deviceMode,    \* _deviceMode
  permanent,     \* _permanentReceive
  isr, main,     \* where the routine and the main program are
  want,          \* what main is about to do
  fresh,         \* history: a good frame came and its handler was not called
  rearmed        \* history: the routine went on listening inside the last idle()

vars == <<chip, pending, sysstatus, sysctrl, deviceMode, permanent, isr, main, want, fresh, rearmed>>
driver == <<sysstatus, sysctrl, deviceMode, permanent>>

\* setDefaults: interruptOnSent, interruptOnReceived and interruptOnReceiveFailed
\* are on, interruptOnReceiveTimestampAvailable is off.
DefaultMask == {"sent"} \cup {"good"} \cup {"bad"}

Init ==
  /\ chip = Asleep /\ pending = FALSE
  /\ sysstatus = {} /\ sysctrl = {} /\ deviceMode = "idle" /\ permanent = FALSE
  /\ isr = "off" /\ main = "loop" /\ want = "receive" /\ fresh = FALSE /\ rearmed = FALSE

\* The line has a rising edge when it was low before.
Wire(c) ==
  /\ chip' = c
  /\ pending' = (pending \/ (~Raised(chip) /\ Raised(c)))

----
(* The radio *)

Quiet == Prompt => ~pending /\ isr = "off"

ChipSteps == UNCHANGED <<driver, isr, main, want, rearmed>>

Transmitted ==
  /\ Quiet /\ chip.mode = "tx"
  /\ Wire(FrameOut(chip)) /\ ChipSteps /\ UNCHANGED fresh

DelayOver ==
  /\ chip.mode = "delayed"
  /\ Wire(TimeCome(chip)) /\ ChipSteps /\ UNCHANGED fresh

Arrived ==
  /\ Quiet /\ Listening(chip)
  /\ \/ Wire(FrameIn(chip)) /\ fresh' = TRUE
     \/ Wire(FrameSpoilt(chip)) /\ UNCHANGED fresh
     \/ chip.mode = "rx" /\ Wire(Stamped(chip)) /\ UNCHANGED fresh
  /\ ChipSteps

----
(* handleInterrupt *)

Interrupt ==
  /\ pending /\ isr = "off"
  /\ pending' = FALSE /\ isr' = "read"
  /\ UNCHANGED <<chip, driver, main, want, fresh, rearmed>>

\* Mutant of ReadStatus: bits of the copy stay set.
ReadStatusOver ==
  /\ isr = "read"
  /\ sysstatus' = sysstatus \cup chip.status /\ isr' = "sent"
  /\ UNCHANGED <<chip, pending, sysctrl, deviceMode, permanent, main, want, fresh, rearmed>>

ReadStatus ==
  /\ isr = "read"
  /\ sysstatus' = chip.status /\ isr' = "sent"
  /\ UNCHANGED <<chip, pending, sysctrl, deviceMode, permanent, main, want, fresh, rearmed>>

\* A clear function adds its bits to the copy and writes all of the copy.
TransmitBits == {"sent"}
ReceiveBits == {"good", "bad", "stamp"}
ClearStatus(c, bits) ==
  /\ Wire(Clear(c, sysstatus \cup bits))
  /\ sysstatus' = sysstatus \cup bits

\* Handlers for errors, time stamps, failures and timeouts are not attached.
HandleSent ==
  /\ isr = "sent" /\ isr' = "received"
  /\ IF "sent" \in sysstatus THEN ClearStatus(chip, TransmitBits)
     ELSE UNCHANGED <<chip, pending, sysstatus>>
  /\ UNCHANGED <<sysctrl, deviceMode, permanent, main, want, fresh, rearmed>>

IsReceiveDone == "good" \in sysstatus

HandleReceived ==
  /\ isr = "received"
  /\ IF IsReceiveDone
     THEN /\ fresh' = FALSE
          /\ ClearStatus(chip, ReceiveBits)
          /\ isr' = IF permanent THEN "rearm" ELSE "clear"
     ELSE /\ isr' = "clear"
          /\ UNCHANGED <<chip, pending, sysstatus, fresh>>
  /\ UNCHANGED <<sysctrl, deviceMode, permanent, main, want, rearmed>>

\* Mutant of Rearm: the receiver is prepared and never enabled.
RearmWithoutStart ==
  /\ isr = "rearm" /\ isr' = "clear"
  /\ sysctrl' = {} /\ deviceMode' = "rx"
  /\ ClearStatus(Control(chip, {"off"}), ReceiveBits)
  /\ UNCHANGED <<permanent, main, want, fresh, rearmed>>

\* newReceive and startReceive; nothing happens in the chip between idle and enable.
Rearm ==
  /\ isr = "rearm" /\ isr' = "clear"
  /\ sysctrl' = {"rxenable"} /\ deviceMode' = "rx"
  /\ ClearStatus(Control(Control(chip, {"off"}), {"rxenable"}), ReceiveBits)
  /\ rearmed' = (rearmed \/ main = "idling")
  /\ UNCHANGED <<permanent, main, want, fresh>>

\* Mutant of ClearAllStatus: writes back only what was read.
ClearCachedStatus ==
  /\ isr = "clear" /\ isr' = "off"
  /\ Wire(Clear(chip, sysstatus))
  /\ UNCHANGED <<driver, main, want, fresh, rearmed>>

ClearAllStatus ==
  /\ isr = "clear" /\ isr' = "off"
  /\ sysstatus' = Events /\ Wire(Clear(chip, Events))
  /\ UNCHANGED <<sysctrl, deviceMode, permanent, main, want, fresh, rearmed>>

----
(* Main: DW1000Ranging's transmitInit, transmit and receiver *)

MayStep == isr = "off" /\ (Prompt => ~pending)

\* idle() sets _sysctrl and _deviceMode ...
Idle(w) ==
  /\ MayStep /\ main = "loop"
  /\ permanent \/ w = "receive"          \* generalStart listens first
  /\ main' = "idling" /\ want' = w
  /\ sysctrl' = {"off"} /\ deviceMode' = "idle" /\ rearmed' = FALSE
  /\ UNCHANGED <<chip, pending, sysstatus, permanent, isr, fresh>>

\* Mutant of New: idle() is forgotten.
NewWithoutIdle ==
  /\ MayStep /\ main = "idling" /\ main' = "ready"
  /\ sysctrl' = {}
  /\ IF want = "receive"
     THEN deviceMode' = "rx" /\ ClearStatus(chip, ReceiveBits)
     ELSE deviceMode' = "tx" /\ ClearStatus(chip, TransmitBits)
  /\ UNCHANGED <<permanent, isr, want, fresh, rearmed>>

\* Mutant of New: _sysctrl is not emptied after idle().
NewKeepsControl ==
  /\ MayStep /\ main = "idling" /\ main' = "ready"
  /\ IF want = "receive"
     THEN deviceMode' = "rx" /\ ClearStatus(Control(chip, sysctrl), ReceiveBits)
     ELSE deviceMode' = "tx" /\ ClearStatus(Control(chip, sysctrl), TransmitBits)
  /\ UNCHANGED <<sysctrl, permanent, isr, want, fresh, rearmed>>

\* ... and writes it; newTransmit and newReceive then clear what is left.
New ==
  /\ MayStep /\ main = "idling" /\ main' = "ready"
  /\ sysctrl' = {}
  /\ IF want = "receive"
     THEN deviceMode' = "rx" /\ ClearStatus(Control(chip, sysctrl), ReceiveBits)
     ELSE deviceMode' = "tx" /\ ClearStatus(Control(chip, sysctrl), TransmitBits)
  /\ UNCHANGED <<permanent, isr, want, fresh, rearmed>>

SetDelay ==
  /\ MayStep /\ main = "ready" /\ want = "delayed" /\ main' = "set"
  /\ sysctrl' = CASE deviceMode = "tx" -> sysctrl \cup {"txdelay"}
                  [] deviceMode = "rx" -> sysctrl \cup {"rxdelay"}
                  [] OTHER -> sysctrl
  /\ UNCHANGED <<chip, pending, sysstatus, deviceMode, permanent, isr, want, fresh, rearmed>>

StartTransmit ==
  /\ MayStep
  /\ \/ main = "ready" /\ want = "plain"
     \/ main = "set"
  /\ main' = "sending"
  /\ Wire(Control(chip, sysctrl \cup {"txstart"}))
  /\ sysctrl' = {} /\ deviceMode' = "rx"     \* _permanentReceive
  /\ UNCHANGED <<sysstatus, permanent, isr, want, fresh, rearmed>>

\* The end of startTransmit, or all of receiver() after newReceive.
StartReceive ==
  /\ MayStep
  /\ \/ main = "sending"
     \/ main = "ready" /\ want = "receive"
  /\ main' = "loop" /\ permanent' = TRUE
  /\ sysctrl' = sysctrl \cup {"rxenable"} /\ Wire(Control(chip, sysctrl'))
  /\ UNCHANGED <<sysstatus, deviceMode, isr, want, fresh, rearmed>>

Routine == Interrupt \/ ReadStatus \/ HandleSent \/ HandleReceived \/ Rearm \/ ClearAllStatus
Calls == New \/ SetDelay \/ StartTransmit \/ StartReceive
Air == Transmitted \/ DelayOver \/ Arrived

Next == Routine \/ Calls \/ Air \/ \E w \in {"plain", "delayed", "receive"}: Idle(w)

\* The processor serves an interrupt and goes on; a transmission ends; the
\* watchdog (checkForReset, resetInactive) listens again when nothing else runs.
Fairness ==
  /\ WF_vars(Routine) /\ WF_vars(Calls) /\ WF_vars(Transmitted \/ DelayOver)
  /\ SF_vars(Idle("receive"))

Spec == Init /\ [][Next]_vars /\ Fairness
====
