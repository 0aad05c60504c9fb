---- MODULE DriverInterruptProofs ----
(* The interrupt line of DW1000.cpp is never left up unseen, whatever falls  *)
(* between the steps of the routine; when the routine is quick enough, every *)
(* frame is reported once, the radio listens or sends, and a delay is kept   *)
(* wherever in main an interrupt comes but one place. The late processor of  *)
(* MCDriverInterrupt, which is the same code with no promise about its speed,*)
(* sees the line too.                                                        *)
EXTENDS MCDriverInterrupt, TLAPS

Modes == {"idle", "rx", "ending", "tx", "delayed"}

----
(* The radio *)

LEMMA ChipFields ==
  ASSUME NEW c \in Chip
  PROVE c.mode \in Modes /\ c.then \in BOOLEAN /\ c.status \subseteq Events
BY DEF Chip, Modes

LEMMA ControlChip ==
  ASSUME NEW c \in Chip, NEW bits
  PROVE /\ Control(c, bits) \in Chip
        /\ Control(c, bits).status = c.status
        /\ "off" \in bits => Control(c, bits).mode = "idle"
        /\ "off" \notin bits /\ "txstart" \in bits
             => Control(c, bits).mode = IF "txdelay" \in bits THEN "delayed" ELSE "tx"
        /\ "off" \notin bits /\ "txstart" \notin bits /\ "rxenable" \in bits
             => /\ Control(c, bits).mode # "idle"
                /\ Sending(Control(c, bits)) => Sending(c) /\ Control(c, bits).then
<1>1. CASE "off" \in bits
  BY <1>1 DEF Control, Chip
<1>2. CASE "off" \notin bits /\ "txstart" \in bits
  BY <1>2 DEF Control, Chip
<1>3. CASE "off" \notin bits /\ "txstart" \notin bits
  <2>1. CASE "rxenable" \notin bits \/ Listening(c)
    BY <1>3, <2>1 DEF Control, Listening, Sending, Chip
  <2>2. CASE "rxenable" \in bits /\ Sending(c)
    BY <1>3, <2>2 DEF Control, Listening, Sending, Chip
  <2>3. CASE "rxenable" \in bits /\ ~Listening(c) /\ ~Sending(c)
    BY <1>3, <2>3 DEF Control, Listening, Sending, Chip
  <2> QED BY <2>1, <2>2, <2>3
<1> QED BY <1>1, <1>2, <1>3

LEMMA ClearChip ==
  ASSUME NEW c \in Chip, NEW bits
  PROVE /\ Clear(c, bits) \in Chip /\ Clear(c, bits).status = c.status \ bits
        /\ Clear(c, bits).mode = c.mode /\ Clear(c, bits).then = c.then
BY DEF Clear, Chip

LEMMA AirChip ==
  ASSUME NEW c \in Chip
  PROVE /\ TimeCome(c) \in Chip /\ TimeCome(c).status = c.status
        /\ TimeCome(c).mode = "tx" /\ TimeCome(c).then = c.then
        /\ FrameOut(c) \in Chip /\ FrameOut(c).status = c.status \cup {"sent"}
        /\ FrameOut(c).mode \in {"rx", "idle"} /\ (c.then => FrameOut(c).mode = "rx")
        /\ Stamped(c) \in Chip /\ Stamped(c).status = c.status \cup {"stamp"}
        /\ Stamped(c).mode = "ending"
        /\ FrameIn(c) \in Chip /\ FrameIn(c).status = c.status \cup {"good"}
        /\ FrameIn(c).mode = "idle"
        /\ FrameSpoilt(c) \in Chip /\ FrameSpoilt(c).status = c.status \cup {"bad"}
        /\ FrameSpoilt(c).mode \in {"rx", "idle"} /\ (AutoReenable => FrameSpoilt(c).mode = "rx")
<1>1. TimeCome(c) \in Chip /\ TimeCome(c).status = c.status
      /\ TimeCome(c).mode = "tx" /\ TimeCome(c).then = c.then
  BY DEF TimeCome, Chip
<1>2. FrameOut(c) \in Chip /\ FrameOut(c).status = c.status \cup {"sent"}
      /\ FrameOut(c).mode \in {"rx", "idle"} /\ (c.then => FrameOut(c).mode = "rx")
  BY DEF FrameOut, Chip, Events
<1>3. Stamped(c) \in Chip /\ Stamped(c).status = c.status \cup {"stamp"} /\ Stamped(c).mode = "ending"
  BY DEF Stamped, Chip, Events
<1>4. FrameIn(c) \in Chip /\ FrameIn(c).status = c.status \cup {"good"} /\ FrameIn(c).mode = "idle"
  BY DEF FrameIn, Chip, Events
<1>5. FrameSpoilt(c) \in Chip /\ FrameSpoilt(c).status = c.status \cup {"bad"}
      /\ FrameSpoilt(c).mode \in {"rx", "idle"} /\ (AutoReenable => FrameSpoilt(c).mode = "rx")
  BY DEF FrameSpoilt, Chip, Events
<1> QED BY <1>1, <1>2, <1>3, <1>4, <1>5

----
(* Types *)

LEMMA WireType ==
  ASSUME NEW c \in Chip, pending \in BOOLEAN, Wire(c)
  PROVE chip' = c /\ chip' \in Chip /\ pending' \in BOOLEAN
BY DEF Wire

LEMMA InitTypeOK == Init => TypeOK
<1>1. Asleep \in Chip
  BY DEF Chip, Asleep
<1> QED BY <1>1 DEF Init, TypeOK

LEMMA RoutineTypeOK ==
  ASSUME TypeOK, Routine
  PROVE TypeOK'
<1>1. CASE Interrupt
  BY <1>1 DEF Interrupt, TypeOK, driver
<1>2. CASE ReadStatus
  BY <1>2, ChipFields DEF ReadStatus, TypeOK
<1>3. CASE HandleSent
  <2>1. Clear(chip, sysstatus \cup TransmitBits) \in Chip
    BY ClearChip DEF TypeOK
  <2>2. chip' \in Chip /\ pending' \in BOOLEAN /\ sysstatus' \subseteq Events
    BY <1>3, <2>1, WireType DEF HandleSent, ClearStatus, TypeOK, TransmitBits, Events
  <2> QED BY <1>3, <2>2 DEF HandleSent, TypeOK
<1>4. CASE HandleReceived
  <2>1. Clear(chip, sysstatus \cup ReceiveBits) \in Chip
    BY ClearChip DEF TypeOK
  <2>2. chip' \in Chip /\ pending' \in BOOLEAN /\ sysstatus' \subseteq Events
    BY <1>4, <2>1, WireType DEF HandleReceived, ClearStatus, TypeOK, ReceiveBits, Events
  <2>3. fresh' \in BOOLEAN /\ isr' \in {"rearm", "clear"}
    BY <1>4 DEF HandleReceived, TypeOK
  <2> QED BY <1>4, <2>2, <2>3 DEF HandleReceived, TypeOK
<1>5. CASE Rearm
  <2>1. Clear(Control(Control(chip, {"off"}), {"rxenable"}), sysstatus \cup ReceiveBits) \in Chip
    BY ClearChip, ControlChip DEF TypeOK
  <2>2. chip' \in Chip /\ pending' \in BOOLEAN /\ sysstatus' \subseteq Events
    BY <1>5, <2>1, WireType DEF Rearm, ClearStatus, TypeOK, ReceiveBits, Events
  <2> QED BY <1>5, <2>2 DEF Rearm, TypeOK, ControlBits
<1>6. CASE ClearAllStatus
  <2>1. Clear(chip, Events) \in Chip
    BY ClearChip DEF TypeOK
  <2>2. chip' \in Chip /\ pending' \in BOOLEAN /\ sysstatus' \subseteq Events
    BY <1>6, <2>1, WireType DEF ClearAllStatus, TypeOK
  <2> QED BY <1>6, <2>2 DEF ClearAllStatus, TypeOK
<1> QED BY <1>1, <1>2, <1>3, <1>4, <1>5, <1>6 DEF Routine

LEMMA CallsTypeOK ==
  ASSUME TypeOK, Calls \/ \E w \in {"plain", "delayed", "receive"} : Idle(w)
  PROVE TypeOK'
<1>1. CASE \E w \in {"plain", "delayed", "receive"} : Idle(w)
  BY <1>1 DEF Idle, TypeOK, ControlBits
<1>2. CASE New
  <2>1. \A bits : Clear(Control(chip, sysctrl), bits) \in Chip
    BY ClearChip, ControlChip DEF TypeOK
  <2>2. \E bits \in {ReceiveBits, TransmitBits} : ClearStatus(Control(chip, sysctrl), bits)
    BY <1>2 DEF New
  <2>3. chip' \in Chip /\ pending' \in BOOLEAN /\ sysstatus' \subseteq Events
    BY <2>1, <2>2, WireType DEF ClearStatus, TypeOK, ReceiveBits, TransmitBits, Events
  <2> QED BY <1>2, <2>3 DEF New, TypeOK
<1>3. CASE SetDelay
  <2>1. sysctrl' \in {sysctrl \cup {"txdelay"}, sysctrl \cup {"rxdelay"}, sysctrl}
    BY <1>3 DEF SetDelay
  <2> QED BY <1>3, <2>1 DEF SetDelay, TypeOK, ControlBits
<1>4. CASE StartTransmit
  <2>1. chip' \in Chip /\ pending' \in BOOLEAN
    BY <1>4, WireType, ControlChip DEF StartTransmit, TypeOK
  <2> QED BY <1>4, <2>1 DEF StartTransmit, TypeOK
<1>5. CASE StartReceive
  <2>1. chip' \in Chip /\ pending' \in BOOLEAN
    BY <1>5, WireType, ControlChip DEF StartReceive, TypeOK
  <2> QED BY <1>5, <2>1 DEF StartReceive, TypeOK, ControlBits
<1> QED BY <1>1, <1>2, <1>3, <1>4, <1>5 DEF Calls

LEMMA AirTypeOK ==
  ASSUME TypeOK, Air
  PROVE TypeOK'
<1>1. chip \in Chip /\ pending \in BOOLEAN
  BY DEF TypeOK
<1>2. chip' \in Chip /\ pending' \in BOOLEAN /\ fresh' \in BOOLEAN
  BY <1>1, AirChip, WireType DEF Air, Transmitted, DelayOver, Arrived, TypeOK
<1> QED BY <1>2 DEF Air, Transmitted, DelayOver, Arrived, ChipSteps, driver, TypeOK

LEMMA NextTypeOK ==
  ASSUME TypeOK, [Next]_vars
  PROVE TypeOK'
<1>1. CASE UNCHANGED vars
  BY <1>1 DEF vars, TypeOK
<1> QED BY <1>1, RoutineTypeOK, CallsTypeOK, AirTypeOK DEF Next

----
(* The line, for any steps of main and any events in between *)

\* Only the end of the routine could leave the line up unseen.
LEMMA WireSeen ==
  ASSUME NEW c, Wire(c), LineSeen, isr # "off" => isr' # "off"
  PROVE LineSeen'
BY DEF Wire, LineSeen, Raised

LEMMA NextLineSeen ==
  ASSUME TypeOK, LineSeen, [Next]_vars
  PROVE LineSeen'
<1>1. CASE UNCHANGED vars
  BY <1>1 DEF vars, LineSeen
<1>2. CASE Interrupt
  BY <1>2 DEF Interrupt, LineSeen
<1>3. CASE ReadStatus
  BY <1>3 DEF ReadStatus, LineSeen
<1>4. CASE HandleSent
  <2>1. CASE "sent" \in sysstatus
    BY <1>4, <2>1, WireSeen DEF HandleSent, ClearStatus
  <2>2. CASE "sent" \notin sysstatus
    BY <1>4, <2>2 DEF HandleSent, LineSeen
  <2> QED BY <2>1, <2>2
<1>5. CASE HandleReceived
  <2>1. isr' # "off"
    BY <1>5 DEF HandleReceived
  <2> QED BY <1>5, <2>1 DEF HandleReceived, LineSeen
<1>6. CASE Rearm
  BY <1>6, WireSeen DEF Rearm, ClearStatus
<1>7. CASE ClearAllStatus
  <2>1. chip' = Clear(chip, Events) /\ chip \in Chip
    BY <1>7 DEF ClearAllStatus, Wire, TypeOK
  <2>2. chip'.status = {}
    BY <2>1, ClearChip, ChipFields
  <2> QED BY <2>2 DEF LineSeen, Raised
<1>8. CASE \E w \in {"plain", "delayed", "receive"} : Idle(w)
  BY <1>8 DEF Idle, LineSeen
<1>9. CASE New
  BY <1>9, WireSeen DEF New, ClearStatus
<1>10. CASE SetDelay
  BY <1>10 DEF SetDelay, LineSeen
<1>11. CASE StartTransmit
  BY <1>11, WireSeen DEF StartTransmit
<1>12. CASE StartReceive
  BY <1>12, WireSeen DEF StartReceive
<1>13. CASE Air
  BY <1>13, WireSeen DEF Air, Transmitted, DelayOver, Arrived, ChipSteps
<1> QED BY <1>1, <1>2, <1>3, <1>4, <1>5, <1>6, <1>7, <1>8, <1>9, <1>10, <1>11, <1>12, <1>13
        DEF Next, Routine, Calls

\* The variables keep their types, whatever falls between the steps.
THEOREM DriverTypes == Spec => []TypeOK
<1>1. TypeOK /\ [Next]_vars => TypeOK'
  BY NextTypeOK
<1> QED BY <1>1, InitTypeOK, PTL DEF Spec

\* handleInterrupt (DW1000.cpp:714) leaves the line low or an edge due, with any mask,
\* with events between any two of its statements and with main going on meanwhile.
THEOREM LineAlwaysSeen == Spec => []LineSeen
<1>1. Init => LineSeen
  BY DEF Init, LineSeen, Asleep, Raised
<1>2. TypeOK /\ LineSeen /\ [Next]_vars => LineSeen'
  BY NextLineSeen
<1> QED BY <1>1, <1>2, DriverTypes, PTL DEF Spec

----
(* What main prepares, with interrupts also inside idle() *)

\* A write that sets no event makes no edge.
LEMMA NoEdge ==
  ASSUME NEW c, Wire(c), pending \in BOOLEAN, c.status \subseteq chip.status
  PROVE chip' = c /\ (pending' <=> pending)
BY DEF Wire, Raised

\* Unless the routine went on listening inside idle(), nothing changes what main prepares.
Untouched ==
  /\ main \in {"ready", "sending"} => "off" \notin sysctrl /\ "txstart" \notin sysctrl
  /\ ~rearmed /\ main = "idling" => sysctrl = {"off"}
  /\ ~rearmed /\ main \in {"ready", "set"} => chip.mode = "idle" /\ isr = "off" /\ ~pending
  /\ ~rearmed /\ main = "ready" => sysctrl = {} /\ (want # "receive" => deviceMode = "tx")
  /\ ~rearmed /\ main = "set" => sysctrl = {"txdelay"} /\ want = "delayed"

UInv == TypeOK /\ Untouched

LEMMA RoutineUInv ==
  ASSUME UInv, Routine
  PROVE UInv'
<1>1. TypeOK'
  BY RoutineTypeOK DEF UInv
<1>2. UNCHANGED <<main, want>> /\ (~rearmed => main \notin {"ready", "set"})
  BY DEF UInv, Untouched, Routine, Interrupt, ReadStatus, HandleSent, HandleReceived, Rearm, ClearAllStatus
<1>3. CASE Rearm
  <2>1. sysctrl' = {"rxenable"} /\ rearmed' = (rearmed \/ main = "idling")
    BY <1>3 DEF Rearm
  <2> QED BY <1>1, <1>2, <2>1 DEF UInv, Untouched
<1>4. CASE ~Rearm
  <2>1. UNCHANGED <<sysctrl, rearmed>>
    BY <1>4 DEF Routine, Interrupt, ReadStatus, HandleSent, HandleReceived, ClearAllStatus, driver
  <2> QED BY <1>1, <1>2, <2>1 DEF UInv, Untouched
<1> QED BY <1>3, <1>4

LEMMA MainUInv ==
  ASSUME Prompt, UInv, Calls \/ \E w \in {"plain", "delayed", "receive"} : Idle(w)
  PROVE UInv'
<1>1. TypeOK' /\ chip \in Chip /\ pending \in BOOLEAN
  BY CallsTypeOK DEF UInv, TypeOK
<1>2. isr = "off" /\ ~pending /\ isr' = "off"
  BY DEF Calls, Idle, New, SetDelay, StartTransmit, StartReceive, MayStep
<1>3. CASE \E w \in {"plain", "delayed", "receive"} : Idle(w)
  <2>1. main' = "idling" /\ sysctrl' = {"off"}
    BY <1>3 DEF Idle
  <2> QED BY <1>1, <2>1 DEF UInv, Untouched
<1>4. CASE New
  <2>1. /\ main = "idling" /\ main' = "ready" /\ sysctrl' = {} /\ UNCHANGED <<want, rearmed>>
        /\ want # "receive" => deviceMode' = "tx"
    BY <1>4 DEF New
  <2>2. PICK c, bits : c = Control(chip, sysctrl) /\ Wire(Clear(c, bits))
    BY <1>4 DEF New, ClearStatus
  <2>3. ~rearmed => c \in Chip /\ c.status = chip.status /\ c.mode = "idle"
    BY <1>1, <2>1, <2>2, ControlChip DEF UInv, Untouched
  <2>4. ~rearmed => ~pending' /\ chip'.mode = "idle"
    BY <1>1, <1>2, <2>2, <2>3, ClearChip, NoEdge
  <2> QED BY <1>1, <1>2, <2>1, <2>4 DEF UInv, Untouched
<1>5. CASE SetDelay
  <2>1. /\ main = "ready" /\ want = "delayed" /\ main' = "set"
        /\ UNCHANGED <<chip, pending, want, rearmed>>
    BY <1>5 DEF SetDelay
  <2>2. ~rearmed => chip.mode = "idle" /\ deviceMode = "tx" /\ sysctrl = {}
    BY <2>1 DEF UInv, Untouched
  <2>3. ~rearmed => sysctrl' = {"txdelay"}
    BY <1>5, <2>2 DEF SetDelay
  <2> QED BY <1>1, <1>2, <2>1, <2>2, <2>3 DEF UInv, Untouched
<1>6. CASE StartTransmit
  <2>1. main' = "sending" /\ sysctrl' = {}
    BY <1>6 DEF StartTransmit
  <2> QED BY <1>1, <2>1 DEF UInv, Untouched
<1>7. CASE StartReceive
  <2>1. main' = "loop"
    BY <1>7 DEF StartReceive
  <2> QED BY <1>1, <2>1 DEF UInv, Untouched
<1> QED BY <1>3, <1>4, <1>5, <1>6, <1>7 DEF Calls

LEMMA AirUInv ==
  ASSUME UInv, Air
  PROVE UInv'
<1>1. TypeOK'
  BY AirTypeOK DEF UInv
<1>2. UNCHANGED <<sysctrl, deviceMode, main, want, rearmed>>
  BY DEF Air, Transmitted, DelayOver, Arrived, ChipSteps, driver
<1>3. chip.mode # "idle"
  BY DEF Air, Transmitted, DelayOver, Arrived, Listening
<1> QED BY <1>1, <1>2, <1>3 DEF UInv, Untouched

LEMMA SpecUInv ==
  ASSUME Prompt
  PROVE Spec => []UInv
<1>1. Init => UInv
  BY InitTypeOK DEF Init, UInv, Untouched
<1>2. UInv /\ [Next]_vars => UInv'
  <2> SUFFICES ASSUME UInv, [Next]_vars PROVE UInv' OBVIOUS
  <2>1. CASE UNCHANGED vars
    BY <2>1 DEF vars, UInv, TypeOK, Untouched
  <2> QED BY <2>1, RoutineUInv, MainUInv, AirUInv DEF Next
<1> QED BY <1>1, <1>2, PTL DEF Spec

----
(* A routine that is over before the next event *)

\* Where a good frame is kept until its handler is called.
Kept ==
  /\ isr \in {"off", "read"} => (fresh <=> "good" \in chip.status)
  /\ isr \in {"sent", "received"} => (fresh <=> "good" \in sysstatus)
  /\ isr \in {"rearm", "clear"} => ~fresh

\* The receiver is on, follows a transmission, or will be on again.
Ears ==
  permanent /\ main = "loop" =>
    /\ Sending(chip) => chip.then
    /\ chip.mode = "idle" => \/ isr \in {"off", "read"} /\ "good" \in chip.status
                             \/ isr \in {"sent", "received"} /\ "good" \in sysstatus
                             \/ isr = "rearm"

PInv == UInv /\ LineSeen /\ (isr # "off" => ~pending) /\ Kept /\ Ears

\* No frame is latched while nothing is due.
LEMMA CalmStatus ==
  ASSUME "good" \in Masked, LineSeen, isr = "off", ~pending
  PROVE "good" \notin chip.status
BY DEF LineSeen, Raised

LEMMA RoutinePInv ==
  ASSUME PInv, Routine
  PROVE PInv'
<1>1. chip \in Chip /\ pending \in BOOLEAN /\ UInv' /\ LineSeen'
  BY RoutineUInv, NextLineSeen DEF PInv, UInv, Next, TypeOK
<1>2. CASE Interrupt
  <2>1. /\ UNCHANGED <<chip, sysstatus, sysctrl, deviceMode, permanent, main, want, fresh>>
        /\ ~pending' /\ isr = "off" /\ isr' = "read"
    BY <1>2 DEF Interrupt, driver, PInv
  <2>2. Kept' BY <2>1 DEF Kept, PInv
  <2>3. Ears' BY <2>1 DEF Ears, PInv
  <2> QED BY <1>1, <2>1, <2>2, <2>3 DEF PInv
<1>3. CASE ReadStatus
  <2>1. /\ UNCHANGED <<chip, pending, sysctrl, deviceMode, permanent, main, want, fresh>>
        /\ isr = "read" /\ isr' = "sent" /\ sysstatus' = chip.status
    BY <1>3 DEF ReadStatus, PInv
  <2>2. Kept' BY <2>1 DEF Kept, PInv
  <2>3. Ears' BY <2>1 DEF Ears, PInv
  <2> QED BY <1>1, <2>1, <2>2, <2>3 DEF PInv
<1>4. CASE HandleSent
  <2>1. /\ UNCHANGED <<sysctrl, deviceMode, permanent, main, want, fresh>>
        /\ isr = "sent" /\ isr' = "received"
    BY <1>4 DEF HandleSent, PInv
  <2>2. /\ pending' <=> pending
        /\ chip'.mode = chip.mode /\ chip'.then = chip.then
        /\ "good" \in sysstatus' <=> "good" \in sysstatus
    <3>1. CASE "sent" \in sysstatus
      <4>1. Wire(Clear(chip, sysstatus \cup TransmitBits)) /\ sysstatus' = sysstatus \cup TransmitBits
        BY <1>4, <3>1 DEF HandleSent, ClearStatus
      <4> QED BY <1>1, <4>1, ClearChip, NoEdge DEF TransmitBits
    <3>2. CASE "sent" \notin sysstatus
      BY <1>4, <3>2 DEF HandleSent
    <3> QED BY <3>1, <3>2
  <2>3. Kept' BY <2>1, <2>2 DEF Kept, PInv
  <2>4. Ears' BY <2>1, <2>2 DEF Ears, PInv, Sending
  <2> QED BY <1>1, <2>1, <2>2, <2>3, <2>4 DEF PInv
<1>5. CASE HandleReceived
  <2>1. /\ UNCHANGED <<sysctrl, deviceMode, permanent, main, want>>
        /\ isr = "received" /\ isr' \in {"rearm", "clear"}
    BY <1>5 DEF HandleReceived, PInv
  <2>2. /\ pending' <=> pending
        /\ chip'.mode = chip.mode /\ chip'.then = chip.then /\ ~fresh'
        /\ "good" \in sysstatus /\ permanent => isr' = "rearm"
    <3>1. CASE IsReceiveDone
      <4>1. Wire(Clear(chip, sysstatus \cup ReceiveBits)) /\ ~fresh' /\ (permanent => isr' = "rearm")
        BY <1>5, <3>1 DEF HandleReceived, ClearStatus
      <4> QED BY <1>1, <4>1, ClearChip, NoEdge
    <3>2. CASE ~IsReceiveDone
      <4>1. UNCHANGED <<chip, pending, fresh>> /\ "good" \notin sysstatus
        BY <1>5, <3>2 DEF HandleReceived, IsReceiveDone
      <4> QED BY <2>1, <4>1 DEF PInv, Kept
    <3> QED BY <3>1, <3>2
  <2>3. Kept' BY <2>1, <2>2 DEF Kept
  <2>4. Ears' BY <2>1, <2>2 DEF Ears, PInv, Sending
  <2> QED BY <1>1, <2>1, <2>2, <2>3, <2>4 DEF PInv
<1>6. CASE Rearm
  <2>1. /\ UNCHANGED <<permanent, main, want, fresh>> /\ sysctrl' = {"rxenable"}
        /\ isr = "rearm" /\ isr' = "clear"
    BY <1>6 DEF Rearm, PInv
  <2>2. PICK idle, on : /\ idle = Control(chip, {"off"}) /\ on = Control(idle, {"rxenable"})
                        /\ Wire(Clear(on, sysstatus \cup ReceiveBits))
    BY <1>6 DEF Rearm, ClearStatus
  <2>3. idle \in Chip /\ idle.status = chip.status /\ idle.mode = "idle"
    BY <1>1, <2>2, ControlChip
  <2>4. on \in Chip /\ on.status = chip.status /\ on.mode # "idle" /\ ~Sending(on)
    <3>1. ~Sending(idle) BY <2>3 DEF Sending
    <3> QED BY <2>2, <2>3, <3>1, ControlChip
  <2>5. (pending' <=> pending) /\ chip'.mode = on.mode
    BY <1>1, <2>2, <2>4, ClearChip, NoEdge
  <2>6. Kept' BY <2>1 DEF Kept, PInv
  <2>7. Ears' BY <2>1, <2>4, <2>5 DEF Ears, Sending
  <2> QED BY <1>1, <2>1, <2>5, <2>6, <2>7 DEF PInv
<1>7. CASE ClearAllStatus
  <2>1. /\ UNCHANGED <<sysctrl, deviceMode, permanent, main, want, fresh>>
        /\ isr = "clear" /\ isr' = "off"
        /\ Wire(Clear(chip, Events))
    BY <1>7 DEF ClearAllStatus, PInv
  <2>2. chip' = Clear(chip, Events) /\ (pending' <=> pending)
    BY <1>1, <2>1, ClearChip, NoEdge
  <2>3. chip'.mode = chip.mode /\ chip'.then = chip.then /\ chip'.status = {}
    BY <1>1, <2>2, ClearChip, ChipFields
  <2>4. Kept' BY <2>1, <2>3 DEF Kept, PInv
  <2>5. Ears' BY <2>1, <2>3 DEF Ears, PInv, Sending
  <2> QED BY <1>1, <2>1, <2>4, <2>5 DEF PInv
<1> QED BY <1>2, <1>3, <1>4, <1>5, <1>6, <1>7 DEF Routine

LEMMA MainPInv ==
  ASSUME Prompt, "good" \in Masked, PInv, Calls \/ \E w \in {"plain", "delayed", "receive"} : Idle(w)
  PROVE PInv'
<1>1. chip \in Chip /\ pending \in BOOLEAN /\ UInv' /\ LineSeen'
  BY MainUInv, NextLineSeen DEF PInv, UInv, Next, TypeOK
<1>2. isr = "off" /\ ~pending /\ isr' = "off" /\ fresh' = fresh
  BY DEF Calls, Idle, New, SetDelay, StartTransmit, StartReceive, MayStep
<1>3. ~fresh /\ "good" \notin chip.status
  BY <1>2, CalmStatus DEF PInv, Kept
<1>4. CASE \E w \in {"plain", "delayed", "receive"} : Idle(w)
  <2>1. /\ main' = "idling" /\ sysctrl' = {"off"} /\ UNCHANGED <<chip, pending>>
    BY <1>4 DEF Idle
  <2>2. Kept' BY <1>2, <1>3, <2>1 DEF Kept
  <2>3. Ears' BY <2>1 DEF Ears
  <2> QED BY <1>1, <1>2, <2>2, <2>3 DEF PInv
<1>5. CASE New
  <2>1. main' = "ready"
    BY <1>5 DEF New
  <2>2. PICK c, bits : /\ c = Control(chip, sysctrl) /\ Wire(Clear(c, bits))
    BY <1>5 DEF New, ClearStatus
  <2>3. c \in Chip /\ c.status = chip.status
    BY <1>1, <2>2, ControlChip
  <2>4. ~pending' /\ "good" \notin chip'.status
    BY <1>1, <1>2, <1>3, <2>2, <2>3, ClearChip, NoEdge
  <2>5. Kept' BY <1>2, <1>3, <2>4 DEF Kept
  <2>6. Ears' BY <2>1 DEF Ears
  <2> QED BY <1>1, <1>2, <2>5, <2>6 DEF PInv
<1>6. CASE SetDelay
  <2>1. main' = "set" /\ UNCHANGED <<chip, pending>>
    BY <1>6 DEF SetDelay
  <2>2. Kept' BY <1>2, <1>3, <2>1 DEF Kept
  <2>3. Ears' BY <2>1 DEF Ears
  <2> QED BY <1>1, <1>2, <2>2, <2>3 DEF PInv
<1>7. CASE StartTransmit
  <2>1. main' = "sending" /\ sysctrl' = {} /\ Wire(Control(chip, sysctrl \cup {"txstart"}))
    BY <1>7 DEF StartTransmit
  <2>2. ~pending' /\ "good" \notin chip'.status
    BY <1>1, <1>2, <1>3, <2>1, ControlChip, NoEdge
  <2>3. Kept' BY <1>2, <1>3, <2>2 DEF Kept
  <2>4. Ears' BY <2>1 DEF Ears
  <2> QED BY <1>1, <1>2, <2>3, <2>4 DEF PInv
<1>8. CASE StartReceive
  <2>1. /\ main \in {"sending", "ready"} /\ main' = "loop" /\ sysctrl' = sysctrl \cup {"rxenable"}
        /\ Wire(Control(chip, sysctrl'))
    BY <1>8 DEF StartReceive
  <2>2. "off" \notin sysctrl' /\ "txstart" \notin sysctrl' /\ "rxenable" \in sysctrl'
    BY <2>1 DEF PInv, UInv, Untouched
  <2>3. PICK c : c = Control(chip, sysctrl')
    OBVIOUS
  <2>4. c.status = chip.status /\ c.mode # "idle" /\ (Sending(c) => c.then)
    BY <1>1, <2>2, <2>3, ControlChip
  <2>5. ~pending' /\ chip' = c
    BY <1>1, <1>2, <2>1, <2>3, <2>4, NoEdge
  <2>6. Kept' BY <1>2, <1>3, <2>4, <2>5 DEF Kept
  <2>7. Ears' BY <2>4, <2>5 DEF Ears, Sending
  <2> QED BY <1>1, <1>2, <2>6, <2>7 DEF PInv
<1> QED BY <1>4, <1>5, <1>6, <1>7, <1>8 DEF Calls

LEMMA AirPInv ==
  ASSUME Prompt, AutoReenable, "good" \in Masked, PInv, Air
  PROVE PInv'
<1>1. chip \in Chip /\ pending \in BOOLEAN /\ UInv' /\ LineSeen'
  BY AirUInv, NextLineSeen DEF PInv, UInv, Next, TypeOK
<1>2. UNCHANGED <<sysstatus, sysctrl, deviceMode, permanent, isr, main, want>>
  BY DEF Air, Transmitted, DelayOver, Arrived, ChipSteps, driver
<1>3. CASE DelayOver
  <2>1. chip.mode = "delayed" /\ Wire(TimeCome(chip)) /\ fresh' = fresh
    BY <1>3 DEF DelayOver
  <2>2. /\ pending' <=> pending
        /\ chip'.mode = "tx" /\ chip'.then = chip.then /\ chip'.status = chip.status
    BY <1>1, <2>1, AirChip, NoEdge
  <2>3. Kept' BY <1>2, <2>1, <2>2 DEF PInv, Kept
  <2>4. Ears' BY <1>2, <2>1, <2>2 DEF PInv, Ears, Sending
  <2> QED BY <1>1, <1>2, <2>2, <2>3, <2>4 DEF PInv
<1>4. CASE Transmitted
  <2>1. /\ isr = "off" /\ ~pending /\ chip.mode = "tx" /\ fresh' = fresh
        /\ Wire(FrameOut(chip))
    BY <1>4 DEF Transmitted, Quiet
  <2>2. chip' = FrameOut(chip)
    BY <2>1 DEF Wire
  <2>3. /\ chip'.status = chip.status \cup {"sent"} /\ chip'.mode \in {"rx", "idle"}
        /\ chip.then => chip'.mode = "rx"
    BY <1>1, <2>2, AirChip
  <2>4. Kept' BY <1>2, <2>1, <2>3 DEF PInv, Kept
  <2>5. Ears' BY <1>2, <2>1, <2>3 DEF PInv, Ears, Sending
  <2> QED BY <1>1, <1>2, <2>1, <2>4, <2>5 DEF PInv
<1>5. CASE Arrived
  <2>1. isr = "off" /\ ~pending /\ Listening(chip)
    BY <1>5 DEF Arrived, Quiet
  <2>2. ~fresh /\ "good" \notin chip.status
    BY <2>1, CalmStatus DEF PInv, Kept
  <2>3. CASE Wire(FrameIn(chip)) /\ fresh'
    <3>1. chip' = FrameIn(chip)
      BY <2>3 DEF Wire
    <3>2. "good" \in chip'.status /\ chip'.mode = "idle"
      BY <1>1, <3>1, AirChip
    <3>3. Kept' BY <1>2, <2>1, <2>3, <3>2 DEF Kept
    <3>4. Ears' BY <1>2, <2>1, <3>2 DEF Ears, Sending
    <3> QED BY <1>1, <1>2, <2>1, <3>3, <3>4 DEF PInv
  <2>4. CASE fresh' = fresh /\ \E c \in {FrameSpoilt(chip), Stamped(chip)} : Wire(c)
    <3>1. chip' \in {FrameSpoilt(chip), Stamped(chip)}
      BY <2>4 DEF Wire
    <3>2. "good" \notin chip'.status /\ chip'.mode \in {"rx", "ending"}
      BY <1>1, <2>2, <3>1, AirChip
    <3>3. Kept' BY <1>2, <2>1, <2>2, <2>4, <3>2 DEF Kept
    <3>4. Ears' BY <1>2, <3>2 DEF Ears, Sending
    <3> QED BY <1>1, <1>2, <2>1, <3>3, <3>4 DEF PInv
  <2> QED BY <1>5, <2>3, <2>4 DEF Arrived
<1> QED BY <1>3, <1>4, <1>5 DEF Air

LEMMA SpecPInv ==
  ASSUME Prompt, AutoReenable, "good" \in Masked
  PROVE Spec => []PInv
<1>1. Init => PInv
  <2> SUFFICES ASSUME Init PROVE PInv OBVIOUS
  <2>1. UInv /\ LineSeen
    BY InitTypeOK DEF Init, UInv, Untouched, LineSeen, Asleep, Raised
  <2> QED BY <2>1 DEF Init, PInv, Kept, Ears, Asleep
<1>2. PInv /\ [Next]_vars => PInv'
  <2> SUFFICES ASSUME PInv, [Next]_vars PROVE PInv' OBVIOUS
  <2>1. CASE UNCHANGED vars
    BY <2>1 DEF vars, PInv, UInv, TypeOK, Untouched, LineSeen, Kept, Ears
  <2> QED BY <2>1, RoutinePInv, MainPInv, AirPInv DEF Next
<1> QED BY <1>1, <1>2, PTL DEF Spec

\* The handler of received frames (DW1000.cpp:743) is called for every good frame, once.
THEOREM ReportedAlways ==
  ASSUME Prompt, AutoReenable, "good" \in Masked
  PROVE Spec => []ReportedOnce
<1>1. PInv => ReportedOnce
  BY CalmStatus DEF PInv, UInv, TypeOK, Kept, ReportedOnce, IsReceiveDone
<1> QED BY <1>1, SpecPInv, PTL

\* With _permanentReceive the radio is never left idle (DW1000.cpp:745).
THEOREM NeverDeaf ==
  ASSUME Prompt, AutoReenable, "good" \in Masked
  PROVE Spec => []NotDeaf
<1>1. PInv => NotDeaf
  BY CalmStatus DEF PInv, Ears, NotDeaf
<1> QED BY <1>1, SpecPInv, PTL

\* A transmission waits for its time if and only if setDelay was called for it, unless a
\* frame was received between the two statements of the idle() before it (DW1000.cpp:1034):
\* with any mask, and with interrupts wherever the code leaves them on.
THEOREM DelayedAlways ==
  ASSUME Prompt
  PROVE Spec => DelayedAsAsked
<1> DEFINE Asked == ~Sending(chip) /\ Sending(chip')
                      => rearmed \/ (chip'.mode = "delayed" <=> want = "delayed")
<1>1. UInv /\ [Next]_vars => [Asked]_vars
  <2> SUFFICES ASSUME UInv, Next, ~Sending(chip), Sending(chip'), ~rearmed
               PROVE chip'.mode = "delayed" <=> want = "delayed"
    OBVIOUS
  <2>1. chip \in Chip /\ chip' # chip
    BY DEF UInv, TypeOK
  <2>2. \A bits : ~Sending(Clear(chip, bits))
    BY <2>1, ClearChip DEF Sending
  <2>3. ~Routine
    <3>1. ~Interrupt /\ ~ReadStatus
      BY <2>1 DEF Interrupt, ReadStatus
    <3>2. ~HandleSent /\ ~HandleReceived /\ ~ClearAllStatus
      BY <2>1, <2>2 DEF HandleSent, HandleReceived, ClearAllStatus, ClearStatus, Wire
    <3>3. ~Rearm
      <4>1. PICK idle, on : idle = Control(chip, {"off"}) /\ on = Control(idle, {"rxenable"})
        OBVIOUS
      <4>2. idle \in Chip /\ idle.mode = "idle"
        BY <2>1, <4>1, ControlChip
      <4>3. on \in Chip /\ ~Sending(on)
        <5>1. ~Sending(idle) BY <4>2 DEF Sending
        <5> QED BY <4>1, <4>2, <5>1, ControlChip
      <4>4. \A bits : ~Sending(Clear(on, bits))
        BY <4>3, ClearChip DEF Sending
      <4> QED BY <4>1, <4>4 DEF Rearm, ClearStatus, Wire
    <3> QED BY <3>1, <3>2, <3>3 DEF Routine
  <2>4. ~Air
    BY <2>1, AirChip DEF Air, Transmitted, DelayOver, Arrived, Wire, Sending
  <2>5. ~SetDelay /\ ~\E w \in {"plain", "delayed", "receive"} : Idle(w)
    BY <2>1 DEF SetDelay, Idle
  <2>6. ~New
    <3>1. PICK c : c = Control(chip, sysctrl)
      OBVIOUS
    <3>2. main = "idling" => c \in Chip /\ c.mode = "idle"
      BY <2>1, <3>1, ControlChip DEF UInv, Untouched
    <3>3. main = "idling" => \A bits : ~Sending(Clear(c, bits))
      BY <3>2, ClearChip DEF Sending
    <3> QED BY <3>1, <3>3 DEF New, ClearStatus, Wire
  <2>7. ~StartReceive
    <3>1. StartReceive => /\ main \in {"sending", "ready"} /\ sysctrl' = sysctrl \cup {"rxenable"}
                          /\ chip' = Control(chip, sysctrl')
      BY DEF StartReceive, Wire
    <3>2. StartReceive => "off" \notin sysctrl' /\ "txstart" \notin sysctrl' /\ "rxenable" \in sysctrl'
      BY <3>1 DEF UInv, Untouched
    <3> QED BY <2>1, <3>1, <3>2, ControlChip
  <2>8. CASE StartTransmit
    <3>1. /\ chip' = Control(chip, sysctrl \cup {"txstart"})
          /\ \/ main = "ready" /\ want = "plain"
             \/ main = "set"
      BY <2>8 DEF StartTransmit, Wire
    <3>2. "off" \notin sysctrl /\ ("txdelay" \in sysctrl <=> want = "delayed")
      BY <3>1 DEF UInv, Untouched
    <3> QED BY <2>1, <3>1, <3>2, ControlChip
  <2> QED BY <2>3, <2>4, <2>5, <2>6, <2>7, <2>8 DEF Next, Calls
<1> QED BY <1>1, SpecUInv, PTL DEF Spec, DelayedAsAsked

----
(* The late processor *)

LateInv == lateChip \in Chip /\ Late!LineSeen

\* The radio of the late processor is the same chip.
LEMMA LateControl ==
  ASSUME NEW c \in Chip, NEW bits
  PROVE Late!Control(c, bits) \in Chip
<1>1. Late!Control(c, bits) = Control(c, bits)
  BY DEF Late!Control, Control, Late!Sending, Sending, Late!Listening, Listening
<1> QED BY <1>1, ControlChip

LEMMA LateClear ==
  ASSUME NEW c \in Chip, NEW bits
  PROVE Late!Clear(c, bits) \in Chip /\ Late!Clear(c, bits).status = c.status \ bits
<1>1. Late!Clear(c, bits) = Clear(c, bits)
  BY DEF Late!Clear, Clear
<1> QED BY <1>1, ClearChip

LEMMA LateAir ==
  ASSUME NEW c \in Chip
  PROVE /\ Late!TimeCome(c) \in Chip /\ Late!FrameOut(c) \in Chip /\ Late!Stamped(c) \in Chip
        /\ Late!FrameIn(c) \in Chip /\ Late!FrameSpoilt(c) \in Chip
<1>1. Late!TimeCome(c) = TimeCome(c) /\ Late!FrameOut(c) = FrameOut(c)
  BY DEF Late!TimeCome, TimeCome, Late!FrameOut, FrameOut
<1>2. Late!Stamped(c) = Stamped(c) /\ Late!FrameIn(c) = FrameIn(c) /\ Late!FrameSpoilt(c) = FrameSpoilt(c)
  BY DEF Late!Stamped, Stamped, Late!FrameIn, FrameIn, Late!FrameSpoilt, FrameSpoilt
<1> QED BY <1>1, <1>2, AirChip

LEMMA LateWire ==
  ASSUME NEW c \in Chip, Late!Wire(c), LateInv, lateIsr # "off" => lateIsr' # "off"
  PROVE LateInv'
BY DEF Late!Wire, LateInv, Late!LineSeen, Late!Raised

LEMMA LateNextSeen ==
  ASSUME LateInv, Late!Next
  PROVE LateInv'
<1>1. lateChip \in Chip
  BY DEF LateInv
<1>2. CASE Late!Interrupt
  BY <1>2 DEF Late!Interrupt, LateInv, Late!LineSeen
<1>3. CASE Late!ReadStatus
  BY <1>3 DEF Late!ReadStatus, LateInv, Late!LineSeen
<1>4. CASE Late!HandleSent
  <2>1. CASE "sent" \in lateStatus
    BY <1>1, <1>4, <2>1, LateWire, LateClear DEF Late!HandleSent, Late!ClearStatus
  <2>2. CASE "sent" \notin lateStatus
    BY <1>4, <2>2 DEF Late!HandleSent, LateInv, Late!LineSeen
  <2> QED BY <2>1, <2>2
<1>5. CASE Late!HandleReceived
  <2>1. lateIsr' # "off"
    BY <1>5 DEF Late!HandleReceived
  <2>2. CASE Late!IsReceiveDone
    BY <1>1, <1>5, <2>1, <2>2, LateWire, LateClear DEF Late!HandleReceived, Late!ClearStatus
  <2>3. CASE ~Late!IsReceiveDone
    BY <1>5, <2>1, <2>3 DEF Late!HandleReceived, LateInv, Late!LineSeen
  <2> QED BY <2>2, <2>3
<1>6. CASE Late!Rearm
  <2>1. lateIsr' # "off"
    BY <1>6 DEF Late!Rearm
  <2>2. \A bits : Late!Clear(Late!Control(Late!Control(lateChip, {"off"}), {"rxenable"}), bits) \in Chip
    BY <1>1, LateControl, LateClear
  <2> QED BY <1>6, <2>1, <2>2, LateWire DEF Late!Rearm, Late!ClearStatus
<1>7. CASE Late!ClearAllStatus
  <2>1. lateChip' = Late!Clear(lateChip, Events)
    BY <1>7 DEF Late!ClearAllStatus, Late!Wire, Late!Events, Events
  <2>2. lateChip' \in Chip /\ lateChip'.status = {}
    BY <1>1, <2>1, LateClear, ChipFields
  <2> QED BY <2>2 DEF LateInv, Late!LineSeen, Late!Raised
<1>8. CASE \E w \in {"plain", "delayed", "receive"} : Late!Idle(w)
  BY <1>8 DEF Late!Idle, LateInv, Late!LineSeen
<1>9. CASE Late!New
  <2>1. \A bits : Late!Clear(Late!Control(lateChip, lateControl), bits) \in Chip
    BY <1>1, LateControl, LateClear
  <2> QED BY <1>9, <2>1, LateWire DEF Late!New, Late!ClearStatus
<1>10. CASE Late!SetDelay
  BY <1>10 DEF Late!SetDelay, LateInv, Late!LineSeen
<1>11. CASE Late!StartTransmit
  BY <1>1, <1>11, LateWire, LateControl DEF Late!StartTransmit
<1>12. CASE Late!StartReceive
  BY <1>1, <1>12, LateWire, LateControl DEF Late!StartReceive
<1>13. CASE Late!Air
  BY <1>1, <1>13, LateWire, LateAir DEF Late!Air, Late!Transmitted, Late!DelayOver, Late!Arrived, Late!ChipSteps
<1> QED BY <1>2, <1>3, <1>4, <1>5, <1>6, <1>7, <1>8, <1>9, <1>10, <1>11, <1>12, <1>13
        DEF Late!Next, Late!Routine, Late!Calls

\* However late the processor is, in the routine and in main, the line of its radio is
\* not left up unseen (DW1000.cpp:751): the run's second processor, with any mask.
THEOREM LateLineAlwaysSeen == EachSpec => []LateLineSeen
<1>1. EachInit => LateInv
  <2>1. Asleep \in Chip
    BY DEF Chip, Asleep
  <2> QED BY <2>1 DEF EachInit, Late!Init, LateInv, Late!LineSeen, Late!Raised, Late!Asleep, Asleep
<1>2. LateInv /\ [PromptStep \/ LateStep]_<<processor, vars, lateVars>> => LateInv'
  <2> SUFFICES ASSUME LateInv, [PromptStep \/ LateStep]_<<processor, vars, lateVars>>
               PROVE LateInv'
    OBVIOUS
  <2>1. CASE LateStep
    BY <2>1, LateNextSeen DEF LateStep
  <2>2. CASE PromptStep \/ UNCHANGED <<processor, vars, lateVars>>
    BY <2>2 DEF PromptStep, lateVars, LateInv, Late!LineSeen
  <2> QED BY <2>1, <2>2
<1>3. LateInv => LateLineSeen
  BY DEF LateInv, LateLineSeen
<1> QED BY <1>1, <1>2, <1>3, PTL DEF EachSpec
====
