---- MODULE TwoWayRangingProofs ----
(* For any number of rounds, every interleaving of loops and routines, and    *)
(* any frames lost or spoilt: two-way ranging of the DW1000Ng examples never  *)
(* mixes rounds while the watchdogs fire only when nothing is under way. The  *)
(* invariant says what one node is doing (NodeInv), that the nodes answer in  *)
(* turn (InTurn), what the frames on their way and in the buffers carry       *)
(* (Frames), and that the responder's time stamps are those of its last       *)
(* acknowledgement (Acknowledges).                                           *)
EXTENDS TwoWayRangingProperties, TLAPS

\* No sketch asks for reception after a transmission: then is never TRUE.
Modes == {"idle", "rx", "ending", "tx", "delayed"}

Chips == [mode : Modes, then : {FALSE}, status : SUBSET Events]

TwoWayTypes ==
  /\ chip \in [Nodes -> Chips]
  /\ pending \in [Nodes -> BOOLEAN] /\ isr \in [Nodes -> {"off", "read", "sent", "stamp", "frame"}]
  /\ sysstatus \in [Nodes -> SUBSET Events]
  /\ sentAck \in [Nodes -> BOOLEAN] /\ receivedAck \in [Nodes -> BOOLEAN]
  /\ main \in [Nodes -> {"setup", "loop", "reset"}]
  /\ data = [n \in Nodes |-> data[n]]
  /\ txBuffer = [n \in Nodes |-> txBuffer[n]] /\ txTime = [n \in Nodes |-> txTime[n]]
  /\ rxFrame = [n \in Nodes |-> rxFrame[n]]
  /\ expectedMsgId = [n \in Nodes |-> expectedMsgId[n]]

InRoutine(n) == isr[n] \in {"sent", "stamp", "frame"}

\* A good frame that the loop has not read, and that it may come to know of.
Unread(n) ==
  \/ receivedAck[n]
  \/ ~Quiet(n) /\ "good" \in chip[n].status
  \/ InRoutine(n) /\ "good" \in sysstatus[n]

\* The loop will come to know that the last frame has left.
SentDue(n) ==
  \/ sentAck[n]
  \/ isr[n] = "off" /\ pending[n] /\ "sent" \in chip[n].status
  \/ isr[n] = "read" /\ "sent" \in chip[n].status
  \/ isr[n] = "sent" /\ "sent" \in sysstatus[n]

Busy(n) == Unread(n) \/ Sending(chip[n])

\* A node sends, listens, has a frame or waits to know that its own has left.
OneThing(n) ==
  /\ Unread(n) => chip[n].mode = "idle" /\ ~SentDue(n)
  /\ SentDue(n) => chip[n].mode = "idle"
  /\ Sending(chip[n]) => Quiet(n)

\* What the routine has read is all there is when a frame is part of it.
Copied(n) ==
  /\ InRoutine(n) /\ "good" \in sysstatus[n] => chip[n].status \subseteq sysstatus[n]
  /\ receivedAck[n] => chip[n].status = {}
  /\ isr[n] = "sent" /\ "sent" \in chip[n].status => "sent" \in sysstatus[n]
  /\ isr[n] \in {"stamp", "frame"} => "sent" \notin chip[n].status

Untouched(n) ==
  main[n] = "setup" => chip[n] = Asleep /\ Quiet(n) /\ ~Flags(n)

\* Nodes answer in turn: never do both have something to say.
InTurn ==
  /\ ~(Busy(I) /\ Busy(R))
  /\ main[I] \in {"setup", "reset"} => ~Busy(I) /\ ~Busy(R) /\ ~SentDue(I)
  /\ main[R] # "reset"
  /\ Sending(chip[R]) => chip[R].status = {}

\* The time stamps of a round, as the responder has them if it waits for RANGE.
Matches(r) == expectedMsgId[R] = "RANGE" => timePollReceived = Plain("POLL", r)

Ranging(f) ==
  f = Range(Plain("POLL", round), Plain("POLL_ACK", round), round) /\ Matches(round)
Answer(f) ==
  f.id = "POLL_ACK" => f = Plain("POLL_ACK", round) /\ txTime[I] = Plain("POLL", round) /\ Matches(round)

Frames ==
  /\ Sending(chip[I]) => txBuffer[I] = Plain("POLL", round) \/ Ranging(txBuffer[I])
  /\ Unread(R) => txTime[I] = rxFrame[R] /\ (rxFrame[R] = Plain("POLL", round) \/ Ranging(rxFrame[R]))
  /\ Sending(chip[R]) => Answer(txBuffer[R])
  /\ Unread(I) => Answer(rxFrame[I])

Acknowledges ==
  /\ Sending(chip[R]) => txBuffer[R] = data[R]
  /\ SentDue(R) => txTime[R] = data[R]
  /\ expectedMsgId[R] = "RANGE" =>
       /\ timePollReceived = Plain("POLL", timePollReceived.round)
       /\ data[R] = Plain("POLL_ACK", timePollReceived.round)
       /\ Sending(chip[R]) \/ SentDue(R) \/ timePollAckSent = data[R]

NodeInv(n) == OneThing(n) /\ Copied(n) /\ Untouched(n)

TwoWayInv ==
  /\ TwoWayTypes
  /\ \A n \in Nodes : NodeInv(n)
  /\ InTurn /\ Frames /\ Acknowledges

----
(* One node *)

LEMMA TwoNodes ==
  /\ Nodes = {I, R} /\ I # R /\ Masked = Events
  /\ Other(I) = R /\ Other(R) = I
<1>1. Nodes = {I, R} /\ Masked = SketchMask
  BY SketchAssumption
<1>2. SketchMask = Events
  BY DEF SketchMask, InterruptMask, Events
<1> QED BY <1>1, <1>2 DEF I, R, Other

LEMMA TwoWayInit == ASSUME Init PROVE TwoWayInv
<1>1. TwoWayTypes
  BY TwoNodes DEF Init, DriverInit, TwoWayTypes, Asleep, Modes, Chips, Events
<1>2. \A n \in Nodes : chip[n] = Asleep /\ Quiet(n) /\ ~Flags(n) /\ main[n] = "setup" /\ isr[n] = "off"
  BY DEF Init, DriverInit, Quiet, Flags
<1>3. \A n \in Nodes : ~Unread(n) /\ ~SentDue(n) /\ ~Sending(chip[n]) /\ chip[n].mode = "idle" /\ chip[n].status = {}
  BY <1>2 DEF Unread, SentDue, Quiet, Flags, InRoutine, Asleep, Sending
<1>4. \A n \in Nodes : NodeInv(n)
  BY <1>2, <1>3 DEF NodeInv, OneThing, Copied, Untouched, InRoutine
<1>5. InTurn /\ Frames
  BY <1>2, <1>3, TwoNodes DEF InTurn, Frames, Busy
<1>6. Acknowledges
  BY <1>3, TwoNodes DEF Acknowledges, Init
<1> QED BY <1>1, <1>4, <1>5, <1>6 DEF TwoWayInv

LEMMA Controls ==
  ASSUME NEW c \in Chips
  PROVE /\ Control(c, {"off"}) \in Chips /\ Control(c, {"off"}).mode = "idle"
        /\ Control(c, {"txstart"}) \in Chips /\ Control(c, {"txstart"}).mode = "tx"
        /\ Control(c, {"txstart", "txdelay"}) \in Chips /\ Control(c, {"txstart", "txdelay"}).mode = "delayed"
        /\ c.mode = "idle" => Control(c, {"rxenable"}) \in Chips /\ Control(c, {"rxenable"}).mode = "rx"
        /\ \A bits : Control(c, bits).status = c.status
BY DEF Chips, Modes, Control, Listening, Sending

SameNode(n) ==
  /\ chip'[n] = chip[n] /\ pending'[n] = pending[n] /\ isr'[n] = isr[n] /\ sysstatus'[n] = sysstatus[n]
  /\ sentAck'[n] = sentAck[n] /\ receivedAck'[n] = receivedAck[n] /\ main'[n] = main[n]

LEMMA NodeKept ==
  ASSUME NEW n, NodeInv(n), SameNode(n)
  PROVE NodeInv(n)' /\ (Unread(n)' <=> Unread(n)) /\ (SentDue(n)' <=> SentDue(n))
<1>1. (Unread(n)' <=> Unread(n)) /\ (SentDue(n)' <=> SentDue(n)) /\ (InRoutine(n)' <=> InRoutine(n))
      /\ (Quiet(n)' <=> Quiet(n)) /\ (Flags(n)' <=> Flags(n))
  BY DEF SameNode, Unread, SentDue, InRoutine, Quiet, Flags
<1> QED BY <1>1 DEF NodeInv, OneThing, Copied, Untouched, SameNode, Asleep

LEMMA QuietNode ==
  ASSUME NEW n, Quiet(n)
  PROVE (Unread(n) <=> receivedAck[n]) /\ (SentDue(n) <=> sentAck[n])
BY DEF Quiet, Unread, SentDue, InRoutine

\* A status that is not new raises no edge.
LEMMA WireSame ==
  ASSUME TwoWayTypes, NEW n \in Nodes, NEW c, Wire(n, c), c.status \subseteq chip[n].status
  PROVE /\ chip'[n] = c /\ pending'[n] = pending[n]
        /\ \A k \in Nodes \ {n} : chip'[k] = chip[k] /\ pending'[k] = pending[k]
        /\ pending' \in [Nodes -> BOOLEAN]
BY TwoNodes DEF TwoWayTypes, Wire, Edge, Raised

----
(* The interrupt routine *)

LEMMA RoutineTypes ==
  ASSUME TwoWayTypes, NEW n \in Nodes, Routine(n)
  PROVE /\ chip' \in [Nodes -> Chips] /\ pending' \in [Nodes -> BOOLEAN]
        /\ isr' \in [Nodes -> {"off", "read", "sent", "stamp", "frame"}]
        /\ sysstatus' \in [Nodes -> SUBSET Events]
        /\ sentAck' \in [Nodes -> BOOLEAN] /\ receivedAck' \in [Nodes -> BOOLEAN]
<1>1. \A c \in Chips : \A bits : Clear(c, bits) \in Chips
  BY DEF Clear, Chips
<1>2. chip[n] \in Chips /\ Control(chip[n], {"off"}) \in Chips
  BY Controls DEF TwoWayTypes
<1>3. CASE Interrupt(n)
  BY <1>3 DEF Interrupt, Goto, TwoWayTypes
<1>4. CASE ReadStatus(n)
  BY <1>2, <1>4 DEF ReadStatus, Goto, TwoWayTypes, Chips
<1>5. ASSUME NEW c \in Chips, NEW bits \in SUBSET Events, ClearStatus(n, c, bits)
      PROVE chip' \in [Nodes -> Chips] /\ pending' \in [Nodes -> BOOLEAN] /\ sysstatus' \in [Nodes -> SUBSET Events]
  <2>1. Clear(c, sysstatus[n] \cup bits) \in Chips
    BY <1>1
  <2>2. Edge(n, Clear(c, sysstatus[n] \cup bits)) \in BOOLEAN
    BY DEF Edge, TwoWayTypes
  <2> QED BY <1>5, <2>1, <2>2 DEF ClearStatus, Wire, TwoWayTypes
<1>6. {"sent"} \in SUBSET Events /\ {"stamp"} \in SUBSET Events /\ {"bad"} \in SUBSET Events
      /\ {"good", "stamp"} \in SUBSET Events
  BY DEF Events
<1>7. CASE HandleSent(n)
  BY <1>2, <1>5, <1>6, <1>7 DEF HandleSent, Goto, TwoWayTypes
<1>8. CASE HandleStamp(n)
  BY <1>2, <1>5, <1>6, <1>8 DEF HandleStamp, Goto, TwoWayTypes
<1>9. CASE HandleFrame(n)
  <2>1. isr' \in [Nodes -> {"off", "read", "sent", "stamp", "frame"}] /\ sentAck' = sentAck
    BY <1>9 DEF HandleFrame, Goto, TwoWayTypes
  <2>2. chip' \in [Nodes -> Chips] /\ pending' \in [Nodes -> BOOLEAN] /\ sysstatus' \in [Nodes -> SUBSET Events]
    BY <1>2, <1>5, <1>6, <1>9 DEF HandleFrame, HandleFailed, HandleReceived, TwoWayTypes
  <2>3. receivedAck' \in [Nodes -> BOOLEAN]
    BY <1>9 DEF HandleFrame, HandleFailed, HandleReceived, TwoWayTypes
  <2> QED BY <2>1, <2>2, <2>3 DEF TwoWayTypes
<1> QED BY <1>3, <1>4, <1>7, <1>8, <1>9 DEF Routine

\* The routine takes nothing from the loop but what the chip has told it.
RoutineKeeps(n) ==
  /\ NodeInv(n)'
  /\ Unread(n)' => Unread(n)
  /\ SentDue(n)' <=> SentDue(n)
  /\ ~Sending(chip[n]) /\ ~Sending(chip'[n])

LEMMA ClearNode ==
  ASSUME TwoWayTypes, NEW n \in Nodes, NEW c \in Chips, c.status = chip[n].status,
         NEW bits \in SUBSET Events, ClearStatus(n, c, bits)
  PROVE /\ chip'[n].mode = c.mode /\ chip'[n].status = chip[n].status \ (sysstatus[n] \cup bits)
        /\ sysstatus'[n] = sysstatus[n] \cup bits /\ pending'[n] = pending[n]
<1> DEFINE d == Clear(c, sysstatus[n] \cup bits)
<1>1. d.mode = c.mode /\ d.status = chip[n].status \ (sysstatus[n] \cup bits)
  BY DEF Clear, Chips
<1>2. Wire(n, d) /\ sysstatus' = [sysstatus EXCEPT ![n] = @ \cup bits]
  BY DEF ClearStatus
<1>3. chip'[n] = d /\ pending'[n] = pending[n]
  BY <1>1, <1>2, WireSame
<1>4. sysstatus'[n] = sysstatus[n] \cup bits
  BY <1>2 DEF TwoWayTypes
<1> QED BY <1>1, <1>3, <1>4

LEMMA RoutineNode ==
  ASSUME TwoWayTypes, NEW n \in Nodes, NodeInv(n), Routine(n), main' = main
  PROVE RoutineKeeps(n)
<1>0. /\ OneThing(n) /\ Copied(n) /\ Untouched(n) /\ chip[n] \in Chips
      /\ pending[n] \in BOOLEAN /\ sentAck[n] \in BOOLEAN /\ receivedAck[n] \in BOOLEAN
      /\ {"sent"} \in SUBSET Events /\ {"stamp"} \in SUBSET Events /\ {"bad"} \in SUBSET Events
      /\ {"good", "stamp"} \in SUBSET Events
  BY DEF NodeInv, TwoWayTypes, Events
<1>1. ~Quiet(n) /\ ~Sending(chip[n]) /\ main[n] # "setup"
  <2>1. ~Quiet(n)
    BY DEF Routine, Interrupt, ReadStatus, HandleSent, HandleStamp, HandleFrame, Quiet
  <2> QED BY <1>0, <2>1 DEF OneThing, Untouched
<1>2. Untouched(n)'
  BY <1>1 DEF Untouched
<1>3. CASE Interrupt(n)
  <2>1. /\ pending[n] /\ isr[n] = "off" /\ ~pending'[n] /\ isr'[n] = "read" /\ chip'[n] = chip[n]
        /\ sysstatus'[n] = sysstatus[n] /\ sentAck'[n] = sentAck[n] /\ receivedAck'[n] = receivedAck[n]
    BY <1>3 DEF Interrupt, Goto, TwoWayTypes
  <2>2. (Unread(n)' => Unread(n)) /\ (SentDue(n)' <=> SentDue(n))
    BY <1>0, <2>1 DEF Unread, SentDue, Quiet, InRoutine
  <2>3. OneThing(n)' /\ Copied(n)'
    BY <1>0, <1>1, <2>1, <2>2 DEF OneThing, Copied, InRoutine, Sending
  <2> QED BY <1>1, <1>2, <2>1, <2>2, <2>3 DEF RoutineKeeps, NodeInv
<1>4. CASE ReadStatus(n)
  <2>1. /\ isr[n] = "read" /\ isr'[n] = "sent" /\ chip'[n] = chip[n] /\ sysstatus'[n] = chip[n].status
        /\ pending'[n] = pending[n] /\ sentAck'[n] = sentAck[n] /\ receivedAck'[n] = receivedAck[n]
    BY <1>4 DEF ReadStatus, Goto, TwoWayTypes
  <2>2. (Unread(n)' => Unread(n)) /\ (SentDue(n)' <=> SentDue(n))
    BY <1>0, <1>1, <2>1 DEF Unread, SentDue, Quiet, InRoutine
  <2>3. OneThing(n)' /\ Copied(n)'
    BY <1>0, <1>1, <2>1, <2>2 DEF OneThing, Copied, InRoutine, Sending
  <2> QED BY <1>1, <1>2, <2>1, <2>2, <2>3 DEF RoutineKeeps, NodeInv
<1>5. CASE HandleSent(n)
  <2>1. isr[n] = "sent" /\ isr'[n] = "stamp" /\ receivedAck'[n] = receivedAck[n]
    BY <1>5 DEF HandleSent, Goto, TwoWayTypes
  <2>2. CASE "sent" \in sysstatus[n]
    <3>1. /\ chip'[n].mode = chip[n].mode /\ chip'[n].status = chip[n].status \ (sysstatus[n] \cup {"sent"})
          /\ sysstatus'[n] = sysstatus[n] \cup {"sent"} /\ pending'[n] = pending[n]
      BY <1>0, <1>5, <2>2, ClearNode DEF HandleSent
    <3>2. sentAck'[n] = TRUE
      BY <1>5, <2>2 DEF HandleSent, TwoWayTypes
    <3>3. SentDue(n) /\ SentDue(n)'
      BY <2>1, <2>2, <3>2 DEF SentDue
    <3>4. ~Unread(n) /\ chip[n].mode = "idle"
      BY <1>0, <3>3 DEF OneThing
    <3>5. ~Unread(n)'
      BY <1>1, <2>1, <3>1, <3>4 DEF Unread, InRoutine
    <3>6. OneThing(n)' /\ Copied(n)'
      BY <1>0, <1>1, <2>1, <2>2, <3>1, <3>3, <3>4, <3>5 DEF OneThing, Copied, InRoutine, Sending, Unread
    <3> QED BY <1>1, <1>2, <3>1, <3>3, <3>5, <3>6 DEF RoutineKeeps, NodeInv, Sending
  <2>3. CASE "sent" \notin sysstatus[n]
    <3>1. /\ chip'[n] = chip[n] /\ sysstatus'[n] = sysstatus[n] /\ pending'[n] = pending[n] /\ sentAck'[n] = sentAck[n]
      BY <1>5, <2>3 DEF HandleSent
    <3>2. (Unread(n)' => Unread(n)) /\ (SentDue(n)' <=> SentDue(n))
      BY <1>0, <1>1, <2>1, <2>3, <3>1 DEF Unread, SentDue, Quiet, InRoutine
    <3>3. OneThing(n)' /\ Copied(n)'
      BY <1>0, <1>1, <2>1, <2>3, <3>1, <3>2 DEF OneThing, Copied, InRoutine, Sending
    <3> QED BY <1>1, <1>2, <3>1, <3>2, <3>3 DEF RoutineKeeps, NodeInv
  <2> QED BY <2>2, <2>3
<1>6. CASE HandleStamp(n)
  <2>1. /\ isr[n] = "stamp" /\ isr'[n] = "frame" /\ receivedAck'[n] = receivedAck[n] /\ sentAck'[n] = sentAck[n]
    BY <1>6 DEF HandleStamp, Goto, TwoWayTypes
  <2>2. /\ chip'[n].mode = chip[n].mode /\ chip'[n].status \subseteq chip[n].status
        /\ sysstatus[n] \subseteq sysstatus'[n] /\ ("good" \in sysstatus'[n] => "good" \in sysstatus[n])
        /\ pending'[n] = pending[n]
    <3>1. CASE "stamp" \in sysstatus[n]
      BY <1>0, <1>6, <3>1, ClearNode DEF HandleStamp
    <3>2. CASE "stamp" \notin sysstatus[n]
      BY <1>6, <3>2 DEF HandleStamp
    <3> QED BY <3>1, <3>2
  <2>3. (Unread(n)' => Unread(n)) /\ (SentDue(n)' <=> SentDue(n))
    BY <1>0, <1>1, <2>1, <2>2 DEF Unread, SentDue, Quiet, InRoutine
  <2>4. OneThing(n)' /\ Copied(n)'
    BY <1>0, <1>1, <2>1, <2>2, <2>3 DEF OneThing, Copied, InRoutine, Sending
  <2> QED BY <1>1, <1>2, <2>2, <2>3, <2>4 DEF RoutineKeeps, NodeInv, Sending
<1>7. CASE HandleFrame(n)
  <2>1. isr[n] = "frame" /\ isr'[n] = "off" /\ sentAck'[n] = sentAck[n]
    BY <1>7 DEF HandleFrame, Goto, TwoWayTypes
  <2>2. /\ chip'[n].status \subseteq chip[n].status /\ pending'[n] = pending[n]
        /\ chip'[n].mode \in {chip[n].mode, "idle"}
        /\ \/ receivedAck'[n] = receivedAck[n]
           \/ "good" \in sysstatus[n] /\ chip'[n].status = chip[n].status \ (sysstatus[n] \cup {"good", "stamp"})
              /\ receivedAck'[n]
    <3>1. CASE IsReceiveFailed(n)
      <4>1. HandleFailed(n)
        BY <1>7, <3>1 DEF HandleFrame
      <4>2. Control(chip[n], {"off"}) \in Chips /\ Control(chip[n], {"off"}).mode = "idle"
            /\ Control(chip[n], {"off"}).status = chip[n].status
        BY <1>0, Controls
      <4>3. chip'[n].mode = "idle" /\ chip'[n].status \subseteq chip[n].status /\ pending'[n] = pending[n]
        BY <1>0, <4>1, <4>2, ClearNode DEF HandleFailed
      <4> QED BY <4>1, <4>3 DEF HandleFailed
    <3>2. CASE ~IsReceiveFailed(n) /\ IsReceiveDone(n)
      <4>1. HandleReceived(n)
        BY <1>7, <3>2 DEF HandleFrame
      <4>2. /\ chip'[n].mode = chip[n].mode /\ pending'[n] = pending[n]
            /\ chip'[n].status = chip[n].status \ (sysstatus[n] \cup {"good", "stamp"})
        BY <1>0, <4>1, ClearNode DEF HandleReceived
      <4>3. receivedAck'[n]
        BY <4>1 DEF HandleReceived, TwoWayTypes
      <4> QED BY <3>2, <4>2, <4>3 DEF IsReceiveDone
    <3>3. CASE ~IsReceiveFailed(n) /\ ~IsReceiveDone(n)
      BY <1>7, <3>3 DEF HandleFrame
    <3> QED BY <3>1, <3>2, <3>3
  <2>3. (Unread(n)' => Unread(n)) /\ (SentDue(n)' <=> SentDue(n))
    BY <1>0, <1>1, <2>1, <2>2 DEF Unread, SentDue, Quiet, InRoutine, Copied
  <2>4. ~Sending(chip'[n])
    BY <1>1, <2>2 DEF Sending
  <2>5. OneThing(n)' /\ Copied(n)'
    BY <1>0, <1>1, <2>1, <2>2, <2>3, <2>4 DEF OneThing, Copied, InRoutine
  <2> QED BY <1>1, <1>2, <2>3, <2>4, <2>5 DEF RoutineKeeps, NodeInv
<1> QED BY <1>3, <1>4, <1>5, <1>6, <1>7 DEF Routine

\* The other node does not notice the routine.
LEMMA RoutineOther ==
  ASSUME TwoWayTypes, NEW n \in Nodes, Routine(n), main' = main, NEW k \in Nodes \ {n}
  PROVE SameNode(k)
<1>1. \A c, bits : ClearStatus(n, c, bits) => chip'[k] = chip[k] /\ pending'[k] = pending[k] /\ sysstatus'[k] = sysstatus[k]
  BY DEF ClearStatus, Wire, TwoWayTypes
<1>2. chip'[k] = chip[k] /\ pending'[k] = pending[k] /\ sysstatus'[k] = sysstatus[k]
  BY <1>1 DEF Routine, Interrupt, ReadStatus, HandleSent, HandleStamp, HandleFrame, HandleFailed, HandleReceived,
              TwoWayTypes
<1>3. isr'[k] = isr[k] /\ sentAck'[k] = sentAck[k] /\ receivedAck'[k] = receivedAck[k]
  BY DEF Routine, Interrupt, ReadStatus, HandleSent, HandleStamp, HandleFrame, HandleFailed, HandleReceived,
              TwoWayTypes, Goto
<1> QED BY <1>2, <1>3 DEF SameNode

LEMMA OtherNode ==
  ASSUME NEW n \in Nodes
  PROVE Other(n) \in Nodes \ {n} /\ Nodes = {n, Other(n)} /\ (n = I \/ n = R)
BY TwoNodes

----
(* What holds between the nodes *)

\* Neither of them has got anything to say that it had not before.
Quieter ==
  /\ \A n \in Nodes : (Unread(n)' => Unread(n)) /\ (SentDue(n)' <=> SentDue(n))
  /\ \A n \in Nodes : Sending(chip'[n]) <=> Sending(chip[n])
  /\ Sending(chip[R]) => chip'[R].status = chip[R].status
  /\ UNCHANGED <<main, data, frames, protocol, times, round>>

LEMMA QuieterKeeps ==
  ASSUME InTurn, Frames, Acknowledges, Quieter
  PROVE InTurn' /\ Frames' /\ Acknowledges'
<1>1. UNCHANGED <<main, data, txBuffer, txTime, rxFrame, expectedMsgId, timePollReceived, timePollAckSent, round>>
  BY DEF Quieter, frames, protocol, times
<1>2. (Unread(I)' => Unread(I)) /\ (Unread(R)' => Unread(R)) /\ (SentDue(I)' <=> SentDue(I)) /\ (SentDue(R)' <=> SentDue(R))
      /\ (Sending(chip[I])' <=> Sending(chip[I])) /\ (Sending(chip[R])' <=> Sending(chip[R]))
  BY TwoNodes DEF Quieter, Sending
<1>3. InTurn'
  BY <1>1, <1>2 DEF InTurn, Busy, Quieter
<1>4. (\A f : Answer(f)' <=> Answer(f)) /\ (\A f : Ranging(f)' <=> Ranging(f))
  BY <1>1 DEF Answer, Ranging, Matches
<1>5. Frames'
  BY <1>1, <1>2, <1>4 DEF Frames, Answer, Ranging, Matches
<1>6. Acknowledges'
  BY <1>1, <1>2 DEF Acknowledges
<1> QED BY <1>3, <1>5, <1>6

LEMMA InterruptsStep == ASSUME TwoWayInv, NEW n \in Nodes, Interrupts(n) PROVE TwoWayInv'
<1>1. TwoWayTypes /\ (\A k \in Nodes : NodeInv(k)) /\ InTurn /\ Frames /\ Acknowledges
  BY DEF TwoWayInv
<1>2. Routine(n) /\ UNCHANGED <<main, data, frames, protocol, times, round>>
  BY DEF Interrupts
<1>3. TwoWayTypes'
  BY <1>1, <1>2, RoutineTypes DEF TwoWayTypes, frames, protocol
<1>4. RoutineKeeps(n)
  BY <1>1, <1>2, RoutineNode
<1>5. \A k \in Nodes \ {n} : SameNode(k) /\ NodeInv(k)' /\ (Unread(k)' <=> Unread(k)) /\ (SentDue(k)' <=> SentDue(k))
  BY <1>1, <1>2, RoutineOther, NodeKept
<1>6. \A k \in Nodes : NodeInv(k)'
  BY <1>4, <1>5 DEF RoutineKeeps
<1>7. Quieter
  <2>1. \A k \in Nodes : (Unread(k)' => Unread(k)) /\ (SentDue(k)' <=> SentDue(k))
    BY <1>4, <1>5 DEF RoutineKeeps
  <2>2. \A k \in Nodes : Sending(chip'[k]) <=> Sending(chip[k])
    BY <1>4, <1>5 DEF RoutineKeeps, SameNode
  <2>3. Sending(chip[R]) => chip'[R].status = chip[R].status
    BY <1>4, <1>5, TwoNodes DEF RoutineKeeps, SameNode
  <2> QED BY <1>2, <2>1, <2>2, <2>3 DEF Quieter
<1> QED BY <1>1, <1>3, <1>6, <1>7, QuieterKeeps DEF TwoWayInv

----
(* The medium *)

LEMMA EventTypes ==
  ASSUME NEW c \in Chips
  PROVE /\ Stamped(c) \in Chips /\ Stamped(c).mode = "ending" /\ Stamped(c).status = c.status \cup {"stamp"}
        /\ TimeCome(c) \in Chips /\ TimeCome(c).mode = "tx" /\ TimeCome(c).status = c.status
        /\ FrameOut(c) \in Chips /\ FrameOut(c).mode = "idle" /\ FrameOut(c).status = c.status \cup {"sent"}
        /\ FrameIn(c) \in Chips /\ FrameIn(c).mode = "idle" /\ FrameIn(c).status = c.status \cup {"good"}
        /\ FrameSpoilt(c) \in Chips /\ FrameSpoilt(c).mode \in {"rx", "idle"}
        /\ FrameSpoilt(c).status = c.status \cup {"bad"}
<1>1. "stamp" \in Events /\ "sent" \in Events /\ "good" \in Events /\ "bad" \in Events
  BY DEF Events
<1>2. Stamped(c) \in Chips /\ Stamped(c).mode = "ending" /\ Stamped(c).status = c.status \cup {"stamp"}
  BY <1>1 DEF Stamped, Chips, Modes
<1>3. TimeCome(c) \in Chips /\ TimeCome(c).mode = "tx" /\ TimeCome(c).status = c.status
  BY DEF TimeCome, Chips, Modes
<1>4. FrameOut(c) \in Chips /\ FrameOut(c).mode = "idle" /\ FrameOut(c).status = c.status \cup {"sent"}
  BY <1>1 DEF FrameOut, Chips, Modes
<1>5. FrameIn(c) \in Chips /\ FrameIn(c).mode = "idle" /\ FrameIn(c).status = c.status \cup {"good"}
  BY <1>1 DEF FrameIn, Chips, Modes
<1>6. /\ FrameSpoilt(c) \in Chips /\ FrameSpoilt(c).mode \in {"rx", "idle"}
      /\ FrameSpoilt(c).status = c.status \cup {"bad"}
  BY <1>1 DEF FrameSpoilt, Chips, Modes
<1> QED BY <1>2, <1>3, <1>4, <1>5, <1>6

LEMMA StampStep == ASSUME TwoWayInv, NEW n \in Nodes, Stamp(n) \/ DelayOver(n) PROVE TwoWayInv'
<1>1. TwoWayTypes /\ (\A k \in Nodes : NodeInv(k)) /\ InTurn /\ Frames /\ Acknowledges
  BY DEF TwoWayInv
<1>2. /\ UNCHANGED <<sysstatus, isr, sentAck, receivedAck, main, data, txBuffer, protocol, times, round, txTime, rxFrame>>
  BY DEF Stamp, DelayOver, Aether
<1>3. PICK c : Wire(n, c) /\ \/ c = Stamped(chip[n]) /\ chip[n].mode = "rx" /\ Quiet(n)
                             \/ c = TimeCome(chip[n]) /\ chip[n].mode = "delayed"
  BY DEF Stamp, DelayOver
<1>4. chip[n] \in Chips /\ c \in Chips /\ c.status \in {chip[n].status, chip[n].status \cup {"stamp"}}
      /\ (Sending(c) <=> Sending(chip[n])) /\ (Sending(c) => c.status = chip[n].status)
  <2>1. chip[n] \in Chips
    BY <1>1 DEF TwoWayTypes
  <2>2. CASE c = Stamped(chip[n]) /\ chip[n].mode = "rx"
    BY <2>1, <2>2, EventTypes DEF Sending
  <2>3. CASE c = TimeCome(chip[n]) /\ chip[n].mode = "delayed"
    BY <2>1, <2>3, EventTypes DEF Sending
  <2> QED BY <1>3, <2>1, <2>2, <2>3
<1>5. /\ chip' = [chip EXCEPT ![n] = c] /\ pending' = [pending EXCEPT ![n] = Edge(n, c)]
  BY <1>3 DEF Wire
<1>6. TwoWayTypes'
  BY <1>1, <1>2, <1>4, <1>5 DEF TwoWayTypes, Edge, protocol
<1>7. chip'[n] = c /\ pending'[n] = Edge(n, c) /\ \A k \in Nodes \ {n} : SameNode(k)
  BY <1>1, <1>2, <1>5 DEF TwoWayTypes, SameNode
<1>8. OneThing(n) /\ Copied(n) /\ Untouched(n) /\ Quiet(n) /\ ~Unread(n) /\ ~SentDue(n) /\ main[n] # "setup"
  BY <1>1, <1>3, <1>4 DEF NodeInv, OneThing, Untouched, Sending, Asleep
<1>9. isr[n] = "off" /\ ~pending[n] /\ ~sentAck[n] /\ ~receivedAck[n]
  BY <1>8 DEF Quiet, SentDue, Unread
<1>10. ~Unread(n)' /\ ~SentDue(n)'
  <2>1. \A e \in Events : e \in chip[n].status => pending'[n] = FALSE
    BY <1>7, <1>9, TwoNodes DEF Edge, Raised
  <2> QED BY <1>2, <1>4, <1>7, <1>9, <2>1 DEF Unread, SentDue, Quiet, InRoutine, Events
<1>11. Sending(c) => Quiet(n)'
  <2>1. Sending(c) => pending'[n] = FALSE
    BY <1>4, <1>7, <1>9 DEF Edge, Raised
  <2> QED BY <1>2, <1>9, <2>1 DEF Quiet
<1>12. NodeInv(n)'
  BY <1>2, <1>7, <1>8, <1>9, <1>10, <1>11 DEF NodeInv, OneThing, Copied, Untouched, InRoutine
<1>13. \A k \in Nodes \ {n} : NodeInv(k)' /\ (Unread(k)' <=> Unread(k)) /\ (SentDue(k)' <=> SentDue(k))
  BY <1>1, <1>7, NodeKept
<1>14. Quieter
  <2>1. \A k \in Nodes : (Unread(k)' => Unread(k)) /\ (SentDue(k)' <=> SentDue(k))
    BY <1>8, <1>10, <1>13
  <2>2. \A k \in Nodes : Sending(chip'[k]) <=> Sending(chip[k])
    BY <1>4, <1>7 DEF SameNode
  <2>3. Sending(chip[R]) => chip'[R].status = chip[R].status
    BY <1>4, <1>7, TwoNodes DEF SameNode
  <2> QED BY <1>2, <2>1, <2>2, <2>3 DEF Quieter, frames
<1> QED BY <1>1, <1>6, <1>12, <1>13, <1>14, QuieterKeeps DEF TwoWayInv

LEMMA SentNode ==
  ASSUME TwoWayTypes, NEW n \in Nodes, NodeInv(n), Transmitted(n)
  PROVE /\ NodeInv(n)' /\ ~Unread(n)' /\ ~Sending(chip'[n]) /\ main[n] # "setup"
        /\ chip[n].status = {} => SentDue(n)'
<1>1. /\ OneThing(n) /\ Copied(n) /\ Untouched(n) /\ chip[n] \in Chips /\ chip[n].mode = "tx" /\ Quiet(n)
  BY DEF NodeInv, TwoWayTypes, Transmitted
<1>2. main[n] # "setup" /\ ~Unread(n) /\ ~SentDue(n)
  BY <1>1 DEF Untouched, Asleep, OneThing
<1>3. isr[n] = "off" /\ ~pending[n] /\ ~sentAck[n] /\ ~receivedAck[n]
  BY <1>1, <1>2 DEF Quiet, Unread, SentDue
<1>4. chip'[n] = FrameOut(chip[n]) /\ pending'[n] = Edge(n, FrameOut(chip[n]))
  BY OtherNode DEF Transmitted, TwoWayTypes
<1>5. isr'[n] = "off" /\ sysstatus'[n] = sysstatus[n] /\ sentAck'[n] = sentAck[n] /\ receivedAck'[n] = receivedAck[n]
      /\ main'[n] = main[n]
  BY <1>3 DEF Transmitted, Aether
<1>6. chip'[n].mode = "idle" /\ chip'[n].status = chip[n].status \cup {"sent"} /\ chip[n].status \subseteq Events
  BY <1>1, <1>4, EventTypes DEF Chips
<1>7. "good" \in chip[n].status => pending'[n] = FALSE
  BY <1>1, <1>3, <1>4, <1>6, TwoNodes DEF Edge, Raised
<1>8. ~Unread(n)'
  BY <1>3, <1>5, <1>6, <1>7 DEF Unread, Quiet, InRoutine
<1>9. ~Sending(chip'[n])
  BY <1>6 DEF Sending
<1>10. NodeInv(n)'
  BY <1>2, <1>3, <1>5, <1>6, <1>8, <1>9 DEF NodeInv, OneThing, Copied, Untouched, InRoutine
<1>11. ASSUME chip[n].status = {} PROVE SentDue(n)'
  <2>1. "sent" \in Masked /\ ~Raised(chip[n]) /\ Raised(chip'[n])
    BY <1>6, <1>11, TwoNodes DEF Raised, Events
  <2>2. pending'[n] = TRUE
    BY <1>4, <2>1 DEF Edge
  <2> QED BY <1>5, <1>6, <2>2 DEF SentDue
<1> QED BY <1>2, <1>8, <1>9, <1>10, <1>11

LEMMA HeardNode ==
  ASSUME TwoWayTypes, NEW n \in Nodes, NEW m, m = Other(n), NodeInv(m), Transmitted(n)
  PROVE /\ NodeInv(m)' /\ (Unread(m)' => Unread(m) \/ rxFrame'[m] = txBuffer[n])
        /\ SentDue(m)' <=> SentDue(m)
        /\ Sending(chip'[m]) => Sending(chip[m])
<1>0. m \in Nodes \ {n}
  BY OtherNode
<1>1. /\ OneThing(m) /\ Copied(m) /\ Untouched(m) /\ chip[m] \in Chips /\ pending[m] \in BOOLEAN
  BY <1>0 DEF NodeInv, TwoWayTypes
<1>2. PICK c \in Heard(chip[m]) :
        /\ chip'[m] = c /\ pending'[m] = Edge(m, c)
        /\ rxFrame'[m] = IF "good" \in c.status \ chip[m].status THEN txBuffer[n] ELSE rxFrame[m]
  BY <1>0 DEF Transmitted, TwoWayTypes
<1>3. /\ isr' = isr /\ sysstatus' = sysstatus /\ sentAck' = sentAck /\ receivedAck' = receivedAck /\ main' = main
  BY DEF Transmitted, Aether
<1>4. CASE c = chip[m]
  <2>1. SameNode(m)
    BY <1>1, <1>2, <1>3, <1>4 DEF SameNode, Edge
  <2> QED BY <2>1, NodeKept DEF SameNode
<1>5. CASE c # chip[m]
  <2>1. Listening(chip[m]) /\ \/ \E d \in Chips : c = FrameIn(d) /\ d.status \in {chip[m].status, chip[m].status \cup {"stamp"}}
                              \/ c = FrameSpoilt(chip[m])
    BY <1>1, <1>2, <1>5, EventTypes DEF Heard
  <2>2. ~Unread(m) /\ ~SentDue(m) /\ main[m] # "setup"
    BY <1>1, <2>1 DEF Listening, OneThing, Untouched, Asleep
  <2>3. /\ c.mode \in {"idle", "rx"} /\ chip[m].status \subseteq c.status
        /\ c.status \subseteq chip[m].status \cup {"stamp", "good", "bad"} /\ ("good" \in c.status => c.mode = "idle" \/ "good" \in chip[m].status)
    BY <1>1, <2>1, EventTypes
  <2>4. (chip[m].status \cap Events # {} /\ ~pending[m]) => ~pending'[m]
    BY <1>2, TwoNodes DEF Edge, Raised
  <2>5. "good" \in chip[m].status => ~Unread(m)'
    BY <1>2, <1>3, <2>2, <2>4 DEF Unread, Quiet, InRoutine, Events
  <2>6. Unread(m)' => rxFrame'[m] = txBuffer[n] /\ c.mode = "idle"
    BY <1>2, <1>3, <2>2, <2>3, <2>5 DEF Unread, Quiet, InRoutine
  <2>7. ~SentDue(m)'
    BY <1>2, <1>3, <2>2, <2>3, <2>4 DEF SentDue, Events
  <2>8. ~Sending(chip'[m])
    BY <1>2, <2>3 DEF Sending
  <2>9. OneThing(m)'
    BY <1>2, <2>6, <2>7, <2>8 DEF OneThing
  <2>10. Copied(m)'
    BY <1>1, <1>2, <1>3, <2>2, <2>3 DEF Copied, InRoutine, Unread
  <2>11. Untouched(m)'
    BY <1>3, <2>2 DEF Untouched
  <2> QED BY <2>2, <2>6, <2>7, <2>8, <2>9, <2>10, <2>11 DEF NodeInv
<1> QED BY <1>4, <1>5

LEMMA TransmittedTypes == ASSUME TwoWayTypes, NEW n \in Nodes, Transmitted(n) PROVE TwoWayTypes'
<1>0. chip[n] \in Chips /\ chip[Other(n)] \in Chips /\ Other(n) \in Nodes
  BY OtherNode DEF TwoWayTypes
<1>1. PICK c \in Heard(chip[Other(n)]) :
        /\ chip' = [chip EXCEPT ![n] = FrameOut(@), ![Other(n)] = c]
        /\ pending' = [pending EXCEPT ![n] = Edge(n, FrameOut(chip[n])), ![Other(n)] = Edge(Other(n), c)]
  BY DEF Transmitted
<1>2. c \in Chips /\ FrameOut(chip[n]) \in Chips
  BY <1>0, <1>1, EventTypes DEF Heard
<1>3. chip' \in [Nodes -> Chips] /\ pending' \in [Nodes -> BOOLEAN]
  BY <1>0, <1>1, <1>2 DEF TwoWayTypes, Edge
<1>4. rxFrame' = [k \in Nodes |-> rxFrame'[k]] /\ txTime' = [k \in Nodes |-> txTime'[k]]
  BY DEF Transmitted, TwoWayTypes
<1> QED BY <1>3, <1>4 DEF Transmitted, Aether, TwoWayTypes, protocol

LEMMA TransmittedStep == ASSUME TwoWayInv, NEW n \in Nodes, Transmitted(n) PROVE TwoWayInv'
<1>1. TwoWayTypes /\ (\A k \in Nodes : NodeInv(k)) /\ InTurn /\ Frames /\ Acknowledges
  BY DEF TwoWayInv
<1>2. PICK m : m = Other(n)
  OBVIOUS
<1>3. m \in Nodes \ {n} /\ Nodes = {n, m}
  BY <1>2, OtherNode
<1>4. /\ NodeInv(n)' /\ ~Unread(n)' /\ ~Sending(chip'[n]) /\ main[n] # "setup"
      /\ chip[n].status = {} => SentDue(n)'
  BY <1>1, SentNode
<1>5. /\ NodeInv(m)' /\ (Unread(m)' => Unread(m) \/ rxFrame'[m] = txBuffer[n])
      /\ SentDue(m)' <=> SentDue(m)
      /\ Sending(chip'[m]) => Sending(chip[m])
  BY <1>1, <1>2, <1>3, HeardNode
<1>6. \A k \in Nodes : NodeInv(k)'
  BY <1>3, <1>4, <1>5
<1>7. /\ UNCHANGED <<main, data, txBuffer, expectedMsgId, timePollReceived, timePollAckSent, round>>
      /\ txTime' = [txTime EXCEPT ![n] = txBuffer[n]]
  BY DEF Transmitted, Aether, protocol, times
<1>8. txTime'[n] = txBuffer[n] /\ txTime'[m] = txTime[m]
  BY <1>1, <1>3, <1>7 DEF TwoWayTypes
<1>9. Sending(chip[n]) /\ Busy(n)
  BY DEF Transmitted, Sending, Busy
<1>10. ~Busy(m) /\ main[I] \notin {"setup", "reset"}
  BY <1>3, <1>9, TwoNodes, OtherNode, <1>1 DEF InTurn
<1>11. ~Busy(n)' /\ ~Sending(chip'[m]) /\ (Unread(m)' => rxFrame'[m] = txBuffer[n])
  BY <1>4, <1>5, <1>10 DEF Busy
<1>12. InTurn'
  BY <1>1, <1>3, <1>4, <1>7, <1>10, <1>11, TwoNodes DEF InTurn, Busy
<1>13. \A f : Ranging(f)' <=> Ranging(f)
  BY <1>7 DEF Ranging, Matches
<1>14. CASE n = I
  <2>1. m = R
    BY <1>2, <1>14, TwoNodes
  <2>2. Frames'
    BY <1>1, <1>4, <1>7, <1>8, <1>9, <1>11, <1>14, <2>1 DEF Frames, Ranging, Matches
  <2>3. Acknowledges'
    BY <1>1, <1>5, <1>7, <1>8, <1>10, <1>11, <2>1 DEF Acknowledges, Busy
  <2> QED BY <2>2, <2>3, <1>6, <1>12, <1>1, TransmittedTypes DEF TwoWayInv
<1>15. CASE n = R
  <2>1. m = I
    BY <1>2, <1>15, TwoNodes
  <2>2. Frames'
    BY <1>1, <1>4, <1>7, <1>8, <1>9, <1>11, <1>15, <2>1 DEF Frames, Answer, Matches
  <2>3. SentDue(R)'
    BY <1>1, <1>4, <1>9, <1>15 DEF InTurn
  <2>4. Acknowledges'
    BY <1>1, <1>4, <1>7, <1>8, <1>9, <1>15, <2>3 DEF Acknowledges
  <2> QED BY <2>2, <2>4, <1>6, <1>12, <1>1, TransmittedTypes DEF TwoWayInv
<1> QED BY <1>14, <1>15, OtherNode

----
(* The loops *)

\* A loop acts while its routine is at rest, and then only its flags say what is new.
LEMMA LoopNode ==
  ASSUME NEW n \in Nodes, NodeInv(n), Quiet(n), chip'[n].status = chip[n].status, pending'[n] = pending[n],
         isr'[n] = isr[n], sysstatus'[n] = sysstatus[n],
         receivedAck'[n] => receivedAck[n] /\ chip'[n].mode = "idle" /\ ~sentAck'[n],
         sentAck'[n] => chip'[n].mode = "idle",
         main'[n] # "setup"
  PROVE /\ NodeInv(n)' /\ (Unread(n)' <=> receivedAck'[n]) /\ (SentDue(n)' <=> sentAck'[n])
<1>1. isr[n] = "off" /\ ~pending[n]
  BY DEF Quiet
<1>2. (Unread(n)' <=> receivedAck'[n]) /\ (SentDue(n)' <=> sentAck'[n]) /\ Quiet(n)'
  BY <1>1 DEF Unread, SentDue, Quiet, InRoutine
<1>3. OneThing(n)'
  BY <1>2 DEF OneThing
<1>4. Copied(n)'
  BY <1>1 DEF NodeInv, Copied, InRoutine
<1> QED BY <1>2, <1>3, <1>4 DEF NodeInv, Untouched

\* What a step of a loop leaves alone.
LoopKeeps(n) ==
  /\ UNCHANGED <<sysstatus, isr, txTime, rxFrame>>
  /\ \A k \in Nodes \ {n} : SameNode(k)
  /\ chip'[n].status = chip[n].status /\ pending'[n] = pending[n]

LEMMA LoopTypes ==
  ASSUME TwoWayTypes, NEW n \in Nodes, NEW c \in Chips, Wire(n, c), c.status = chip[n].status,
         UNCHANGED <<sysstatus, isr, txTime, rxFrame>>,
         main' = main \/ \E v \in {"loop", "reset"} : main' = [main EXCEPT ![n] = v],
         sentAck' = sentAck \/ sentAck' = [sentAck EXCEPT ![n] = FALSE],
         receivedAck' = receivedAck \/ receivedAck' = [receivedAck EXCEPT ![n] = FALSE],
         data' = data \/ \E f : data' = [data EXCEPT ![n] = f],
         txBuffer' = txBuffer \/ \E f : txBuffer' = [txBuffer EXCEPT ![n] = f],
         expectedMsgId' = expectedMsgId \/ \E f : expectedMsgId' = [expectedMsgId EXCEPT ![n] = f]
  PROVE TwoWayTypes' /\ LoopKeeps(n) /\ chip'[n] = c
<1>1. /\ chip'[n] = c /\ pending'[n] = pending[n]
      /\ \A k \in Nodes \ {n} : chip'[k] = chip[k] /\ pending'[k] = pending[k]
      /\ pending' \in [Nodes -> BOOLEAN]
  BY WireSame
<1>2. chip' \in [Nodes -> Chips]
  BY DEF Wire, TwoWayTypes
<1>3. main' \in [Nodes -> {"setup", "loop", "reset"}] /\ \A k \in Nodes \ {n} : main'[k] = main[k]
  BY DEF TwoWayTypes
<1>4. sentAck' \in [Nodes -> BOOLEAN] /\ \A k \in Nodes \ {n} : sentAck'[k] = sentAck[k]
  BY DEF TwoWayTypes
<1>5. receivedAck' \in [Nodes -> BOOLEAN] /\ \A k \in Nodes \ {n} : receivedAck'[k] = receivedAck[k]
  BY DEF TwoWayTypes
<1>6. data' = [k \in Nodes |-> data'[k]]
  BY DEF TwoWayTypes
<1>7. txBuffer' = [k \in Nodes |-> txBuffer'[k]]
  BY DEF TwoWayTypes
<1>8. expectedMsgId' = [k \in Nodes |-> expectedMsgId'[k]]
  BY DEF TwoWayTypes
<1>9. isr' = isr /\ sysstatus' = sysstatus /\ txTime' = txTime /\ rxFrame' = rxFrame
  OBVIOUS
<1>10. TwoWayTypes'
  BY <1>1, <1>2, <1>3, <1>4, <1>5, <1>6, <1>7, <1>8, <1>9 DEF TwoWayTypes
<1> QED BY <1>1, <1>3, <1>4, <1>5, <1>10 DEF LoopKeeps, SameNode

\* What the responder's part of the invariant says does not change with the initiator.
LEMMA ResponderKept ==
  ASSUME TwoWayTypes, Acknowledges, InTurn, NodeInv(R), LoopKeeps(I),
         data'[R] = data[R], txBuffer'[R] = txBuffer[R], expectedMsgId'[R] = expectedMsgId[R],
         timePollReceived' = timePollReceived, timePollAckSent' = timePollAckSent
  PROVE /\ NodeInv(R)' /\ Acknowledges' /\ (Unread(R)' <=> Unread(R)) /\ (Sending(chip'[R]) <=> Sending(chip[R]))
        /\ main'[R] = main[R] /\ (Sending(chip'[R]) => chip'[R].status = {})
<1>1. SameNode(R)
  BY TwoNodes DEF LoopKeeps
<1>2. NodeInv(R)' /\ (Unread(R)' <=> Unread(R)) /\ (SentDue(R)' <=> SentDue(R))
  BY <1>1, NodeKept, TwoNodes
<1>3. Acknowledges'
  BY <1>1, <1>2 DEF Acknowledges, SameNode, LoopKeeps
<1> QED BY <1>1, <1>2, <1>3 DEF SameNode, InTurn

LEMMA PollStep ==
  ASSUME TwoWayInv, Quiet(I), TransmitPoll, ~Unread(R), ~Sending(chip[R]),
         UNCHANGED <<sysstatus, isr, txTime, rxFrame, timePollReceived, timePollAckSent>>,
         main' = main \/ main' = [main EXCEPT ![I] = "loop"], main'[I] = "loop",
         sentAck' = sentAck, ~sentAck[I],
         receivedAck' = receivedAck \/ receivedAck' = [receivedAck EXCEPT ![I] = FALSE], ~receivedAck'[I],
         expectedMsgId' = expectedMsgId \/ \E f : expectedMsgId' = [expectedMsgId EXCEPT ![I] = f]
  PROVE TwoWayInv'
<1>1. TwoWayTypes /\ NodeInv(I) /\ NodeInv(R) /\ InTurn /\ Frames /\ Acknowledges /\ I \in Nodes /\ R \in Nodes \ {I}
  BY TwoNodes DEF TwoWayInv
<1>2. PICK c : c = Control(chip[I], {"txstart"})
  OBVIOUS
<1>3. /\ data' = [data EXCEPT ![I] = Plain("POLL", round')] /\ txBuffer' = [txBuffer EXCEPT ![I] = Plain("POLL", round')]
      /\ Wire(I, c)
  <2>1. {"txstart"} \cup {} = {"txstart"}
    OBVIOUS
  <2> QED BY <1>2, <2>1 DEF TransmitPoll, Transmit
<1>4. c \in Chips /\ c.mode = "tx" /\ c.status = chip[I].status
  <2>1. chip[I] \in Chips
    BY <1>1 DEF TwoWayTypes
  <2> QED BY <1>2, <2>1, Controls
<1>5. TwoWayTypes' /\ LoopKeeps(I) /\ chip'[I] = c
  BY <1>1, <1>3, <1>4, LoopTypes
<1>6. txBuffer'[I] = Plain("POLL", round') /\ txBuffer'[R] = txBuffer[R] /\ data'[R] = data[R]
      /\ expectedMsgId'[R] = expectedMsgId[R]
  BY <1>1, <1>3 DEF TwoWayTypes
<1>7. /\ NodeInv(R)' /\ Acknowledges' /\ (Unread(R)' <=> Unread(R)) /\ (Sending(chip'[R]) <=> Sending(chip[R]))
      /\ main'[R] = main[R] /\ (Sending(chip'[R]) => chip'[R].status = {})
  BY <1>1, <1>5, <1>6, ResponderKept
<1>8. NodeInv(I)' /\ ~Unread(I)' /\ ~SentDue(I)'
  BY <1>1, <1>4, <1>5, LoopNode DEF LoopKeeps
<1>9. InTurn'
  BY <1>1, <1>7, <1>8 DEF InTurn, Busy
<1>10. Frames'
  BY <1>6, <1>7, <1>8 DEF Frames
<1> QED BY <1>5, <1>7, <1>8, <1>9, <1>10, TwoNodes DEF TwoWayInv

LEMMA LoopFacts ==
  ASSUME TwoWayInv
  PROVE /\ TwoWayTypes /\ NodeInv(I) /\ NodeInv(R) /\ InTurn /\ Frames /\ Acknowledges
        /\ I \in Nodes /\ R \in Nodes /\ I # R /\ chip[I] \in Chips /\ chip[R] \in Chips
BY TwoNodes DEF TwoWayInv, TwoWayTypes

LEMMA SetupInitiatorStep == ASSUME TwoWayInv, SetupInitiator PROVE TwoWayInv'
<1>1. /\ TransmitPoll /\ main[I] = "setup" /\ main' = [main EXCEPT ![I] = "loop"]
      /\ UNCHANGED <<sysstatus, isr, txTime, rxFrame, timePollReceived, timePollAckSent,
                     sentAck, receivedAck, expectedMsgId>>
  BY DEF SetupInitiator, UNCHANGEDbyLoops, times, protocol
<1>2. Quiet(I) /\ ~Flags(I) /\ ~Unread(R) /\ ~Sending(chip[R])
  BY <1>1, LoopFacts DEF NodeInv, Untouched, InTurn, Busy
<1>3. main'[I] = "loop"
  BY <1>1, LoopFacts DEF TwoWayTypes
<1> QED BY <1>1, <1>2, <1>3, PollStep DEF Flags

LEMMA PollAgainStep == ASSUME TwoWayInv, PollAgain PROVE TwoWayInv'
<1>1. /\ TransmitPoll /\ main[I] = "reset" /\ Quiet(I) /\ main' = [main EXCEPT ![I] = "loop"]
      /\ UNCHANGED <<sysstatus, isr, txTime, rxFrame, timePollReceived, timePollAckSent,
                     sentAck, receivedAck, expectedMsgId>>
  BY DEF PollAgain, UNCHANGEDbyLoops, times, protocol
<1>2. ~sentAck[I] /\ ~receivedAck[I] /\ ~Unread(R) /\ ~Sending(chip[R])
  BY <1>1, LoopFacts DEF InTurn, Busy, Unread, SentDue
<1>3. main'[I] = "loop"
  BY <1>1, LoopFacts DEF TwoWayTypes
<1> QED BY <1>1, <1>2, <1>3, PollStep

\* All is still when a watchdog fires.
LEMMA StillNodes ==
  ASSUME TwoWayInv, ~EarlyReset, NEW n \in Nodes, Inactive(n)
  PROVE /\ Quiet(I) /\ Quiet(R) /\ ~Busy(I) /\ ~Busy(R) /\ ~SentDue(I) /\ ~SentDue(R)
        /\ main[I] = "loop" /\ main[R] = "loop"
        /\ ~sentAck[I] /\ ~receivedAck[I] /\ ~sentAck[R] /\ ~receivedAck[R]
<1>1. \A k \in Nodes : Quiet(k) /\ main[k] = "loop" /\ ~Flags(k) /\ ~Sending(chip[k])
  BY DEF Inactive, Still
<1> QED BY <1>1, QuietNode, LoopFacts DEF Flags, Busy

LEMMA ResetInitiatorStep == ASSUME TwoWayInv, ~EarlyReset, ResetInitiator PROVE TwoWayInv'
<1>1. PICK c : c = Control(chip[I], {"off"})
  OBVIOUS
<1>2. c \in Chips /\ c.mode = "idle" /\ c.status = chip[I].status
  BY <1>1, LoopFacts, Controls
<1>3. /\ Wire(I, c) /\ main' = [main EXCEPT ![I] = "reset"]
      /\ UNCHANGED <<sysstatus, isr, txTime, rxFrame, timePollReceived, timePollAckSent,
                     sentAck, receivedAck, data, txBuffer, round>>
      /\ expectedMsgId' = [expectedMsgId EXCEPT ![I] = "POLL_ACK"]
  BY <1>1 DEF ResetInitiator, UNCHANGEDbyLoops, times, Expect
<1>4. /\ Quiet(I) /\ Quiet(R) /\ ~Busy(I) /\ ~Busy(R) /\ ~SentDue(I) /\ ~SentDue(R)
      /\ ~sentAck[I] /\ ~receivedAck[I] /\ ~sentAck[R] /\ ~receivedAck[R] /\ main[R] = "loop"
  BY LoopFacts, StillNodes DEF ResetInitiator
<1>5. TwoWayTypes' /\ LoopKeeps(I) /\ chip'[I] = c
  BY <1>2, <1>3, LoopFacts, LoopTypes
<1>6. main'[I] = "reset" /\ expectedMsgId'[R] = expectedMsgId[R]
  BY <1>3, LoopFacts DEF TwoWayTypes
<1>7. /\ NodeInv(R)' /\ Acknowledges' /\ (Unread(R)' <=> Unread(R)) /\ (Sending(chip'[R]) <=> Sending(chip[R]))
      /\ main'[R] = main[R] /\ (Sending(chip'[R]) => chip'[R].status = {})
  BY <1>3, <1>5, <1>6, LoopFacts, ResponderKept
<1>8. NodeInv(I)' /\ ~Unread(I)' /\ ~SentDue(I)'
  BY <1>2, <1>3, <1>4, <1>5, <1>6, LoopFacts, LoopNode DEF LoopKeeps
<1>9. ~Sending(chip'[I])
  BY <1>2, <1>5 DEF Sending
<1>10. InTurn' /\ Frames'
  BY <1>4, <1>7, <1>8, <1>9 DEF InTurn, Busy, Frames
<1> QED BY <1>5, <1>7, <1>8, <1>10, TwoNodes DEF TwoWayInv

LEMMA SentInitiatorStep == ASSUME TwoWayInv, SentInitiator PROVE TwoWayInv'
<1>0. Quiet(I) /\ sentAck[I] /\ main[I] = "loop"
  BY DEF SentInitiator, MayStep
<1>1. chip[I].mode = "idle" /\ ~Unread(I) /\ ~receivedAck[I]
  BY <1>0, LoopFacts DEF NodeInv, OneThing, SentDue, Unread
<1>2. PICK c : c = Control(chip[I], {"rxenable"})
  OBVIOUS
<1>3. c \in Chips /\ c.mode = "rx" /\ c.status = chip[I].status
  BY <1>1, <1>2, LoopFacts, Controls
<1>4. /\ Wire(I, c) /\ sentAck' = [sentAck EXCEPT ![I] = FALSE]
      /\ UNCHANGED <<sysstatus, isr, txTime, rxFrame, timePollReceived, timePollAckSent,
                     main, receivedAck, data, txBuffer, round, expectedMsgId>>
  BY <1>2 DEF SentInitiator, UNCHANGEDbyLoops, times, protocol
<1>5. TwoWayTypes' /\ LoopKeeps(I) /\ chip'[I] = c
  BY <1>3, <1>4, LoopFacts, LoopTypes
<1>6. ~sentAck'[I]
  BY <1>4, LoopFacts DEF TwoWayTypes
<1>7. /\ NodeInv(R)' /\ Acknowledges' /\ (Unread(R)' <=> Unread(R)) /\ (Sending(chip'[R]) <=> Sending(chip[R]))
      /\ main'[R] = main[R] /\ (Sending(chip'[R]) => chip'[R].status = {})
  BY <1>4, <1>5, LoopFacts, ResponderKept
<1>8. NodeInv(I)' /\ ~Unread(I)' /\ ~SentDue(I)'
  BY <1>0, <1>1, <1>3, <1>4, <1>5, <1>6, LoopFacts, LoopNode DEF LoopKeeps
<1>9. ~Sending(chip'[I])
  BY <1>3, <1>5 DEF Sending
<1>10. InTurn'
  BY <1>0, <1>4, <1>7, <1>8, <1>9, LoopFacts DEF InTurn, Busy
<1>11. Frames'
  BY <1>4, <1>5, <1>7, <1>8, <1>9, LoopFacts DEF Frames, Ranging, Answer, Matches
<1> QED BY <1>5, <1>7, <1>8, <1>10, <1>11, TwoNodes DEF TwoWayInv

LEMMA ReceivedInitiatorStep == ASSUME TwoWayInv, ReceivedInitiator PROVE TwoWayInv'
<1>0. Quiet(I) /\ ~sentAck[I] /\ receivedAck[I] /\ main[I] = "loop"
  BY DEF ReceivedInitiator, MayStep
<1>1. Unread(I) /\ ~Unread(R) /\ ~Sending(chip[R])
  BY <1>0, LoopFacts DEF InTurn, Busy, Unread
<1>2. /\ UNCHANGED <<sysstatus, isr, txTime, rxFrame, timePollReceived, timePollAckSent, main, sentAck>>
      /\ receivedAck' = [receivedAck EXCEPT ![I] = FALSE]
  BY DEF ReceivedInitiator, UNCHANGEDbyLoops
<1>3. ~receivedAck'[I]
  BY <1>2, LoopFacts DEF TwoWayTypes
<1>4. CASE TransmitPoll /\ Expect(I, "POLL_ACK")
  BY <1>0, <1>1, <1>2, <1>3, <1>4, PollStep DEF Expect
<1>5. CASE /\ rxFrame[I].id = "POLL_ACK" /\ Expect(I, "RANGE_REPORT") /\ round' = round
           /\ Transmit(I, Range(txTime[I], rxFrame[I], round), {"txdelay"})
  <2>1. rxFrame[I] = Plain("POLL_ACK", round) /\ txTime[I] = Plain("POLL", round) /\ Matches(round)
    BY <1>1, <1>5, LoopFacts DEF Frames, Answer
  <2>2. PICK c : c = Control(chip[I], {"txstart", "txdelay"})
    OBVIOUS
  <2>3. c \in Chips /\ c.mode = "delayed" /\ c.status = chip[I].status
    BY <2>2, LoopFacts, Controls
  <2>4. PICK f : f = Range(txTime[I], rxFrame[I], round)
    OBVIOUS
  <2>5. Wire(I, c) /\ data' = [data EXCEPT ![I] = f] /\ txBuffer' = [txBuffer EXCEPT ![I] = f]
    <3>1. {"txstart"} \cup {"txdelay"} = {"txstart", "txdelay"}
      OBVIOUS
    <3> QED BY <1>5, <2>2, <2>4, <3>1 DEF Transmit
  <2>6. expectedMsgId' = [expectedMsgId EXCEPT ![I] = "RANGE_REPORT"]
    BY <1>5 DEF Expect
  <2>7. TwoWayTypes' /\ LoopKeeps(I) /\ chip'[I] = c
    BY <1>2, <2>3, <2>5, <2>6, LoopFacts, LoopTypes
  <2>8. txBuffer'[I] = f /\ txBuffer'[R] = txBuffer[R] /\ data'[R] = data[R] /\ expectedMsgId'[R] = expectedMsgId[R]
    BY <2>5, <2>6, LoopFacts DEF TwoWayTypes
  <2>9. /\ NodeInv(R)' /\ Acknowledges' /\ (Unread(R)' <=> Unread(R)) /\ (Sending(chip'[R]) <=> Sending(chip[R]))
        /\ main'[R] = main[R] /\ (Sending(chip'[R]) => chip'[R].status = {})
    BY <1>2, <2>7, <2>8, LoopFacts, ResponderKept
  <2>10. NodeInv(I)' /\ ~Unread(I)' /\ ~SentDue(I)'
    BY <1>0, <1>2, <1>3, <2>3, <2>7, LoopFacts, LoopNode DEF LoopKeeps
  <2>11. InTurn'
    BY <1>0, <1>1, <1>2, <2>9, <2>10, LoopFacts DEF InTurn, Busy
  <2>12. Ranging(f)'
    BY <1>2, <1>5, <2>1, <2>4, <2>8 DEF Ranging, Matches
  <2>13. Frames'
    BY <1>1, <2>8, <2>9, <2>10, <2>12 DEF Frames, Ranging
  <2> QED BY <2>7, <2>9, <2>10, <2>11, <2>13, TwoNodes DEF TwoWayInv
<1> QED BY <1>4, <1>5 DEF ReceivedInitiator

\* What the initiator's part of the invariant says does not change with the responder.
LEMMA InitiatorKept ==
  ASSUME TwoWayTypes, NodeInv(I), LoopKeeps(R)
  PROVE /\ NodeInv(I)' /\ (Unread(I)' <=> Unread(I)) /\ (SentDue(I)' <=> SentDue(I))
        /\ (Sending(chip'[I]) <=> Sending(chip[I])) /\ main'[I] = main[I]
<1>1. SameNode(I)
  BY TwoNodes DEF LoopKeeps
<1> QED BY <1>1, NodeKept DEF SameNode

\* The responder turns its receiver on.
LEMMA ListenStep ==
  ASSUME TwoWayInv, Quiet(R), ~receivedAck[R], ~Sending(chip[R]),
         NEW c \in Chips, Wire(R, c), c.mode = "rx", c.status = chip[R].status,
         UNCHANGED <<sysstatus, isr, txTime, rxFrame, data, txBuffer, round, timePollReceived, receivedAck>>,
         main' = main \/ main' = [main EXCEPT ![R] = "loop"], main'[R] = "loop",
         sentAck' = sentAck \/ sentAck' = [sentAck EXCEPT ![R] = FALSE], ~sentAck'[R],
         expectedMsgId' = expectedMsgId \/ expectedMsgId' = [expectedMsgId EXCEPT ![R] = "POLL"],
         expectedMsgId[R] = "RANGE" => expectedMsgId'[R] = "POLL" \/ timePollAckSent' = data[R]
  PROVE TwoWayInv'
<1>1. TwoWayTypes' /\ LoopKeeps(R) /\ chip'[R] = c
  BY LoopFacts, LoopTypes
<1>2. NodeInv(R)' /\ ~Unread(R)' /\ ~SentDue(R)' /\ ~Unread(R)
  BY <1>1, LoopFacts, LoopNode, QuietNode DEF LoopKeeps
<1>3. /\ NodeInv(I)' /\ (Unread(I)' <=> Unread(I)) /\ (SentDue(I)' <=> SentDue(I))
      /\ (Sending(chip'[I]) <=> Sending(chip[I])) /\ main'[I] = main[I]
  BY <1>1, LoopFacts, InitiatorKept
<1>4. ~Sending(chip'[R])
  BY <1>1 DEF Sending
<1>5. expectedMsgId'[R] = "RANGE" => expectedMsgId[R] = "RANGE" /\ timePollAckSent' = data[R]
  BY LoopFacts DEF TwoWayTypes
<1>6. InTurn'
  BY <1>2, <1>3, <1>4, LoopFacts DEF InTurn, Busy
<1>7. Matches(round) => Matches(round)'
  BY <1>5 DEF Matches
<1>8. Frames'
  BY <1>2, <1>3, <1>4, <1>7, LoopFacts DEF Frames, Ranging, Answer
<1>9. Acknowledges'
  BY <1>2, <1>4, <1>5, LoopFacts DEF Acknowledges
<1> QED BY <1>1, <1>2, <1>3, <1>6, <1>8, <1>9, TwoNodes DEF TwoWayInv

LEMMA SetupResponderStep == ASSUME TwoWayInv, SetupResponder PROVE TwoWayInv'
<1>1. main[R] = "setup" /\ chip[R] = Asleep /\ Quiet(R) /\ ~sentAck[R] /\ ~receivedAck[R]
  BY LoopFacts DEF SetupResponder, NodeInv, Untouched, Flags
<1>2. PICK c : c = Control(chip[R], {"rxenable"})
  OBVIOUS
<1>3. c \in Chips /\ c.mode = "rx" /\ c.status = chip[R].status /\ ~Sending(chip[R])
  <2>1. chip[R].mode = "idle"
    BY <1>1 DEF Asleep
  <2> QED BY <1>2, <2>1, LoopFacts, Controls DEF Sending
<1>4. /\ Wire(R, c) /\ main' = [main EXCEPT ![R] = "loop"]
      /\ UNCHANGED <<sysstatus, isr, txTime, rxFrame, data, txBuffer, round, timePollReceived, timePollAckSent,
                     receivedAck, sentAck, expectedMsgId>>
  BY <1>2 DEF SetupResponder, UNCHANGEDbyLoops, times, protocol
<1>5. main'[R] = "loop"
  BY <1>4, LoopFacts DEF TwoWayTypes
<1>6. expectedMsgId[R] = "RANGE" => timePollAckSent' = data[R]
  BY <1>1, <1>3, <1>4, LoopFacts, QuietNode DEF Acknowledges
<1> QED BY <1>1, <1>3, <1>4, <1>5, <1>6, ListenStep

LEMMA ResetResponderStep == ASSUME TwoWayInv, ~EarlyReset, ResetResponder PROVE TwoWayInv'
<1>1. /\ Quiet(R) /\ ~sentAck[R] /\ ~receivedAck[R] /\ main[R] = "loop" /\ ~Sending(chip[R])
  BY LoopFacts, StillNodes DEF ResetResponder, Busy
<1>2. PICK b : b = Control(chip[R], {"off"})
  OBVIOUS
<1>3. b \in Chips /\ b.mode = "idle" /\ b.status = chip[R].status
  BY <1>2, LoopFacts, Controls
<1>4. PICK c : c = Control(b, {"rxenable"})
  OBVIOUS
<1>5. c \in Chips /\ c.mode = "rx" /\ c.status = chip[R].status
  BY <1>3, <1>4, Controls
<1>6. /\ Wire(R, c) /\ expectedMsgId' = [expectedMsgId EXCEPT ![R] = "POLL"]
      /\ UNCHANGED <<sysstatus, isr, txTime, rxFrame, data, txBuffer, round, timePollReceived,
                     receivedAck, sentAck, main>>
  BY <1>2, <1>4 DEF ResetResponder, UNCHANGEDbyLoops, times, Expect
<1>7. expectedMsgId'[R] = "POLL"
  BY <1>6, LoopFacts DEF TwoWayTypes
<1> QED BY <1>1, <1>5, <1>6, <1>7, ListenStep

LEMMA SentResponderStep == ASSUME TwoWayInv, SentResponder PROVE TwoWayInv'
<1>1. Quiet(R) /\ sentAck[R] /\ main[R] = "loop" /\ SentDue(R)
  BY DEF SentResponder, MayStep, SentDue
<1>2. chip[R].mode = "idle" /\ ~receivedAck[R] /\ ~Sending(chip[R])
  BY <1>1, LoopFacts DEF NodeInv, OneThing, Unread, Sending
<1>3. PICK c : c = Control(chip[R], {"rxenable"})
  OBVIOUS
<1>4. c \in Chips /\ c.mode = "rx" /\ c.status = chip[R].status
  BY <1>2, <1>3, LoopFacts, Controls
<1>5. /\ Wire(R, c) /\ sentAck' = [sentAck EXCEPT ![R] = FALSE]
      /\ UNCHANGED <<sysstatus, isr, txTime, rxFrame, data, txBuffer, round, timePollReceived,
                     receivedAck, main, expectedMsgId>>
  BY <1>3 DEF SentResponder, UNCHANGEDbyLoops, protocol
<1>6. ~sentAck'[R]
  BY <1>5, LoopFacts DEF TwoWayTypes
<1>7. expectedMsgId[R] = "RANGE" => timePollAckSent' = data[R]
  BY <1>1, LoopFacts DEF SentResponder, Acknowledges, Plain
<1> QED BY <1>1, <1>2, <1>4, <1>5, <1>6, <1>7, ListenStep

\* The responder answers a frame: what is left of the invariant is about its answer.
LEMMA AnswerStep ==
  ASSUME TwoWayInv, Quiet(R), receivedAck[R], ~sentAck[R], main[R] = "loop",
         NEW f, Transmit(R, f, {}),
         UNCHANGED <<sysstatus, isr, txTime, rxFrame, round, sentAck, main>>,
         receivedAck' = [receivedAck EXCEPT ![R] = FALSE],
         NEW id, expectedMsgId' = [expectedMsgId EXCEPT ![R] = id]
  PROVE /\ TwoWayTypes' /\ (\A n \in Nodes : NodeInv(n)') /\ InTurn'
        /\ ~Busy(I)' /\ ~Unread(R)' /\ ~SentDue(R)' /\ Sending(chip'[R])
        /\ txBuffer'[R] = f /\ data'[R] = f /\ expectedMsgId'[R] = id
<1>1. Unread(R) /\ chip[R].status = {}
  BY LoopFacts DEF Unread, NodeInv, Copied
<1>2. ~Busy(I) /\ main[I] \notin {"setup", "reset"}
  BY <1>1, LoopFacts DEF InTurn, Busy
<1>3. PICK c : c = Control(chip[R], {"txstart"})
  OBVIOUS
<1>4. c \in Chips /\ c.mode = "tx" /\ c.status = chip[R].status
  BY <1>3, LoopFacts, Controls
<1>5. Wire(R, c) /\ data' = [data EXCEPT ![R] = f] /\ txBuffer' = [txBuffer EXCEPT ![R] = f]
  <2>1. {"txstart"} \cup {} = {"txstart"}
    OBVIOUS
  <2> QED BY <1>3, <2>1 DEF Transmit
<1>6. TwoWayTypes' /\ LoopKeeps(R) /\ chip'[R] = c
  BY <1>4, <1>5, LoopFacts, LoopTypes
<1>7. txBuffer'[R] = f /\ data'[R] = f /\ expectedMsgId'[R] = id /\ ~receivedAck'[R] /\ ~sentAck'[R]
  BY <1>5, LoopFacts DEF TwoWayTypes
<1>8. /\ NodeInv(I)' /\ (Unread(I)' <=> Unread(I)) /\ (SentDue(I)' <=> SentDue(I))
      /\ (Sending(chip'[I]) <=> Sending(chip[I])) /\ main'[I] = main[I]
  BY <1>6, LoopFacts, InitiatorKept
<1>9. chip'[R].status = {} /\ Sending(chip'[R])
  BY <1>1, <1>4, <1>6 DEF Sending
<1>10. NodeInv(R)' /\ ~Unread(R)' /\ ~SentDue(R)'
  BY <1>1, <1>6, <1>7, <1>9, LoopFacts, LoopNode DEF LoopKeeps
<1>11. ~Busy(I)'
  BY <1>2, <1>8 DEF Busy
<1>12. InTurn'
  BY <1>2, <1>8, <1>9, <1>11, LoopFacts DEF InTurn
<1> QED BY <1>6, <1>7, <1>8, <1>9, <1>10, <1>11, <1>12, TwoNodes

LEMMA ReceivedResponderStep == ASSUME TwoWayInv, ReceivedResponder PROVE TwoWayInv'
<1>1. Quiet(R) /\ receivedAck[R] /\ ~sentAck[R] /\ main[R] = "loop"
  BY DEF ReceivedResponder, Reading, MayStep
<1>2. /\ UNCHANGED <<sysstatus, isr, txTime, rxFrame, round, sentAck, main, timePollAckSent>>
      /\ receivedAck' = [receivedAck EXCEPT ![R] = FALSE]
  BY DEF ReceivedResponder, UNCHANGEDbyLoops
<1>3. txTime[I] = rxFrame[R] /\ (rxFrame[R] = Plain("POLL", round) \/ Ranging(rxFrame[R]))
  BY <1>1, LoopFacts DEF Frames, Unread
<1>4. CASE ReceivePoll
  <2>1. rxFrame[R] = Plain("POLL", round) /\ rxFrame[R].round = round
    BY <1>3, <1>4 DEF ReceivePoll, Ranging, Range, Plain
  <2>2. /\ Transmit(R, Plain("POLL_ACK", round), {}) /\ timePollReceived' = Plain("POLL", round)
        /\ expectedMsgId' = [expectedMsgId EXCEPT ![R] = "RANGE"]
    BY <1>4, <2>1 DEF ReceivePoll, Expect
  <2>3. /\ TwoWayTypes' /\ (\A n \in Nodes : NodeInv(n)') /\ InTurn'
        /\ ~Busy(I)' /\ ~Unread(R)' /\ ~SentDue(R)' /\ Sending(chip'[R])
        /\ txBuffer'[R] = Plain("POLL_ACK", round) /\ data'[R] = Plain("POLL_ACK", round)
        /\ expectedMsgId'[R] = "RANGE"
    BY <1>1, <1>2, <2>2, AnswerStep
  <2>4. Answer(txBuffer[R])'
    BY <1>2, <1>3, <2>1, <2>2, <2>3 DEF Answer, Matches
  <2>5. Frames'
    BY <2>3, <2>4 DEF Frames, Busy
  <2>6. timePollReceived' = Plain("POLL", timePollReceived'.round)
        /\ data'[R] = Plain("POLL_ACK", timePollReceived'.round)
    BY <2>2, <2>3 DEF Plain
  <2>7. Acknowledges'
    BY <2>3, <2>6 DEF Acknowledges
  <2> QED BY <2>3, <2>5, <2>7 DEF TwoWayInv
<1>5. CASE ReceiveRange
  <2>1. PICK f : Transmit(R, f, {}) /\ f.id # "POLL_ACK"
    BY <1>5 DEF ReceiveRange, Plain
  <2>2. expectedMsgId' = [expectedMsgId EXCEPT ![R] = "POLL"]
    BY <1>5 DEF ReceiveRange, Expect
  <2>3. /\ TwoWayTypes' /\ (\A n \in Nodes : NodeInv(n)') /\ InTurn'
        /\ ~Busy(I)' /\ ~Unread(R)' /\ ~SentDue(R)' /\ Sending(chip'[R])
        /\ txBuffer'[R] = f /\ data'[R] = f /\ expectedMsgId'[R] = "POLL"
    BY <1>1, <1>2, <2>1, <2>2, AnswerStep
  <2>4. Frames'
    BY <2>1, <2>3 DEF Frames, Busy, Answer
  <2>5. Acknowledges'
    BY <2>3 DEF Acknowledges
  <2> QED BY <2>3, <2>4, <2>5 DEF TwoWayInv
<1> QED BY <1>4, <1>5 DEF ReceivedResponder

----
(* All of them *)

LEMMA UnchangedStep == ASSUME TwoWayInv, UNCHANGED vars PROVE TwoWayInv'
<1>1. /\ UNCHANGED <<chip, pending, sysstatus, isr, sentAck, receivedAck, main, data, frames, protocol, times, round>>
  BY DEF vars, driver
<1>2. \A n \in Nodes : SameNode(n)
  BY <1>1 DEF SameNode
<1>3. TwoWayTypes /\ (\A n \in Nodes : NodeInv(n)) /\ InTurn /\ Frames /\ Acknowledges
  BY DEF TwoWayInv
<1>4. TwoWayTypes'
  BY <1>1, <1>3 DEF TwoWayTypes, frames, protocol
<1>5. \A n \in Nodes : NodeInv(n)' /\ (Unread(n)' <=> Unread(n)) /\ (SentDue(n)' <=> SentDue(n))
  BY <1>2, <1>3, NodeKept
<1>6. Quieter
  BY <1>1, <1>5 DEF Quieter
<1> QED BY <1>3, <1>4, <1>5, <1>6, QuieterKeeps DEF TwoWayInv

LEMMA TwoWayStep == ASSUME TwoWayInv, ~EarlyReset, [Next]_vars PROVE TwoWayInv'
<1>1. CASE Setup
  BY <1>1, SetupInitiatorStep, SetupResponderStep DEF Setup
<1>2. CASE Initiator
  BY <1>2, PollAgainStep, SentInitiatorStep, ReceivedInitiatorStep DEF Initiator
<1>3. CASE Responder
  BY <1>3, SentResponderStep, ReceivedResponderStep DEF Responder
<1>4. CASE ResetInitiator \/ ResetResponder
  BY <1>4, ResetInitiatorStep, ResetResponderStep
<1>5. CASE Air
  BY <1>5, TransmittedStep, StampStep DEF Air
<1>6. CASE \E n \in Nodes : Interrupts(n)
  BY <1>6, InterruptsStep
<1>7. CASE UNCHANGED vars
  BY <1>7, UnchangedStep
<1> QED BY <1>1, <1>2, <1>3, <1>4, <1>5, <1>6, <1>7 DEF Next

LEMMA TwoWayAlways == ASSUME ~EarlyReset PROVE Spec => []TwoWayInv
<1>1. TwoWayInv /\ [Next]_vars => TwoWayInv'
  BY TwoWayStep
<1> QED BY <1>1, TwoWayInit, PTL DEF Spec

LEMMA TwoWaySameRound == ASSUME TwoWayInv PROVE SameRound
<1>1. SUFFICES ASSUME Reading, Computes
               PROVE /\ timePollReceived = Plain("POLL", rxFrame[R].round)
                     /\ timePollAckSent = Plain("POLL_ACK", rxFrame[R].round)
                     /\ rxFrame[R].pollSent = timePollReceived
                     /\ rxFrame[R].pollAckReceived = timePollAckSent
  BY DEF SameRound
<1>2. Unread(R) /\ Quiet(R) /\ rxFrame[R].id = "RANGE" /\ expectedMsgId[R] = "RANGE"
  BY <1>1 DEF Reading, MayStep, Computes, Unread
<1>3. Ranging(rxFrame[R])
  BY <1>2, LoopFacts DEF Frames, Plain
<1>4. /\ rxFrame[R].round = round /\ rxFrame[R].pollSent = Plain("POLL", round)
      /\ rxFrame[R].pollAckReceived = Plain("POLL_ACK", round) /\ timePollReceived = Plain("POLL", round)
  BY <1>2, <1>3 DEF Ranging, Matches, Range
<1>5. ~Sending(chip[R]) /\ ~SentDue(R)
  BY <1>2, LoopFacts DEF NodeInv, OneThing, Sending
<1>6. timePollAckSent = Plain("POLL_ACK", round)
  BY <1>2, <1>4, <1>5, LoopFacts DEF Acknowledges, Plain
<1> QED BY <1>4, <1>6

\* Where the watchdogs fire only when nothing is under way, a range is computed from
\* the time stamps of one round: range() of the responder never mixes the
\* POLL, the POLL_ACK and the RANGE of different rounds, however frames are lost or
\* spoilt and whenever the interrupt routines and the loops run.
THEOREM RangesOfOneRound == ASSUME ~EarlyReset PROVE Spec => []SameRound
BY TwoWayAlways, TwoWaySameRound, PTL
====
