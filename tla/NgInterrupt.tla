---- MODULE NgInterrupt ----
(* The interrupt service routine of DW1000Ng.cpp in each of some nodes: it   *)
(* runs on a rising edge of the line, reads the status register once, and    *)
(* for each group of events in that copy clears the group in the chip and    *)
(* calls the handler. The handlers of the sketches set a flag.               *)
EXTENDS Radio

CONSTANT Nodes

VARIABLES
  chip, pending, \* the radio, and an edge of its line not yet served
  sysstatus,     \* _sysstatus: the copy of the status register
  isr,           \* where the routine is
  sentAck, receivedAck,
  fresh          \* a good frame came and its handler was not called

driver == <<chip, pending, sysstatus, isr, sentAck, receivedAck, fresh>>

\* applyInterruptConfiguration: what each switch of it puts into SYS_MASK.
InterruptMask(config) == {e \in Events: config[e]}

DriverInit ==
  /\ chip = [n \in Nodes |-> Asleep] /\ pending = [n \in Nodes |-> FALSE]
  /\ sysstatus = [n \in Nodes |-> {}] /\ isr = [n \in Nodes |-> "off"]
  /\ sentAck = [n \in Nodes |-> FALSE] /\ receivedAck = [n \in Nodes |-> FALSE]
  /\ fresh = [n \in Nodes |-> FALSE]

Edge(n, c) == pending[n] \/ (~Raised(chip[n]) /\ Raised(c))

Wire(n, c) ==
  /\ chip' = [chip EXCEPT ![n] = c]
  /\ pending' = [pending EXCEPT ![n] = Edge(n, c)]

Goto(n, pc) == isr' = [isr EXCEPT ![n] = pc]

Interrupt(n) ==
  /\ pending[n] /\ isr[n] = "off" /\ Goto(n, "read")
  /\ pending' = [pending EXCEPT ![n] = FALSE]
  /\ UNCHANGED <<chip, sysstatus, sentAck, receivedAck, fresh>>

ReadStatus(n) ==
  /\ isr[n] = "read" /\ Goto(n, "sent")
  /\ sysstatus' = [sysstatus EXCEPT ![n] = chip[n].status]
  /\ UNCHANGED <<chip, pending, sentAck, receivedAck, fresh>>

\* A clear function adds its bits to the copy and writes all of the copy.
ClearStatus(n, c, bits) ==
  /\ Wire(n, Clear(c, sysstatus[n] \cup bits))
  /\ sysstatus' = [sysstatus EXCEPT ![n] = @ \cup bits]

HandleSent(n) ==
  /\ isr[n] = "sent" /\ Goto(n, "stamp")
  /\ IF "sent" \in sysstatus[n]
     THEN ClearStatus(n, chip[n], {"sent"}) /\ sentAck' = [sentAck EXCEPT ![n] = TRUE]
     ELSE UNCHANGED <<chip, pending, sysstatus, sentAck>>
  /\ UNCHANGED <<receivedAck, fresh>>

\* No handler for time stamps is attached, the event is cleared all the same.
HandleStamp(n) ==
  /\ isr[n] = "stamp" /\ Goto(n, "frame")
  /\ IF "stamp" \in sysstatus[n]
     THEN ClearStatus(n, chip[n], {"stamp"})
     ELSE UNCHANGED <<chip, pending, sysstatus>>
  /\ UNCHANGED <<sentAck, receivedAck, fresh>>

IsReceiveFailed(n) == "bad" \in sysstatus[n]
IsReceiveDone(n) == "good" \in sysstatus[n]

\* A failed frame ends reception, whatever RXAUTR says; its handler is not attached.
HandleFailed(n) ==
  /\ ClearStatus(n, Control(chip[n], {"off"}), {"bad"})
  /\ UNCHANGED <<receivedAck, fresh>>

HandleReceived(n) ==
  /\ ClearStatus(n, chip[n], {"good", "stamp"})
  /\ receivedAck' = [receivedAck EXCEPT ![n] = TRUE]
  /\ fresh' = [fresh EXCEPT ![n] = FALSE]

HandleFrame(n) ==
  /\ isr[n] = "frame" /\ Goto(n, "off")
  /\ IF IsReceiveFailed(n) THEN HandleFailed(n)
     ELSE IF IsReceiveDone(n) THEN HandleReceived(n)
     ELSE UNCHANGED <<chip, pending, sysstatus, receivedAck, fresh>>
  /\ UNCHANGED sentAck

Routine(n) ==
  Interrupt(n) \/ ReadStatus(n) \/ HandleSent(n) \/ HandleStamp(n) \/ HandleFrame(n)

\* A frame takes longer than the routine, and main waits for it.
Quiet(n) == ~pending[n] /\ isr[n] = "off"

\* While the line is up an edge is due or the routine runs.
LineSeen == \A n \in Nodes: Raised(chip[n]) => pending[n] \/ isr[n] # "off"

====
