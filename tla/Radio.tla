---- MODULE Radio ----
(* The radio chip as both drivers see it through SPI and the interrupt line: *)
(* what a write to its control and status registers does, and what happens   *)
(* in it between two of them. A frame ends "good" (RXDFR, RXFCG) or "bad"    *)
(* (RXPHE, RXFCE, RXRFSL, LDEERR); "stamp" (LDEDONE) says that its time of   *)
(* arrival is known; "sent" (TXFRS) that a transmission is over.             *)

CONSTANTS
  Masked,        \* the events that raise the interrupt line
  AutoReenable   \* RXAUTR: a bad frame does not end reception

Events == {"sent", "stamp", "good", "bad"}
ControlBits == {"off", "txstart", "txdelay", "rxenable", "rxdelay"}

\* "ending": a frame is coming in and its time stamp is known already.
\* "delayed": a transmission waits for its time; then: reception follows it.
Chip == [mode: {"idle", "rx", "ending", "tx", "delayed"}, then: BOOLEAN, status: SUBSET Events]

Asleep == [mode |-> "idle", then |-> FALSE, status |-> {}]

Raised(c) == c.status \cap Masked # {}
Listening(c) == c.mode \in {"rx", "ending"}
Sending(c) == c.mode \in {"tx", "delayed"}

\* A write to SYS_CTRL.
Control(c, bits) ==
  IF "off" \in bits THEN [c EXCEPT !.mode = "idle", !.then = FALSE]
  ELSE IF "txstart" \in bits
  THEN [c EXCEPT !.mode = IF "txdelay" \in bits THEN "delayed" ELSE "tx", !.then = FALSE]
  ELSE IF "rxenable" \notin bits \/ Listening(c) THEN c
  ELSE IF Sending(c) THEN [c EXCEPT !.then = TRUE]
  ELSE [c EXCEPT !.mode = "rx"]

\* A write to SYS_STATUS resets the bits that are written as 1.
Clear(c, bits) == [c EXCEPT !.status = @ \ bits]

\* What the chip does by itself.
TimeCome(c) == [c EXCEPT !.mode = "tx"]
FrameOut(c) == [mode |-> IF c.then THEN "rx" ELSE "idle", then |-> FALSE,
                status |-> c.status \cup {"sent"}]
Stamped(c) == [c EXCEPT !.mode = "ending", !.status = @ \cup {"stamp"}]
FrameIn(c) == [c EXCEPT !.mode = "idle", !.status = @ \cup {"good"}]
FrameSpoilt(c) == [c EXCEPT !.mode = IF AutoReenable THEN "rx" ELSE "idle",
                            !.status = @ \cup {"bad"}]
====
