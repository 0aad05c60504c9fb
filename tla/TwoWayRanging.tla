---- MODULE TwoWayRanging ----
(* The sketches TwoWayRangingInitiator and TwoWayRangingResponder over       *)
(* DW1000Ng: two loops that answer the flags of their interrupt handlers,    *)
(* a watchdog in each, and a medium that loses and spoils frames. A time     *)
(* stamp is the frame whose time it is; polls are numbered to tell rounds.   *)
EXTENDS Naturals, NgInterrupt

CONSTANTS
  Rounds,        \* polls are numbered modulo this
  StampApart,    \* the time of arrival may be known before the frame is in
  EarlyReset     \* a watchdog may fire while frames are under way

I == "initiator"
R == "responder"
Other(n) == IF n = I THEN R ELSE I

\* DEFAULT_INTERRUPT_CONFIG of both sketches.
SketchMask == InterruptMask([sent |-> TRUE, good |-> TRUE, bad |-> TRUE, stamp |-> TRUE])

ASSUME SketchAssumption == Nodes = {I, R} /\ Masked = SketchMask /\ Rounds \in Nat \ {0}

VARIABLES
  main,          \* where a loop is: "loop", or inside resetInactive
  data,          \* data[]: the frame last read or written by each sketch
  txBuffer,      \* the frame written to the chip
  txTime,        \* getTransmitTimestamp: the frame that left last
  rxFrame,       \* getReceivedData, getReceiveTimestamp: the frame that came last
  expectedMsgId, protocolFailed,
  timePollSent, timePollAckReceived,     \* of the initiator
  timePollReceived, timePollAckSent,     \* of the responder
  round                                  \* the number of the last poll

times == <<timePollSent, timePollAckReceived, timePollReceived, timePollAckSent>>
frames == <<txBuffer, txTime, rxFrame>>
protocol == <<expectedMsgId, protocolFailed>>
vars == <<driver, main, data, frames, protocol, times, round>>

\* RANGE carries the two time stamps of the initiator.
Plain(id, r) == [id |-> id, round |-> r]
Range(sent, received, r) == [id |-> "RANGE", round |-> r, pollSent |-> sent, pollAckReceived |-> received]
Never == Plain("none", 0)

\* setup of both: the first POLL is on its way and the responder listens.
Init ==
  /\ DriverInit
  /\ main = [n \in Nodes |-> "setup"]
  /\ data = [n \in Nodes |-> Never]
  /\ txBuffer = [n \in Nodes |-> Never] /\ txTime = [n \in Nodes |-> Never]
  /\ rxFrame = [n \in Nodes |-> Never]
  /\ expectedMsgId = [n \in Nodes |-> IF n = I THEN "POLL_ACK" ELSE "POLL"]
  /\ protocolFailed = FALSE
  /\ timePollSent = Never /\ timePollAckReceived = Never
  /\ timePollReceived = Never /\ timePollAckSent = Never
  /\ round = 0

----
(* The medium *)

Aether == UNCHANGED <<sysstatus, isr, sentAck, receivedAck, main, data, txBuffer, protocol, times, round>>

\* The other radio gets the frame, gets it spoilt, or does not notice it.
Heard(c) == {c} \cup IF ~Listening(c) THEN {}
                     ELSE {FrameIn(IF c.mode = "rx" THEN Stamped(c) ELSE c), FrameSpoilt(c)}

Transmitted(n) ==
  LET m == Other(n) IN
  /\ chip[n].mode = "tx" /\ Quiet(n) /\ (Quiet(m) \/ chip[m].mode = "ending")
  /\ txTime' = [txTime EXCEPT ![n] = txBuffer[n]]
  /\ \E c \in Heard(chip[m]):
       LET got == "good" \in c.status \ chip[m].status IN
       /\ chip' = [chip EXCEPT ![n] = FrameOut(@), ![m] = c]
       /\ pending' = [pending EXCEPT ![n] = Edge(n, FrameOut(chip[n])), ![m] = Edge(m, c)]
       /\ fresh' = [fresh EXCEPT ![m] = @ \/ got]
       /\ rxFrame' = [rxFrame EXCEPT ![m] = IF got THEN txBuffer[n] ELSE @]
  /\ Aether

Stamp(n) ==
  /\ StampApart /\ chip[Other(n)].mode = "tx" /\ chip[n].mode = "rx" /\ Quiet(n)
  /\ Wire(n, Stamped(chip[n]))
  /\ UNCHANGED <<fresh, txTime, rxFrame>> /\ Aether

DelayOver(n) ==
  /\ chip[n].mode = "delayed" /\ Wire(n, TimeCome(chip[n]))
  /\ UNCHANGED <<fresh, txTime, rxFrame>> /\ Aether

----
(* What both loops do *)

MayStep(n) == Quiet(n) /\ main[n] = "loop"
Flags(n) == sentAck[n] \/ receivedAck[n]

Transmit(n, f, bits) ==
  /\ data' = [data EXCEPT ![n] = f] /\ txBuffer' = [txBuffer EXCEPT ![n] = f]
  /\ Wire(n, Control(chip[n], {"txstart"} \cup bits))

Expect(n, id) == expectedMsgId' = [expectedMsgId EXCEPT ![n] = id]

\* The radios do nothing and no loop has anything to do: only time goes by.
Still == \A n \in Nodes: Quiet(n) /\ main[n] = "loop" /\ ~Flags(n) /\ ~Sending(chip[n])
Inactive(n) == MayStep(n) /\ ~Flags(n) /\ (EarlyReset \/ Still)

UNCHANGEDbyLoops == UNCHANGED <<sysstatus, isr, fresh, txTime, rxFrame>>

----
(* The initiator *)

TransmitPoll ==
  /\ round' = (round + 1) % Rounds
  /\ Transmit(I, Plain("POLL", round'), {})

SetupInitiator ==
  /\ main[I] = "setup" /\ main' = [main EXCEPT ![I] = "loop"] /\ TransmitPoll
  /\ UNCHANGED <<protocol, times, sentAck, receivedAck>> /\ UNCHANGEDbyLoops

\* resetInactive up to forceTRxOff ...
ResetInitiator ==
  /\ Inactive(I)
  /\ main' = [main EXCEPT ![I] = "reset"]
  /\ Expect(I, "POLL_ACK") /\ Wire(I, Control(chip[I], {"off"}))
  /\ UNCHANGED <<protocolFailed, times, round, data, txBuffer, sentAck, receivedAck>> /\ UNCHANGEDbyLoops

\* ... and its transmitPoll.
PollAgain ==
  /\ main[I] = "reset" /\ Quiet(I)
  /\ main' = [main EXCEPT ![I] = "loop"] /\ TransmitPoll
  /\ UNCHANGED <<protocol, times, sentAck, receivedAck>> /\ UNCHANGEDbyLoops

\* Mutant of SentInitiator: the receiver is left off.
SentInitiatorDeaf ==
  /\ MayStep(I) /\ sentAck[I]
  /\ sentAck' = [sentAck EXCEPT ![I] = FALSE] /\ UNCHANGED <<chip, pending>>
  /\ UNCHANGED <<main, data, txBuffer, protocol, times, round, receivedAck>> /\ UNCHANGEDbyLoops

SentInitiator ==
  /\ MayStep(I) /\ sentAck[I]
  /\ sentAck' = [sentAck EXCEPT ![I] = FALSE] /\ Wire(I, Control(chip[I], {"rxenable"}))
  /\ UNCHANGED <<main, data, txBuffer, protocol, times, round, receivedAck>> /\ UNCHANGEDbyLoops

\* A frame that is not expected starts over; so do RANGE_REPORT, the end of a
\* round, and RANGE_FAILED, which is never expected.
ReceivedInitiator ==
  /\ MayStep(I) /\ ~sentAck[I] /\ receivedAck[I]
  /\ receivedAck' = [receivedAck EXCEPT ![I] = FALSE]
  /\ IF rxFrame[I].id = "POLL_ACK" /\ expectedMsgId[I] = "POLL_ACK"
     THEN /\ timePollSent' = txTime[I] /\ timePollAckReceived' = rxFrame[I]
          /\ Expect(I, "RANGE_REPORT")
          /\ Transmit(I, Range(txTime[I], rxFrame[I], round), {"txdelay"})
          /\ UNCHANGED round
     ELSE /\ Expect(I, "POLL_ACK") /\ TransmitPoll
          /\ UNCHANGED <<timePollSent, timePollAckReceived>>
  /\ UNCHANGED <<main, protocolFailed, timePollReceived, timePollAckSent, sentAck>> /\ UNCHANGEDbyLoops

----
(* The responder *)

\* receiver() of setup.
SetupResponder ==
  /\ main[R] = "setup" /\ main' = [main EXCEPT ![R] = "loop"]
  /\ Wire(R, Control(chip[R], {"rxenable"}))
  /\ UNCHANGED <<data, txBuffer, protocol, times, round, sentAck, receivedAck>> /\ UNCHANGEDbyLoops

\* Mutant of ResetResponder: no call of receiver().
ResetResponderDeaf ==
  /\ Inactive(R)
  /\ Expect(R, "POLL") /\ UNCHANGED <<chip, pending>>
  /\ UNCHANGED <<main, data, txBuffer, protocolFailed, times, round, sentAck, receivedAck>> /\ UNCHANGEDbyLoops

ResetResponder ==
  /\ Inactive(R)
  /\ Expect(R, "POLL") /\ Wire(R, Control(Control(chip[R], {"off"}), {"rxenable"}))
  /\ UNCHANGED <<main, data, txBuffer, protocolFailed, times, round, sentAck, receivedAck>> /\ UNCHANGEDbyLoops

SentResponder ==
  /\ MayStep(R) /\ sentAck[R]
  /\ sentAck' = [sentAck EXCEPT ![R] = FALSE] /\ Wire(R, Control(chip[R], {"rxenable"}))
  /\ timePollAckSent' = IF data[R].id = "POLL_ACK" THEN txTime[R] ELSE timePollAckSent
  /\ UNCHANGED <<main, data, txBuffer, protocol, round, receivedAck,
                 timePollSent, timePollAckReceived, timePollReceived>> /\ UNCHANGEDbyLoops

Reading == MayStep(R) /\ ~sentAck[R] /\ receivedAck[R]

\* Mutant of ReceivePoll: only an expected POLL is timed.
ReceivePollExpected ==
  /\ rxFrame[R].id = "POLL"
  /\ protocolFailed' = FALSE
  /\ timePollReceived' = IF expectedMsgId[R] = "POLL" THEN rxFrame[R] ELSE timePollReceived
  /\ Expect(R, "RANGE") /\ Transmit(R, Plain("POLL_ACK", rxFrame[R].round), {})

ReceivePoll ==
  /\ rxFrame[R].id = "POLL"
  /\ protocolFailed' = FALSE /\ timePollReceived' = rxFrame[R]
  /\ Expect(R, "RANGE") /\ Transmit(R, Plain("POLL_ACK", rxFrame[R].round), {})

\* What computeRangeAsymmetric is called for.
Computes == rxFrame[R].id = "RANGE" /\ expectedMsgId[R] = "RANGE" /\ ~protocolFailed

\* A RANGE out of turn sets protocolFailed.
ReceiveRange ==
  /\ rxFrame[R].id = "RANGE"
  /\ Expect(R, "POLL") /\ protocolFailed' = (protocolFailed \/ expectedMsgId[R] # "RANGE")
  /\ Transmit(R, Plain(IF Computes THEN "RANGE_REPORT" ELSE "RANGE_FAILED", rxFrame[R].round), {})
  /\ UNCHANGED timePollReceived

ReceivedResponder ==
  /\ Reading /\ receivedAck' = [receivedAck EXCEPT ![R] = FALSE]
  /\ ReceivePoll \/ ReceiveRange
  /\ UNCHANGED <<main, timePollSent, timePollAckReceived, timePollAckSent, round, sentAck>> /\ UNCHANGEDbyLoops

----
Interrupts(n) == Routine(n) /\ UNCHANGED <<main, data, frames, protocol, times, round>>
Setup == SetupInitiator \/ SetupResponder
Initiator == PollAgain \/ SentInitiator \/ ReceivedInitiator
Responder == SentResponder \/ ReceivedResponder
Air == \E n \in Nodes: Transmitted(n) \/ Stamp(n) \/ DelayOver(n)

Next == Setup \/ Initiator \/ Responder \/ ResetInitiator \/ ResetResponder \/ Air
        \/ \E n \in Nodes: Interrupts(n)

Delivered(n, id) == Transmitted(n) /\ txBuffer[n].id = id /\ rxFrame'[Other(n)] = txBuffer[n] /\ fresh'[Other(n)]

\* The processors go on, the watchdogs fire again and again, and a transmission
\* that is started again and again is over again and again, each kind of
\* frame sometimes heard well; sometimes a receiver is on before the answer has passed.
Fairness ==
  /\ WF_vars(Setup) /\ WF_vars(Initiator) /\ WF_vars(Responder)
  /\ SF_vars(SentInitiator /\ chip[R].mode = "tx") /\ SF_vars(SentResponder /\ Sending(chip[I]))
  /\ SF_vars(ResetInitiator) /\ SF_vars(ResetResponder)
  /\ \A n \in {I, R}: /\ WF_vars(Interrupts(n))
                      /\ SF_vars(Transmitted(n)) /\ WF_vars(DelayOver(n))
  /\ SF_vars(Delivered(I, "POLL")) /\ SF_vars(Delivered(R, "POLL_ACK")) /\ SF_vars(Delivered(I, "RANGE"))

Spec == Init /\ [][Next]_vars /\ Fairness
====
