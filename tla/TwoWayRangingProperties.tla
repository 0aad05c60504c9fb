---- MODULE TwoWayRangingProperties ----
EXTENDS TwoWayRanging

\* A range is computed from time stamps of one round: the POLL and the
\* POLL_ACK that the initiator timed are those that the responder timed.
SameRound ==
  Reading /\ Computes =>
    /\ timePollReceived = Plain("POLL", rxFrame[R].round)
    /\ timePollAckSent = Plain("POLL_ACK", rxFrame[R].round)
    /\ rxFrame[R].pollSent = timePollReceived
    /\ rxFrame[R].pollAckReceived = timePollAckSent

\* resetInactive: "tag sends POLL and listens for POLL_ACK". After each reset
\* of the watchdog the receiver is on at some later time, as long as no interrupt is
\* lost (TwoWayRangingInitiator.ino:124). A frame that ends while the routine
\* handles a time stamp loses it.
ListensAfterPoll == []LineSeen => (main[I] = "reset" ~> Listening(chip[I]))

\* While frames get through now and then and no interrupt is lost, ranges are
\* computed again and again (TwoWayRangingResponder.ino:256).
RangesAgain == []LineSeen => []<>(Reading /\ Computes)
====
