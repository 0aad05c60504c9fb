---- MODULE RTLS ----
(* DW1000NgRTLS and the sketches on it: tags that blink and range with one   *)
(* anchor after another as each tells them to, and a primary anchor that     *)
(* collects the reports of the others. Every node polls its radio and waits  *)
(* in one place. A time stamp stands for the blink it belongs to.            *)
EXTENDS Naturals, FiniteSets

CONSTANTS
  Tags,
  N,             \* anchors 1 (primary) .. N (the last one)
  Rounds,        \* the blinks of a tag are numbered modulo this
  BlinkRate,     \* value of the last anchor's anchorRangeAccept
  Lost,          \* the kinds of frames that a receiver may miss
  Prompt,        \* loops are faster than frames: see Meanwhile and Report
  Early,         \* a receiver may time out before the frame it waits for
  Alone          \* a tag wakes only when all the others are at rest

\* A tag has its EUI as an address, and a range that was never written is none.
ASSUME RTLSAssumption ==
  /\ N \in Nat /\ N >= 2 /\ Rounds \in Nat \ {0} /\ BlinkRate \in 0..65535
  /\ Tags \cap 1..(N + 1) = {} /\ "uninitialised" \notin Tags

Anchors == 1..N
Nodes == Tags \cup Anchors
TagAddress == N + 1        \* tag_shortAddress, which the primary gives to every tag

VARIABLES
  pc, radio,         \* where a node is; "off", "tx", "sent", "rx" or "good"
  inbox, out,        \* the frame it is busy with, and the one it sends
  addressed,         \* tags that were given TagAddress
  round, blinkRate,  \* of each tag
  pollReceived,      \* timePollReceived, local to anchorRangeAccept
  range,             \* range_self of each anchor
  received,          \* received_B, received_C
  collected, display,\* range_B.. of the primary, and what it shows
  missed             \* history: the last report of anchor 2 did not reach the primary

wait == <<pc, radio, inbox>>
results == <<range, received, collected, display>>
vars == <<wait, out, addressed, round, blinkRate, pollReceived, results, missed>>

\* A range is known by the blinks whose time stamps it was computed from.
Id(t, r) == [tag |-> t, round |-> r]
Now(t) == Id(t, round[t])
NoRange == {}
Unknown == {Id("uninitialised", 0)}
UnknownRate == 65536

Kinds == {"BLINK", "INITIATION", "POLL", "CONTINUE", "FINAL", "CONFIRM", "FINISHED", "REPORT"}
Nothing == [kind |-> "none"]

\* The frames. A time stamp in one is that of the poll it belongs to.
ShortBlink(t) == [kind |-> "BLINK", tag |-> t]
RangingInitiation(t) == [kind |-> "INITIATION", to |-> t, from |-> 1]
Poll(t, a) == [kind |-> "POLL", to |-> a, sent |-> Now(t)]
ResponseToPoll(a, poll) == [kind |-> "CONTINUE", to |-> TagAddress, from |-> a, sent |-> poll]
\* Mutant of FinalMessage: the time of the POLL is not read again.
FinalMessageOld(t, a, response) ==
  [kind |-> "FINAL", to |-> a, pollSent |-> Id(t, 0), answered |-> response]

FinalMessage(t, a, response) == [kind |-> "FINAL", to |-> a, pollSent |-> Now(t), answered |-> response]

RangingConfirm(a) == [kind |-> "CONFIRM", to |-> TagAddress, next |-> a + 1]
ActivityFinished == [kind |-> "FINISHED", to |-> TagAddress, value |-> BlinkRate]
RangeReport(a) == [kind |-> "REPORT", to |-> 1, from |-> a, range |-> range[a]]

\* What setup leaves behind, and where each sketch comes back to.
TagSetup == [pc |-> "asleep", radio |-> "off"]
PrimarySetup == [pc |-> "loop", radio |-> "rx"]
SecondarySetup == [pc |-> "accept", radio |-> "rx"]
Setup(n) == IF n \in Tags THEN TagSetup ELSE IF n = 1 THEN PrimarySetup ELSE SecondarySetup
Root(a) == Setup(a).pc

Init ==
  /\ pc = [n \in Nodes |-> Setup(n).pc] /\ radio = [n \in Nodes |-> Setup(n).radio]
  /\ inbox = [n \in Nodes |-> Nothing] /\ out = [n \in Nodes |-> Nothing]
  /\ addressed = {}
  /\ round = [t \in Tags |-> 0] /\ blinkRate = [t \in Tags |-> 200]
  /\ pollReceived = [a \in Anchors |-> NoRange]
  /\ range = [a \in Anchors |-> NoRange]
  /\ received = {}
  /\ collected = [a \in Anchors \ {1} |-> NoRange]
  /\ display = [a \in Anchors |-> NoRange]
  /\ missed = FALSE

----
(* The air, and waiting for it *)

\* Frame filters: blinks reach the primary only, data frames their address.
Accepts(n, f) ==
  IF f.kind = "BLINK" THEN n = 1
  ELSE f.to = n \/ (n \in addressed /\ f.to = TagAddress)

\* When loops are fast, nobody is still busy with a frame as the next one ends.
Meanwhile(n) == Prompt => \A m \in Nodes \ {n}: radio[m] \notin {"good", "sent"}

\* waitForTransmission; all but the confirming anchor call receiveFrame next.
Sent(n) ==
  /\ radio[n] = "tx" /\ Meanwhile(n)
  /\ LET hearers == {m \in Nodes: radio[m] = "rx" /\ Accepts(m, out[n])} IN
     \E S \in IF out[n].kind \in Lost THEN SUBSET hearers ELSE {hearers}:
       /\ inbox' = [m \in Nodes |-> IF m \in S THEN out[n] ELSE inbox[m]]
       /\ radio' = [m \in Nodes |-> IF m \in S THEN "good"
                                    ELSE IF m # n THEN radio[m]
                                    ELSE IF pc[n] = "confirming" THEN "sent" ELSE "rx"]
       /\ missed' = IF n = 2 /\ out[n].kind = "REPORT" THEN 1 \notin S ELSE missed
  /\ out' = [out EXCEPT ![n] = Nothing]
  /\ UNCHANGED <<pc, addressed, round, blinkRate, pollReceived, results>>

Still == \A n \in Nodes: radio[n] \in {"off", "rx"} /\ pc[n] # "reporting"
TimesOut(n) == radio[n] = "rx" /\ (Early \/ Still)
Got(n, at) == pc[n] = at /\ radio[n] = "good"

\* A frame that was read is forgotten, except FINAL until its range is computed.
Goto(n, at, r) ==
  /\ pc' = [pc EXCEPT ![n] = at] /\ radio' = [radio EXCEPT ![n] = r]
  /\ inbox' = [inbox EXCEPT ![n] = IF at = "confirming" THEN @ ELSE Nothing]
Transmit(n, f, at) == Goto(n, at, "tx") /\ out' = [out EXCEPT ![n] = f]
Receive(n, at) == Goto(n, at, "rx") /\ UNCHANGED out

----
(* The tag *)

Rest(a) == pc[a] = Root(a) /\ radio[a] = "rx"

\* The loop: deepSleep, delay, spiWakeup, and the blink of tagTwrLocalize.
Blink(t) ==
  /\ pc[t] = "asleep"
  /\ Alone => (\A a \in Anchors: Rest(a)) /\ (\A u \in Tags: pc[u] = "asleep")
  /\ round' = [round EXCEPT ![t] = (@ + 1) % Rounds]
  /\ Transmit(t, ShortBlink(t), "request")
  /\ UNCHANGED <<addressed, blinkRate, pollReceived, results, missed>>

UNCHANGEDbyTag == UNCHANGED <<addressed, round, pollReceived, results, missed>>

Sleep(t) == Goto(t, "asleep", "off") /\ UNCHANGED out
TransmitPoll(t, a) == Transmit(t, Poll(t, a), "polled")

\* tagRangeRequest
Requested(t) ==
  /\ Got(t, "request")
  /\ IF inbox[t].kind = "INITIATION"
     THEN addressed' = addressed \cup {t} /\ TransmitPoll(t, inbox[t].from)
     ELSE Sleep(t) /\ UNCHANGED addressed
  /\ UNCHANGED <<round, blinkRate, pollReceived, results, missed>>

\* tagFinishRange up to FINAL
PollAnswered(t) ==
  /\ Got(t, "polled")
  /\ IF inbox[t].kind = "CONTINUE"
     THEN Transmit(t, FinalMessage(t, inbox[t].from, inbox[t].sent), "final")
     ELSE Sleep(t)
  /\ UNCHANGED blinkRate /\ UNCHANGEDbyTag

\* calculateNewBlinkRate, cut to 16 bits by tagRangeInfrastructure.
NewBlinkRate(value) ==
  LET multiplier == value \div 16384
      unit == CASE multiplier = 1 -> 25 [] multiplier = 2 -> 1000 [] OTHER -> 1 IN
  ((value % 16384) * unit) % 65536

\* returnValue was never written: any result, a next anchor among them.
UninitialisedRange(t) ==
  \/ Sleep(t) /\ UNCHANGED blinkRate
  \/ Sleep(t) /\ blinkRate' = [blinkRate EXCEPT ![t] = UnknownRate]
  \/ \E a \in Anchors: TransmitPoll(t, a) /\ UNCHANGED blinkRate

\* The same for tagRangeInfrastructure, which succeeded without a blink rate.
UninitialisedRate(t) ==
  Sleep(t) /\ \E r \in {blinkRate[t], UnknownRate}: blinkRate' = [blinkRate EXCEPT ![t] = r]

\* The rest of tagFinishRange, and the loop of tagRangeInfrastructure.
Finished(t) ==
  /\ Got(t, "final")
  /\ CASE inbox[t].kind = "CONFIRM" -> TransmitPoll(t, inbox[t].next) /\ UNCHANGED blinkRate
       [] inbox[t].kind = "FINISHED" /\ NewBlinkRate(inbox[t].value) # 0 ->
            Sleep(t) /\ blinkRate' = [blinkRate EXCEPT ![t] = NewBlinkRate(inbox[t].value)]
       [] inbox[t].kind = "FINISHED" /\ NewBlinkRate(inbox[t].value) = 0 -> UninitialisedRate(t)
       [] inbox[t].kind = "CONTINUE" -> UninitialisedRange(t)
       [] OTHER -> Sleep(t) /\ UNCHANGED blinkRate
  /\ UNCHANGEDbyTag

\* Mutant of TagTimeout: the tag polls the last address again.
TagTimeoutRetry(t) ==
  /\ TimesOut(t)
  /\ IF pc[t] = "request" THEN Sleep(t) ELSE TransmitPoll(t, 1)
  /\ UNCHANGED blinkRate /\ UNCHANGEDbyTag

\* waitForNextRangingStep fails; every caller gives up and tagTwrLocalize ends.
TagTimeout(t) == TimesOut(t) /\ Sleep(t) /\ UNCHANGED blinkRate /\ UNCHANGEDbyTag

----
(* anchorRangeAccept *)

UNCHANGEDbyAnchor == UNCHANGED <<addressed, round, blinkRate, missed>>

\* The sketch takes the result of anchorRangeAccept: the primary keeps it, the
\* others wait for their transmit_delay before they report it.
Accepted(a, r) ==
  /\ range' = [range EXCEPT ![a] = r] /\ pollReceived' = [pollReceived EXCEPT ![a] = NoRange]
  /\ IF a = 1 THEN Receive(a, "loop") ELSE Goto(a, "reporting", "off") /\ UNCHANGED out

Refused(a) ==
  /\ Receive(a, Root(a)) /\ UNCHANGED range
  /\ pollReceived' = [pollReceived EXCEPT ![a] = NoRange]

\* returnValue is not written when a frame is not the one that is expected.
UninitialisedAccept(a) == Refused(a) \/ Accepted(a, Unknown)

GotPoll(a) ==
  /\ Got(a, "accept")
  /\ IF inbox[a].kind = "POLL"
     THEN /\ pollReceived' = [pollReceived EXCEPT ![a] = {inbox[a].sent}]
          /\ Transmit(a, ResponseToPoll(a, inbox[a].sent), "answered")
          /\ UNCHANGED range
     ELSE UninitialisedAccept(a)
  /\ UNCHANGED <<received, collected, display>> /\ UNCHANGEDbyAnchor

\* Mutant of Activity: the last anchor but one ends the round.
ActivityEndsEarly(a) == IF a < N - 1 THEN RangingConfirm(a) ELSE ActivityFinished

\* The NextActivity that each sketch asks for.
Activity(a) == IF a < N THEN RangingConfirm(a) ELSE ActivityFinished

GotFinal(a) ==
  /\ Got(a, "answered")
  /\ IF inbox[a].kind = "FINAL" THEN Transmit(a, Activity(a), "confirming") /\ UNCHANGED <<range, pollReceived>>
     ELSE UninitialisedAccept(a)
  /\ UNCHANGED <<received, collected, display>> /\ UNCHANGEDbyAnchor

\* computeRangeAsymmetric and correctRange, once the tag has been told to go on.
Ranged(a) ==
  /\ pc[a] = "confirming" /\ radio[a] = "sent"
  /\ Accepted(a, pollReceived[a] \cup {inbox[a].pollSent, inbox[a].answered})
  /\ UNCHANGED <<received, collected, display>> /\ UNCHANGEDbyAnchor

\* At the root of its loop a timeout only starts reception again.
AnchorTimeout(a) ==
  /\ TimesOut(a) /\ pc[a] # Root(a) /\ Refused(a)
  /\ UNCHANGED <<received, collected, display>> /\ UNCHANGEDbyAnchor

----
(* The loops of the anchors *)

\* Delays grow with the anchor, so reports keep their order.
Report(a) ==
  /\ pc[a] = "reporting"
  /\ Prompt => \A b \in 2..(a - 1): pc[b] # "reporting" /\ radio[b] # "tx"
  /\ Transmit(a, RangeReport(a), "accept")
  /\ UNCHANGED <<pollReceived, results>> /\ UNCHANGEDbyAnchor

GotBlink ==
  /\ Got(1, "loop") /\ inbox[1].kind = "BLINK"
  /\ Transmit(1, RangingInitiation(inbox[1].tag), "accept")
  /\ UNCHANGED <<pollReceived, results>> /\ UNCHANGEDbyAnchor

\* A report counts when those of the anchors before it have been received.
InTurn(a) == IF a = 2 THEN 2 \notin received ELSE a - 1 \in received

\* Mutant of GotReport: a report out of turn does not start over.
GotReportNoReset ==
  /\ Got(1, "loop") /\ inbox[1].kind = "REPORT"
  /\ LET a == inbox[1].from IN
     IF ~InTurn(a) THEN UNCHANGED <<received, collected, display>>
     ELSE /\ collected' = [collected EXCEPT ![a] = inbox[1].range]
          /\ IF a = N
             THEN /\ received' = {}
                  /\ display' = [b \in Anchors |-> IF b = 1 THEN range[1] ELSE collected'[b]]
             ELSE received' = received \cup {a} /\ UNCHANGED display
  /\ Receive(1, "loop")
  /\ UNCHANGED <<pollReceived, range>> /\ UNCHANGEDbyAnchor

GotReport ==
  /\ Got(1, "loop") /\ inbox[1].kind = "REPORT"
  /\ LET a == inbox[1].from IN
     IF ~InTurn(a) THEN received' = {} /\ UNCHANGED <<collected, display>>
     ELSE /\ collected' = [collected EXCEPT ![a] = inbox[1].range]
          /\ IF a = N
             THEN /\ received' = {}
                  /\ display' = [b \in Anchors |-> IF b = 1 THEN range[1] ELSE collected'[b]]
             ELSE received' = received \cup {a} /\ UNCHANGED display
  /\ Receive(1, "loop")
  /\ UNCHANGED <<pollReceived, range>> /\ UNCHANGEDbyAnchor

\* A FINAL that comes after anchorRangeAccept gave up, or a late POLL.
GotOther ==
  /\ Got(1, "loop") /\ inbox[1].kind \notin {"BLINK", "REPORT"}
  /\ Receive(1, "loop")
  /\ UNCHANGED <<pollReceived, results>> /\ UNCHANGEDbyAnchor

----
TagStep(t) == Sent(t) \/ Requested(t) \/ PollAnswered(t) \/ Finished(t) \/ TagTimeout(t)
AnchorStep(a) == Sent(a) \/ GotPoll(a) \/ GotFinal(a) \/ Ranged(a) \/ AnchorTimeout(a) \/ Report(a)
PrimaryStep == GotBlink \/ GotReport \/ GotOther

Next ==
  \/ \E t \in Tags: Blink(t) \/ TagStep(t)
  \/ \E a \in Anchors: AnchorStep(a)
  \/ PrimaryStep

Spec == Init /\ [][Next]_vars

\* Every node is a program that goes on whenever it can. A transmission takes
\* its time and ends, however often Prompt holds it up in between.
FairSpec ==
  /\ Spec
  /\ \A n \in Nodes: SF_vars(Sent(n))
  /\ \A t \in Tags: WF_vars(Blink(t)) /\ WF_vars(TagStep(t))
  /\ (\A a \in Anchors: WF_vars(AnchorStep(a))) /\ WF_vars(PrimaryStep)
====
