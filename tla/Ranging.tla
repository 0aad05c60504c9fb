------------------------------- MODULE Ranging -------------------------------
(***************************************************************************)
(* Two-way ranging of DW1000Ranging.cpp: tags and anchors that run loop()  *)
(* over a DW1000 chip whose interrupt handler sets _sentAck and            *)
(* _receivedAck at any moment, and a radio that may lose frames.           *)
(*                                                                         *)
(* One pass of loop() is cut where an interrupt changes what it sees:      *)
(*   "top" -> ("inactive")* -> "sent" -> "received" -> "handle" -> "top"   *)
(* A timestamp is abstracted to the frame whose transmission or reception  *)
(* it dates: two timestamps belong to the same flight of a frame when they *)
(* are equal.  Time is counted in passes of the 40 ms timer.               *)
(***************************************************************************)
EXTENDS Integers, Sequences, FiniteSets, DeviceTable

CONSTANTS
  Tags, Anchors,     \* the two kinds of node, named by their address
  None,              \* no frame, no timestamp, no range
  Broadcast,         \* the short address FF:FF
  BlinkLimit,        \* blinkLimit at start
  LaterBlinkLimit,   \* blinkLimit after the first blink period
  InactiveAfter,     \* INACTIVITY_TIME in timer ticks
  MaxRound,          \* bound: rounds are told apart up to this number
  MaxFaults          \* bound: losses and power failures together

Node == Tags \cup Anchors

ASSUME NodesAssumption ==
  /\ Tags \cap Anchors = {}
  /\ IsFiniteSet(Tags) /\ IsFiniteSet(Anchors)
  /\ Broadcast \notin Node /\ None \notin Node

ASSUME BoundsAssumption ==
  /\ BlinkLimit \in Nat /\ LaterBlinkLimit \in Nat /\ InactiveAfter \in Nat
  /\ MaxRound \in Nat /\ MaxFaults \in Nat

VARIABLES
  \* the program
  pc,          \* where the node is in loop()
  scan,        \* the variable i of checkForInactiveDevices, as a position
  sentAck, receivedAck,  \* _sentAck and _receivedAck, set by the interrupt handler
  data,        \* the one buffer both directions share
  expected,    \* _expectedMsgId
  failed,      \* _protocolFailed
  lastSent,    \* _lastSentToShortAddress
  reply,       \* _replyDelayTimeUS in units of DEFAULT_REPLY_DELAY_TIME
  dev,         \* _networkDevices
  blinkCount, blinkLimit,  \* counterForBlink and blinkLimit
  \* the chip
  tx,          \* the frame waiting to be sent or on its way
  rx,          \* the receive buffer, with the time of arrival of its frame
  lastTx,      \* the transmit timestamp register
  \* the world
  round,       \* how many POLLs a tag has prepared
  down,        \* nodes without power
  faults,      \* frames lost and power failures so far
  ackLost      \* a POLL_ACK has not reached the tag it answers

loopVars == <<scan, data, expected, failed, lastSent, reply, dev>>
timerVars == <<blinkCount, blinkLimit, round>>
chipVars == <<tx, rx, lastTx>>
flagVars == <<sentAck, receivedAck>>
worldVars == <<down, faults, ackLost>>
vars == <<pc, loopVars, timerVars, chipVars, flagVars, worldVars>>
------------------------------------------------------------------------------
MessageType == {"POLL", "POLL_ACK", "RANGE", "RANGE_REPORT", "RANGE_FAILED",
                "BLINK", "RANGING_INIT"}
Control == {"top", "inactive", "sent", "received", "handle"}

\* The flight of a frame: who sent it, in which round of which tag.
Stamp == [type : MessageType, src : Node, tag : Node, round : 0..MaxRound]
MaybeStamp == Stamp \cup {None}

\* A distance: the tag it is of, and whether the three pairs of timestamps it
\* was computed from are pairs, each the two ends of one flight.
Distance == [tag : Node, matched : BOOLEAN]
MaybeDistance == Distance \cup {None}

\* What POLL and RANGE carry for each anchor.
Entry == [short : Node, timePollSent : MaybeStamp,
          timePollAckReceived : MaybeStamp, timeRangeSent : MaybeStamp]
Frame == [id : Stamp, due : Nat, list : Seq(Entry), range : MaybeDistance]
MaybeFrame == Frame \cup {None}

ASSUME NoneAssumption == None \notin Stamp /\ None \notin Frame

Age == 0..(InactiveAfter + 1)
Device == [short : Node, eui : Node, index : Nat, age : Age,
           range : MaybeDistance,
           timePollSent : MaybeStamp, timePollReceived : MaybeStamp,
           timePollAckSent : MaybeStamp, timePollAckReceived : MaybeStamp,
           timeRangeSent : MaybeStamp, timeRangeReceived : MaybeStamp]

\* A DW1000Device as its constructor leaves it.  _activity is not initialised,
\* so its age is any.
NewDevice(n, age) ==
  [short |-> n, eui |-> n, index |-> 0, age |-> age, range |-> None,
   timePollSent |-> None, timePollReceived |-> None,
   timePollAckSent |-> None, timePollAckReceived |-> None,
   timeRangeSent |-> None, timeRangeReceived |-> None]

\* noteActivity() of a device, and one more tick without it.
Noted(d) == [d EXCEPT !.age = 0]
Older(d) == [d EXCEPT !.age = IF @ > InactiveAfter THEN @ ELSE @ + 1]
isInactive(d) == d.age > InactiveAfter

NextRound(t) == IF round[t] < MaxRound THEN round[t] + 1 ELSE MaxRound

\* The table as POLL writes it: addresses only, the reply time of an anchor is
\* its place; and as RANGE writes it: with the tag's three timestamps.
PollList(table) ==
  [i \in 1..Len(table) |->
     [short |-> table[i].short, timePollSent |-> None,
      timePollAckReceived |-> None, timeRangeSent |-> None]]
RangeList(table) ==
  [i \in 1..Len(table) |->
     [short |-> table[i].short,
      timePollSent |-> table[i].timePollSent,
      timePollAckReceived |-> table[i].timePollAckReceived,
      timeRangeSent |-> table[i].timeRangeSent]]

\* The first place of a list that holds the node's own address.
Listed(list, n) == \E i \in 1..Len(list) : list[i].short = n
PlaceOf(list, n) == searchDistantDevice(list, n)

\* computeRangeAsymmetric works on three pairs of timestamps.
computeRangeAsymmetric(tag, d) ==
  [tag |-> tag,
   matched |-> /\ d.timePollSent # None /\ d.timePollSent = d.timePollReceived
               /\ d.timePollAckSent # None
               /\ d.timePollAckSent = d.timePollAckReceived
               /\ d.timeRangeSent # None
               /\ d.timeRangeSent = d.timeRangeReceived]

Type(f) == f.id.type
\* The address decodeShortMACFrame finds: a BLINK and a RANGING_INIT hold bytes
\* of a long address there, which name no device.
Source(f) == IF Type(f) \in {"BLINK", "RANGING_INIT"} THEN None ELSE f.id.src

Mk(type, src, tag, r, due, list, range) ==
  [id |-> [type |-> type, src |-> src, tag |-> tag, round |-> r],
   due |-> due, list |-> list, range |-> range]
------------------------------------------------------------------------------
Init ==
  /\ pc = [n \in Node |-> "top"]
  /\ scan = [n \in Node |-> 1]
  /\ sentAck = [n \in Node |-> FALSE]
  /\ receivedAck = [n \in Node |-> FALSE]
  /\ data = [n \in Node |-> None]
  /\ expected = [n \in Node |-> "POLL"]
  /\ failed = [n \in Node |-> FALSE]
  /\ lastSent = [n \in Node |-> None]
  /\ reply = [n \in Node |-> 1]
  /\ dev = [n \in Node |-> <<>>]
  /\ blinkCount = [t \in Tags |-> 0]
  /\ blinkLimit = [t \in Tags |-> BlinkLimit]
  /\ tx = [n \in Node |-> None]
  /\ rx = [n \in Node |-> None]
  /\ lastTx = [n \in Node |-> None]
  /\ round = [t \in Tags |-> 0]
  /\ down = {}
  /\ faults = 0
  /\ ackLost = FALSE

Goto(n, label) == pc' = [pc EXCEPT ![n] = label]
At(n, label) == n \notin down /\ pc[n] = label

\* newTransmit, the frame written into the shared buffer, setData and
\* startTransmit.  newTransmit turns the transceiver off first: a frame still
\* waiting is never sent.
transmit(n, frame) ==
  /\ data' = [data EXCEPT ![n] = frame]
  /\ tx' = [tx EXCEPT ![n] = frame]
  /\ UNCHANGED <<rx, lastTx>>
------------------------------------------------------------------------------
\* The head of loop(): checkForReset and timerTick.

\* Neither the reset nor the timer is due.
PassHead(n) ==
  /\ At(n, "top")
  /\ Goto(n, "sent")
  /\ UNCHANGED <<loopVars, timerVars, chipVars, flagVars, worldVars>>

\* resetInactive at an anchor: receiver() turns the transceiver off.
ResetInactive(a) ==
  /\ At(a, "top") /\ ~sentAck[a] /\ ~receivedAck[a]
  /\ expected' = [expected EXCEPT ![a] = "POLL"]
  /\ tx' = [tx EXCEPT ![a] = None]
  /\ Goto(a, "sent")
  /\ UNCHANGED <<scan, data, failed, lastSent, reply, dev, rx, lastTx,
                 timerVars, flagVars, worldVars>>

\* Mutant of CountTick: the counter starts again at 1.
CountTickFromOne(t) ==
  LET next == blinkCount[t] + 1
      over == next > blinkLimit[t]
  IN  /\ blinkCount' = [blinkCount EXCEPT ![t] = IF over THEN 1 ELSE next]
      /\ blinkLimit' = [blinkLimit EXCEPT ![t] = IF over THEN LaterBlinkLimit ELSE @]

\* The counter at the end of timerTick.  The test of _networkDevices against
\* num_anchors compares an address, so the second limit is always the same.
CountTick(t) ==
  LET next == blinkCount[t] + 1
      over == next > blinkLimit[t]
  IN  /\ blinkCount' = [blinkCount EXCEPT ![t] = IF over THEN 0 ELSE next]
      /\ blinkLimit' = [blinkLimit EXCEPT ![t] = IF over THEN LaterBlinkLimit ELSE @]

Aged(table) == [i \in 1..Len(table) |-> Older(table[i])]

\* timerTick with known anchors: transmitPoll(nullptr).
TickPoll(t) ==
  /\ At(t, "top") /\ blinkCount[t] # 0 /\ dev[t] # <<>>
  /\ expected' = [expected EXCEPT ![t] = "POLL_ACK"]
  /\ round' = [round EXCEPT ![t] = NextRound(t)]
  /\ transmit(t, Mk("POLL", t, t, NextRound(t), 0, PollList(dev[t]), None))
  /\ lastSent' = [lastSent EXCEPT ![t] = Broadcast]
  /\ dev' = [dev EXCEPT ![t] = Aged(@)]
  /\ CountTick(t)
  /\ Goto(t, "sent")
  /\ UNCHANGED <<scan, failed, reply, flagVars, worldVars>>

\* timerTick in every period of blinkLimit ticks: transmitBlink, then
\* checkForInactiveDevices.
TickBlink(t) ==
  /\ At(t, "top") /\ blinkCount[t] = 0
  /\ transmit(t, Mk("BLINK", t, t, round[t], 0, <<>>, None))
  /\ dev' = [dev EXCEPT ![t] = Aged(@)]
  /\ CountTick(t)
  /\ scan' = [scan EXCEPT ![t] = 1]
  /\ Goto(t, "inactive")
  /\ UNCHANGED <<expected, failed, lastSent, reply, round, flagVars, worldVars>>

\* timerTick without a known anchor.
TickIdle(t) ==
  /\ At(t, "top") /\ blinkCount[t] # 0 /\ dev[t] = <<>>
  /\ CountTick(t)
  /\ Goto(t, "sent")
  /\ UNCHANGED <<loopVars, round, chipVars, flagVars, worldVars>>

\* One turn of the loop of checkForInactiveDevices.  A removal moves the next
\* device to the place just looked at, and the scan goes on behind it.
CheckInactive(t) ==
  /\ At(t, "inactive")
  /\ scan[t] <= Len(dev[t])
  /\ dev' = [dev EXCEPT ![t] =
               IF isInactive(@[scan[t]]) THEN removeNetworkDevices(@, scan[t]) ELSE @]
  /\ scan' = [scan EXCEPT ![t] = @ + 1]
  /\ UNCHANGED <<pc, data, expected, failed, lastSent, reply, timerVars, chipVars,
                 flagVars, worldVars>>

CheckDone(t) ==
  /\ At(t, "inactive")
  /\ scan[t] > Len(dev[t])
  /\ scan' = [scan EXCEPT ![t] = 1]
  /\ Goto(t, "sent")
  /\ UNCHANGED <<data, expected, failed, lastSent, reply, dev, timerVars, chipVars,
                 flagVars, worldVars>>

Tick(t) == TickPoll(t) \/ TickBlink(t) \/ TickIdle(t)
------------------------------------------------------------------------------
\* The block of loop() for _sentAck.

NotSent(n) ==
  /\ At(n, "sent") /\ ~sentAck[n]
  /\ Goto(n, "received")
  /\ UNCHANGED <<loopVars, timerVars, chipVars, flagVars, worldVars>>

\* What was sent is read off the shared buffer, whatever it holds by now.
SentTypesWithoutAck == {"POLL", "RANGE"}  \* mutant of SentTypes
SentTypes == {"POLL", "POLL_ACK", "RANGE"}

SentUnexpected(n) ==
  /\ At(n, "sent") /\ sentAck[n] /\ Type(data[n]) \notin SentTypes
  /\ sentAck' = [sentAck EXCEPT ![n] = FALSE]
  /\ Goto(n, "top")
  /\ UNCHANGED <<loopVars, timerVars, chipVars, receivedAck, worldVars>>

\* The devices the transmit timestamp is stored for.
SentTo(n) ==
  IF lastSent[n] = Broadcast THEN 1..Len(dev[n])
  ELSE {searchDistantDevice(dev[n], lastSent[n])}

StoreSentTime(n, d) ==
  IF n \in Anchors
  THEN IF Type(data[n]) = "POLL_ACK" THEN [d EXCEPT !.timePollAckSent = lastTx[n]] ELSE d
  ELSE CASE Type(data[n]) = "POLL" -> [d EXCEPT !.timePollSent = lastTx[n]]
         [] Type(data[n]) = "RANGE" -> [d EXCEPT !.timeRangeSent = lastTx[n]]
         [] OTHER -> d

HandleSent(n) ==
  /\ At(n, "sent") /\ sentAck[n] /\ Type(data[n]) \in SentTypes
  /\ sentAck' = [sentAck EXCEPT ![n] = FALSE]
  /\ dev' = [dev EXCEPT ![n] =
               [i \in 1..Len(@) |-> IF i \in SentTo(n) THEN StoreSentTime(n, @[i]) ELSE @[i]]]
  /\ Goto(n, "received")
  /\ UNCHANGED <<scan, data, expected, failed, lastSent, reply, timerVars, chipVars,
                 receivedAck, worldVars>>
------------------------------------------------------------------------------
\* The block of loop() for _receivedAck.  An interrupt between getData and the
\* reading of the receive timestamp replaces both, so they are two steps.

NotReceived(n) ==
  /\ At(n, "received") /\ ~receivedAck[n]
  /\ Goto(n, "top")
  /\ UNCHANGED <<loopVars, timerVars, chipVars, flagVars, worldVars>>

GetData(n) ==
  /\ At(n, "received") /\ receivedAck[n]
  /\ receivedAck' = [receivedAck EXCEPT ![n] = FALSE]
  /\ data' = [data EXCEPT ![n] = rx[n]]
  /\ Goto(n, "handle")
  /\ UNCHANGED <<scan, expected, failed, lastSent, reply, dev, timerVars, chipVars,
                 sentAck, worldVars>>

\* The program has read a frame of the given type at node n.
Handling(n, type) == At(n, "handle") /\ Type(data[n]) = type
Distant(n) == searchDistantDevice(dev[n], Source(data[n]))

\* The frame is neither a BLINK at an anchor nor a RANGING_INIT at a tag, and
\* no device has its source address.
UnknownSource(n) ==
  /\ At(n, "handle")
  /\ ~(n \in Anchors /\ Type(data[n]) = "BLINK")
  /\ ~(n \in Tags /\ Type(data[n]) = "RANGING_INIT")
  /\ Distant(n) = 0
  /\ Goto(n, "top")
  /\ UNCHANGED <<loopVars, timerVars, chipVars, flagVars, worldVars>>

\* BLINK at an anchor: the tag is entered unless known, and answered anyway.
AnchorBlink(a) ==
  /\ Handling(a, "BLINK")
  /\ LET t == data[a].id.src
         d == NewDevice(t, 0)
     IN  /\ dev' = [dev EXCEPT ![a] = IF KnownBoth(@, d) THEN @ ELSE Appended(@, d)]
         /\ transmit(a, Mk("RANGING_INIT", a, t, data[a].id.round, 0, <<>>, None))
         /\ lastSent' = [lastSent EXCEPT ![a] = t]
  /\ expected' = [expected EXCEPT ![a] = "POLL"]
  /\ Goto(a, "top")
  /\ UNCHANGED <<scan, failed, reply, timerVars, flagVars, worldVars>>

\* RANGING_INIT at a tag: the anchor is entered unless known.
TagRangingInit(t) ==
  /\ Handling(t, "RANGING_INIT")
  /\ \E age \in Age :
       LET d == NewDevice(data[t].id.src, age)
       IN  dev' = [dev EXCEPT ![t] = IF KnownShort(@, d) THEN @ ELSE Appended(@, d)]
  /\ Goto(t, "top")
  /\ UNCHANGED <<scan, data, expected, failed, lastSent, reply, timerVars, chipVars,
                 flagVars, worldVars>>

\* POLL at an anchor that is listed: store the time, answer after the delay
\* that belongs to the anchor's place in the list.
AnchorPoll(a) ==
  /\ Handling(a, "POLL") /\ Distant(a) # 0 /\ Listed(data[a].list, a)
  /\ LET delay == 2 * PlaceOf(data[a].list, a) - 1
         t == Source(data[a])
     IN  /\ reply' = [reply EXCEPT ![a] = delay]
         /\ dev' = [dev EXCEPT ![a][Distant(a)] =
                      [Noted(@) EXCEPT !.timePollReceived = rx[a].id]]
         /\ transmit(a, Mk("POLL_ACK", a, t, data[a].id.round, delay, <<>>, None))
         /\ lastSent' = [lastSent EXCEPT ![a] = t]
  /\ failed' = [failed EXCEPT ![a] = FALSE]
  /\ expected' = [expected EXCEPT ![a] = "RANGE"]
  /\ Goto(a, "top")
  /\ UNCHANGED <<scan, timerVars, flagVars, worldVars>>

\* POLL or RANGE at an anchor that is not listed.
AnchorNotListed(a) ==
  /\ Handling(a, "POLL") \/ Handling(a, "RANGE")
  /\ Distant(a) # 0 /\ ~Listed(data[a].list, a)
  /\ failed' = [failed EXCEPT ![a] = @ \/ Type(data[a]) # expected[a]]
  /\ Goto(a, "top")
  /\ UNCHANGED <<scan, data, expected, lastSent, reply, dev, timerVars, chipVars,
                 flagVars, worldVars>>

\* RANGE at an anchor that is listed: compute and report the range ...
AnchorRange(a) ==
  /\ Handling(a, "RANGE") /\ Distant(a) # 0 /\ Listed(data[a].list, a)
  /\ ~failed[a] /\ expected[a] = "RANGE"
  /\ LET e == data[a].list[PlaceOf(data[a].list, a)]
         t == Source(data[a])
         d == [dev[a][Distant(a)] EXCEPT !.timeRangeReceived = rx[a].id,
                 !.timePollSent = e.timePollSent,
                 !.timePollAckReceived = e.timePollAckReceived,
                 !.timeRangeSent = e.timeRangeSent]
         range == computeRangeAsymmetric(t, d)
     IN  /\ dev' = [dev EXCEPT ![a][Distant(a)] = [d EXCEPT !.range = range]]
         /\ transmit(a, Mk("RANGE_REPORT", a, t, data[a].id.round, reply[a], <<>>, range))
         /\ lastSent' = [lastSent EXCEPT ![a] = t]
  /\ expected' = [expected EXCEPT ![a] = "POLL"]
  /\ Goto(a, "top")
  /\ UNCHANGED <<scan, failed, reply, timerVars, flagVars, worldVars>>

\* ... unless the protocol has failed since the last POLL that listed it.
AnchorRangeFailed(a) ==
  /\ Handling(a, "RANGE") /\ Distant(a) # 0 /\ Listed(data[a].list, a)
  /\ failed[a] \/ expected[a] # "RANGE"
  /\ LET t == Source(data[a])
     IN  /\ dev' = [dev EXCEPT ![a][Distant(a)].timeRangeReceived = rx[a].id]
         /\ transmit(a, Mk("RANGE_FAILED", a, t, data[a].id.round, 0, <<>>, None))
         /\ lastSent' = [lastSent EXCEPT ![a] = t]
  /\ failed' = [failed EXCEPT ![a] = TRUE]
  /\ expected' = [expected EXCEPT ![a] = "POLL"]
  /\ Goto(a, "top")
  /\ UNCHANGED <<scan, reply, timerVars, flagVars, worldVars>>

\* A message the tag does not expect: it goes back to waiting for POLL_ACK.
TagUnexpected(t) ==
  /\ At(t, "handle") /\ Type(data[t]) # "RANGING_INIT" /\ Distant(t) # 0
  /\ Type(data[t]) # expected[t]
  /\ expected' = [expected EXCEPT ![t] = "POLL_ACK"]
  /\ Goto(t, "top")
  /\ UNCHANGED <<scan, data, failed, lastSent, reply, dev, timerVars, chipVars,
                 flagVars, worldVars>>

\* The table after a POLL_ACK, and after transmitRange as well.
WithAck(t) ==
  [dev[t] EXCEPT ![Distant(t)] = [Noted(@) EXCEPT !.timePollAckReceived = rx[t].id]]
RangeStamp(t) == [type |-> "RANGE", src |-> t, tag |-> t, round |-> round[t]]
WithRangeSent(t) ==
  [i \in 1..Len(dev[t]) |-> [WithAck(t)[i] EXCEPT !.timeRangeSent = RangeStamp(t)]]

FirstDevice(t) == dev[t][Distant(t)].index = 0  \* mutant of LastDevice
LastDevice(t) == dev[t][Distant(t)].index = Len(dev[t]) - 1

\* POLL_ACK of a device that is not the last one of the table.
TagPollAck(t) ==
  /\ Handling(t, "POLL_ACK") /\ expected[t] = "POLL_ACK" /\ Distant(t) # 0
  /\ ~LastDevice(t)
  /\ dev' = [dev EXCEPT ![t] = WithAck(t)]
  /\ Goto(t, "top")
  /\ UNCHANGED <<scan, data, expected, failed, lastSent, reply, timerVars, chipVars,
                 flagVars, worldVars>>

\* POLL_ACK of the last device: transmitRange(nullptr).
TagLastPollAck(t) ==
  /\ Handling(t, "POLL_ACK") /\ expected[t] = "POLL_ACK" /\ Distant(t) # 0
  /\ LastDevice(t)
  /\ dev' = [dev EXCEPT ![t] = WithRangeSent(t)]
  /\ transmit(t, Mk("RANGE", t, t, round[t], 1, RangeList(WithRangeSent(t)), None))
  /\ lastSent' = [lastSent EXCEPT ![t] = Broadcast]
  /\ expected' = [expected EXCEPT ![t] = "RANGE_REPORT"]
  /\ Goto(t, "top")
  /\ UNCHANGED <<scan, failed, reply, timerVars, flagVars, worldVars>>

\* RANGE_REPORT at a tag: the range is stored and newRange is called.
TagRangeReport(t) ==
  /\ Handling(t, "RANGE_REPORT") /\ expected[t] = "RANGE_REPORT" /\ Distant(t) # 0
  /\ dev' = [dev EXCEPT ![t][Distant(t)].range = data[t].range]
  /\ Goto(t, "top")
  /\ UNCHANGED <<scan, data, expected, failed, lastSent, reply, timerVars, chipVars,
                 flagVars, worldVars>>

LoopBody(n) ==
  \/ NotSent(n) \/ SentUnexpected(n) \/ HandleSent(n)
  \/ NotReceived(n) \/ GetData(n) \/ UnknownSource(n)

AnchorHandle(a) ==
  \/ AnchorBlink(a) \/ AnchorPoll(a) \/ AnchorNotListed(a)
  \/ AnchorRange(a) \/ AnchorRangeFailed(a)

TagHandle(t) ==
  \/ CheckInactive(t) \/ CheckDone(t)
  \/ TagRangingInit(t) \/ TagUnexpected(t) \/ TagPollAck(t) \/ TagLastPollAck(t)
  \/ TagRangeReport(t)
------------------------------------------------------------------------------
\* The chip, its interrupt handler, and the world.

\* The nodes whose receiver is on: a delayed transmission keeps it off.
Listening == {m \in Node \ down : tx[m] = None}

\* A frame is sent: handleSent at its sender, handleReceived at the nodes R it
\* reaches, whose receive buffer it replaces.  A receiver with a frame still
\* waiting is turned off by newReceive and never sends it.
TxDone(n, R) ==
  /\ n \notin down /\ tx[n] # None
  /\ faults' = IF Listening \ {n} \subseteq R THEN faults ELSE faults + 1
  /\ faults' <= MaxFaults
  /\ ackLost' = (ackLost \/ (Type(tx[n]) = "POLL_ACK" /\ tx[n].id.tag \notin R))
  /\ sentAck' = [sentAck EXCEPT ![n] = TRUE]
  /\ lastTx' = [lastTx EXCEPT ![n] = tx[n].id]
  /\ receivedAck' = [m \in Node |-> m \in R \/ receivedAck[m]]
  /\ rx' = [m \in Node |-> IF m \in R THEN tx[n] ELSE rx[m]]
  /\ tx' = [m \in Node |-> IF m \in R \cup {n} THEN None ELSE tx[m]]
  /\ UNCHANGED <<pc, loopVars, timerVars, down>>

\* A node loses power with all it knows ...
PowerOff(n) ==
  /\ n \notin down
  /\ faults < MaxFaults /\ faults' = faults + 1
  /\ down' = down \cup {n}
  /\ pc' = [pc EXCEPT ![n] = "top"]
  /\ scan' = [scan EXCEPT ![n] = 1]
  /\ sentAck' = [sentAck EXCEPT ![n] = FALSE]
  /\ receivedAck' = [receivedAck EXCEPT ![n] = FALSE]
  /\ data' = [data EXCEPT ![n] = None]
  /\ expected' = [expected EXCEPT ![n] = "POLL"]
  /\ failed' = [failed EXCEPT ![n] = FALSE]
  /\ lastSent' = [lastSent EXCEPT ![n] = None]
  /\ reply' = [reply EXCEPT ![n] = 1]
  /\ dev' = [dev EXCEPT ![n] = <<>>]
  /\ blinkCount' = [t \in Tags |-> IF t = n THEN 0 ELSE blinkCount[t]]
  /\ blinkLimit' = [t \in Tags |-> IF t = n THEN BlinkLimit ELSE blinkLimit[t]]
  /\ tx' = [tx EXCEPT ![n] = None]
  /\ rx' = [rx EXCEPT ![n] = None]
  /\ lastTx' = [lastTx EXCEPT ![n] = None]
  /\ UNCHANGED <<round, ackLost>>

\* ... and runs setup() again.
PowerOn(n) ==
  /\ n \in down
  /\ down' = down \ {n}
  /\ UNCHANGED <<pc, loopVars, timerVars, chipVars, flagVars, faults, ackLost>>

Power(n) == PowerOff(n) \/ PowerOn(n)
------------------------------------------------------------------------------
(***************************************************************************)
(* Every interleaving: an interrupt at any point of loop(), a tick or a    *)
(* reset however long the loop or the radio takes.                         *)
(***************************************************************************)
Next ==
  \/ \E n \in Node : PassHead(n) \/ LoopBody(n) \/ Power(n)
  \/ \E t \in Tags : Tick(t) \/ TagHandle(t)
  \/ \E a \in Anchors : ResetInactive(a) \/ AnchorHandle(a)
  \/ \E n \in Node : \E R \in SUBSET (Node \ (down \cup {n})) : TxDone(n, R)

Spec == Init /\ [][Next]_vars

(***************************************************************************)
(* The timing the delays are made for.  Replies are 7 ms apart in the      *)
(* order of the list, a pass of loop() takes less, the timer waits         *)
(* 40 ms + 21 ms per device and the reset 200 ms: a frame is sent only     *)
(* when all nodes have seen the last one, the earliest reply first, to the *)
(* nodes that listen, and ticks and resets come when the air is quiet.     *)
(***************************************************************************)
Idle(n) == pc[n] = "top" /\ ~sentAck[n] /\ ~receivedAck[n]
AllIdle == \A n \in Node : Idle(n)
Quiet == AllIdle /\ \A n \in Node : tx[n] = None
Earliest(n) == \A m \in Node : tx[m] # None => tx[n].due <= tx[m].due

TimelyTx(n) ==
  /\ AllIdle /\ tx[n] # None /\ Earliest(n)
  /\ \E R \in SUBSET (Listening \ {n}) : TxDone(n, R)
TimelyPass(n) == (sentAck[n] \/ receivedAck[n]) /\ PassHead(n)
TimelyReset(a) == Quiet /\ expected[a] # "POLL" /\ ResetInactive(a)
TimelyTick(t) == Quiet /\ Tick(t)

TimelyLoop(n) ==
  \/ TimelyPass(n) \/ LoopBody(n)
  \/ n \in Tags /\ TagHandle(n)
  \/ n \in Anchors /\ AnchorHandle(n)

TimelyNext ==
  \/ \E n \in Node : TimelyLoop(n) \/ TimelyTx(n) \/ Power(n)
  \/ \E t \in Tags : TimelyTick(t)
  \/ \E a \in Anchors : TimelyReset(a)

TimelySpec == Init /\ [][TimelyNext]_vars

\* The processors keep running loop(), the chips send what they are given, and
\* the timer goes on.  Nobody has to switch a node on again.
Fairness ==
  /\ \A n \in Node : WF_vars(TimelyLoop(n)) /\ WF_vars(TimelyTx(n))
  /\ \A t \in Tags : WF_vars(TimelyTick(t))

FairSpec == TimelySpec /\ Fairness
==============================================================================
