# Verification of the UWB drone localization firmware

TLA+ modules, TLC runs and TLAPS proofs for the firmware in this repository: tags on drones measure
their distance to fixed anchors by two-way ranging over DW1000 ultra-wideband radios and
send the distances over WiFi to a computer that trilaterates them.

All paths below are relative to the repository's sources; `DW1000Ranging.cpp` and the other files of the modified
library are in `DW1000_library/src/`, `DW1000Ng.cpp` and what belongs to it in `arduino-dw1000-ng-master/src/`.

There are two systems that share nothing but the radio chip. The first is the modified DW1000 library: one tag polls
all anchors at once, several tags take turns by a token, and a computer draws the position. The second is built on the
DW1000Ng library: a tag goes through the anchors one by one and the primary anchor collects the ranges.

## 1. Inventory

### 1.1 Components

| component | state it keeps | operations | talks to |
|---|---|---|---|
| ranging engine, `DW1000Ranging.cpp` | device table, `_expectedMsgId`, `_protocolFailed`, `_lastSentToShortAddress`, reply delay, blink counter, one buffer `data` for both directions, flags `_sentAck`/`_receivedAck` | `loop`, `timerTick`, `checkForReset`, the `transmit*` family, `addNetworkDevices`, `removeNetworkDevices`, `computeRangeAsymmetric` | driver (calls, and two callbacks that set the flags from the interrupt), sketches (callbacks `newRange`, `newDevice`, `inactiveDevice`) |
| device records, `DW1000Device.cpp` | addresses, six timestamps, range, `_index`, `_activity` | `noteActivity`, `isInactive`, setters | kept in the engine's table |
| frames, `DW1000Mac.cpp` | sequence number | `generate*Frame`, `decode*Frame` | the engine; the destination address is written and never decoded |
| time, `DW1000Time.cpp` | a 40 bit timestamp | arithmetic, `wrap` | engine and driver |
| driver, `DW1000.cpp` | copies of the chip's registers, device mode | `handleInterrupt`, `newReceive`/`startReceive`, `newTransmit`/`startTransmit`, `setDelay`, timestamps, tuning | the chip over SPI, the engine through callbacks |
| tag sketch for several tags, `multitag_main/multitag_main.ino` | linked results, token, TCP client, timers | `setup`, `loop`, `newRange`, `connectToServer` | engine, token server |
| other sketches: `tag_main`, `setup_anchor`, `anchor_autocalibrate` | last ranges; binary search of the antenna delay | `newRange` | engine |
| token servers: `multitag_tcp_server.py`, `multitag_udp_server.py`, `multitag_control_server.py`, `udp_server.py` | the address table, the holder of the token | accept, hand on the token, receive ranges | tags over TCP or UDP |
| RTLS sketches `rtls_tag`, `rtls_anchor_primary`, `rtls_anchor_secondary` and `DW1000NgRTLS.cpp`, `DW1000NgRanging.cpp` | ranges per anchor, chain of anchors | one blocking exchange per anchor | DW1000Ng driver |
| DW1000Ng driver, `DW1000Ng.cpp` | settings, copies of the chip's registers, what to restore after sleep | `initialize`, `applyConfiguration`, setters, `deepSleep`, `spiWakeup`, `interruptServiceRoutine` | the chip over SPI |
| DW1000Ng examples, `TwoWayRangingInitiator`, `TwoWayRangingResponder` | one pair of flags, one phase, six timestamps | `loop`, watchdog | the driver's interrupt handlers |
| displays, `OutdoorPositioning_display/` | a linked list of links; the last ranges and the position | add, find, `fresh_link`, `delete_link`, JSON; reading and drawing | the engine's callbacks; TCP |

### 1.2 Behaviour that is hard to get right

* **Interrupts against `loop`.** The interrupt handler only sets `_sentAck` and `_receivedAck`. `loop`
  reads the frame and its time of arrival in two SPI transactions (DW1000Ranging.cpp:453 and :545) and
  finds out *what was sent* by looking at the buffer it shares with reception (:382).
* **One radio, several answers.** A tag broadcasts POLL and every anchor answers POLL_ACK in the slot of
  its place in the list. The answer of the *last* device of the tag's table starts the next phase (:653); nobody
  counts the other answers.
* **Loss and restarts.** There are no retransmissions. What survives a lost frame is the 40 ms timer, the
  200 ms reset, the BLINK every 20 ticks and the removal of silent devices.
* **The table.** Devices enter from the handlers, leave while the table is scanned (:341), and carry
  their own index, which the protocol trusts.
* **The token.** Tags must not range at the same time; a blocking TCP exchange hands one token round.
* **Two drivers, one line.** Both wait for a rising edge of the interrupt line, read the status register once and act on
  that copy. What happens between the reading and the clearing, and between two statements of the main program, is not
  in the copy.
* **Three copies of a setting.** Driver variables, copies of registers and the chip; each is lost at another time (restart
  of the controller, reset, sleep of the chip).
* **Chains with timeouts on both ends.** In the RTLS exchange tag and anchor each wait with a timeout of their own and
  give up alone. Results are declared and not written on several paths.
* **Clocks that wrap.** Ranges are differences of 40 bit (or 32 bit) readings of two clocks, one of which is a time in
  the future that the radio rounds down.

### 1.3 What makes each component correct

* Ranging: a range is computed from the two ends of one POLL, one POLL_ACK and one RANGE; faults other than
  a lost POLL_ACK cannot change that; after any fault ranging goes on with every anchor that has power.
* Device table: no short address twice, index equals place, through every entry and removal.
* Token: at most one tag holds it; it is not lost for good when a tag dies.
* UDP ring: every tag is asked again and again.
* Drivers: the interrupt line is never left up unseen; a frame is reported once; the receiver is on when nothing else is
  going on; a transmission is delayed exactly if it was asked to be.
* Configuration: registers and tuning, written from different variables, belong together; what was set lasts.
* Two-way ranging of the examples: all timestamps of a range are of one round.
* Time: the computed time of flight is exact for clocks that wrap anywhere; RANGE leaves at the time it carries.
* RTLS exchange: a range is computed from one exchange; the ranges that are shown together belong to one round; every
  node comes back to where it starts. (Section 3.1 says where the code does not keep the first two.)
* Calibration: the search ends, and ends near the delay that gives the known distance.
* Display: the list of links is the table of devices; a position is drawn from ranges of one message.

## 2. Modules

| module | stands for | 
|---|---|
| `DeviceTable` | the array `_networkDevices` and the operations on it |
| `Ranging` | `DW1000Ranging.cpp`, the interrupt handler of `DW1000.cpp` and a lossy radio; `Spec` has every interleaving, `TimelySpec` those the delays allow, `FairSpec` adds fairness |
| `RangingProperties` | what ranging guarantees |
| `MCRanging` | the instances for TLC |
| `RangingProofs` | lemmas on what the table operations return, for tables of any length; the inductive invariant of `Spec` and what follows from it; the invariant of a round and `LastAnchorMatched`; the account of one fault and `OneFaultHarmless` |
| `Token` | the abstract specification: one token, which is with nobody between two holders |
| `TokenServer` | `multitag_tcp_server.py` and `multitag_main.ino`, with connections that break and tags that restart |
| `TokenProperties` | what the token guarantees, and that `TokenServer` implements `Token` |
| `MCToken` | the instances for TLC |
| `TokenProofs` | the inductive invariant, mutual exclusion, the refinement and the bound on tokens |
| `UdpRing`, `UdpRingProperties`, `MCUdpRing` | `multitag_udp_server.py` and its copy `multitag_control_server.py`, with the tags' side taken from what the server expects |
| `UdpRingProofs` | the bound on requests in the ring; the list and the positions of the outdoor display |
| `Tuning` | the tables of `tune()` in `DW1000.cpp`, as functions of the settings |
| `Configuration`, `ConfigurationProperties`, `MCConfiguration`, `ConfigurationProofs` | selecting, setting and committing a configuration of `DW1000.cpp` |
| `NgTuning` | the tables of `tune()` in `DW1000Ng.cpp` |
| `NgConfiguration`, `NgConfigurationProperties` | configuration, sleep and restart of `DW1000Ng.cpp`; `MCConfiguration` has an instance, `ConfigurationProofs` the proofs |
| `Radio` | the chip as both drivers see it: control, status and mask registers, the interrupt line, what it does by itself |
| `DriverInterrupt`, `DriverInterruptProperties`, `MCDriverInterrupt`, `DriverInterruptProofs` | the interrupt routine of `DW1000.cpp` against the calls of the main program; uses `Radio` |
| `NgInterrupt` | the interrupt routine of `DW1000Ng.cpp` in several nodes; uses `Radio` |
| `TwoWayRanging`, `TwoWayRangingProperties`, `MCTwoWayRanging`, `TwoWayRangingProofs` | the two examples of two-way ranging; composes two nodes of `NgInterrupt` by a medium |
| `RTLS`, `RTLSProperties`, `MCRTLS`, `RTLSProofs` | `DW1000NgRTLS.cpp` and the sketches of tags and anchors |
| `RangeTiming`, `RangeTimingProperties`, `MCRangeTiming`, `RangeTimingProofs` | the clocks, timestamps and computations of an exchange, for both libraries |
| `Calibration`, `CalibrationProperties` | `anchor_autocalibrate.ino`; `MCRangeTiming` has an instance, `RangeTimingProofs` the proof |
| `LinkList` | `link.cpp`, as functions on sequences |
| `OutdoorDisplay`, `OutdoorDisplayProperties` | the tag with a display and the script that draws; composes `DeviceTable` and `LinkList`; `MCUdpRing` has an instance |

Four MC modules hold more than one program: `MCConfiguration` the two drivers, `MCRangeTiming` the two libraries and the calibration sketch, `MCUdpRing` two uses of a
tag, `MCDriverInterrupt` a prompt and a late processor. A board is flashed with one of them, so a variable that no step
changes (`library`, `program`, `use`, `processor`) says which, each step belongs to one, and the variables of the others stay as they start. The state space is the sum of the parts, not their product. The assumptions of an instance are
definitions (`TimingAssumption`, `NgAssumption`, ...) that the MC module assumes with its values.

### 2.1 How `Ranging` corresponds to the code

One pass of `loop()` is cut at the points where an interrupt changes what it sees:

| `pc` | code |
|---|---|
| `top` | `checkForReset` (`ResetInactive`) and the `_timer` test with `timerTick` (`TickPoll`, `TickBlink`, `TickIdle`), lines 369-376 and 730-767 |
| `inactive` | one turn of `checkForInactiveDevices` each (`CheckInactive`, `CheckDone`), 341-352 |
| `sent` | the `_sentAck` block (`NotSent`, `SentUnexpected`, `HandleSent`), 378-445 |
| `received` | the test of `_receivedAck` and `getData` (`NotReceived`, `GetData`), 447-455 |
| `handle` | the handlers of the frame (`AnchorBlink` ... `TagRangeReport`), 455-690 |

`TxDone(n, R)` is `handleInterrupt` (DW1000.cpp:714-752) at the sender `n` and at the nodes `R` the frame
reaches; a listening node that is not in `R` has lost it. `PowerOff` and `PowerOn` are a power failure and `setup()`.

The data is abstracted to what the properties tell apart:

* a timestamp is the *flight* of the frame it dates (kind, sender, tag and round). Two timestamps that
  are subtracted must be the two ends of one flight, so `computeRangeAsymmetric` returns whether they are;
* the age of a device is counted in ticks of the timer, and a fresh record at a tag has any age because
  `_activity` is not initialised by the constructor;
* the reply delay is counted in `DEFAULT_REPLY_DELAY_TIME`;
* the destination address of a frame is left out, since no receiver decodes it; a BLINK and a RANGING_INIT
  have no short source address at the place `decodeShortMACFrame` looks at;
* the range filter, `_lastDistantDevice` and the signal power are left out.

Two branches of the code cannot be taken and are not in the model: the tag's handler of RANGE_FAILED
(:685; `_expectedMsgId` is never RANGE_FAILED) and the unicast branches of `transmitPoll` and
`transmitRange`. `timerTick` compares the address of `_networkDevices` with `num_anchors` (:759), which is
never true, so the later blink limit is one constant.

### 2.2 How `TokenServer` corresponds to the code

A tag's `loop()` is cut where it blocks or looks at the connection: `Reconnect` is the test of `client.connected()`
(multitag_main.ino:175). `Connected` is an attempt of `connectToServer` that succeeds (:309); the delay of 100 ms times the number of the attempt comes
behind it (:310), and `pause` is what is left of it. `SayHello` is the end of `connectToServer` and the first message (:178), `ConnectAgain` another attempt because the connection has been
lost meanwhile, and `GiveUp` the end of `connectToServer` without a connection. `Pauses` are the delays behind an attempt: none behind an early one,
and as long as the server waits behind a late one (the 50th waits 5 s, the 100th and last 10 s). `TakeToken` is lines 182-190, `Release` 200-212 and `EndPass` a pass that
finds nothing to do. A tag in `connecting` or `delay` does nothing else, as the sketch is blocked. `setup()` is the same
sequence from `socket = 0`. `Release` may come at any time while the tag has the token, since the ranges of all anchors may be there at
any time; it must come when the token is overdue.

`thread[c]` is where the thread of connection `c` is in `handle_connection`:

| `thread` | code (multitag_tcp_server.py) |
|---|---|
| `backlog` | connected, not accepted yet (73) |
| `hello` | in the first `recv` (27), outside lock and `try` |
| `free` | before `with lock` (35) |
| `asked` | with the lock, between `sendall` and the end of the block (37-56) |
| `ended` | returned or ended by an exception |

`recv` returns one message or several. `json.loads` of several raises, which ends the thread (`Crash`); a thread that ends that way
does not close its socket, and the interpreter does so only when the last reference is gone, that is at once unless
the main program's variable `connection` still refers to it, and else at the next `accept`. `Close` is a thread that closes its
socket or finds it closed by the tag. Both give the lock back, as the `with` statement does.

Time passes in seconds (`Second`), and only when every loop and thread has done what it can do at once. So a message is under way for
less than a second, as on a local network, and the two timeouts race with everything else.

### 2.3 How `UdpRing` corresponds to the code

`Receive(t)` is a turn of the server's loop with a packet of `t`, `Register` its first branch (65-71) and `PassOn` the second one
(73-88). The table is the sequence of keys of `tag_address`. The server cannot tell a first packet from an answer, so `packets` counts both. The
timeout of `recvfrom` (51-57) changes no state and is a stuttering step.

### 2.4 How `Configuration` and `NgConfiguration` correspond to the code

`settings` are the driver's own variables, `regs` its copies of the registers, `chip` what was written. In `Configuration` each setter is an
action; `Set` pairs its effect on `settings` and `regs`. `phase` follows the order in which the callers use the driver: `selected` after
`select`, which resets the chip and of the copies only clears `_syscfg`; `fresh` after the first `newConfiguration`, which every caller in the repository
continues with `setDefaults`; `open` after that; `committed` when all is written and `tune()` has run. Nothing else restricts the order, and the antenna delay
may be set at any time, also before the chip is selected. `Tuning` has one function for each register that `tune()` writes, and `Undefined` where a branch
of the code leaves the bytes unset.

In `NgConfiguration` the unit is `ApplyConfiguration(c)`, which hands over a whole record; what the sketch sets besides is kept in driver
variables. `Initialize` is called once after each start of the controller; `Restart` loses every variable of the driver and nothing of the chip. `DeepSleep` loses
what the chip does not save, the antenna delays and the debounce clock, and `SpiWakeup` restores them from the driver's variables. A register written by hand is the
model value `Manual`.

### 2.5 How `DriverInterrupt`, `NgInterrupt` and `TwoWayRanging` correspond to the code

`Radio` is the chip: `mode` is what it is doing, `status` the latched events, `Masked` those that raise the line. `Wire` updates chip and line, and remembers a
rising edge in `pending` until the processor serves it.

`isr` is the place in `handleInterrupt` (DW1000.cpp:714-752):

| `isr` | code |
|---|---|
| `read` | `readSystemEventStatusRegister` |
| `sent` | the test of `isTransmitDone`, its handler and `clearTransmitStatus` |
| `received` | the test of `isReceiveDone`, its handler and `clearReceiveStatus` |
| `rearm` | `newReceive`, `startReceive` under `_permanentReceive` |
| `clear` | `clearAllStatus` |

`main` cuts the calls of `DW1000Ranging` (`transmitInit`, `transmit`, `receiver`): `Idle` is the assignments of `idle()`, `New` its write and the rest of `newTransmit` or `newReceive`,
then `SetDelay`, `StartTransmit` and `StartReceive`. An interrupt may come between any two of them. `Prompt` says that the routine is over before the chip's next event.

`NgInterrupt` is `interruptServiceRoutine` (DW1000Ng.cpp:1334-1374) in the same manner, per node. `TwoWayRanging` puts two of them opposite to each other: `Transmitted` is the end
of a frame at the sender and at the receiver, which hears it well, hears it spoilt or was not listening. The loops of the two sketches follow: the `sentAck`
block (`SentInitiator`, `SentResponder`), the `receivedAck` block (`ReceivedInitiator`, `ReceivedResponder`) and `resetInactive` (`ResetInitiator` with `PollAgain`, `ResetResponder`). A
timestamp is the frame it dates and polls are numbered. `EarlyReset` lets a watchdog fire at any time (not only when nothing is under way), `StampApart` lets the
timestamp of a frame raise the line before the frame is in.

`rearmed` is a history variable: the routine went on listening while main was inside the last `idle()`. It is what `DelayedAsAsked` excuses.

### 2.6 How `RTLS` corresponds to the code

Every node is a program that waits in one place for its radio. `pc` is that place:

| `pc` | code |
|---|---|
| `asleep` | the tag in `deepSleep` and `delay(blink_rate)` |
| `request` | `tagRangeRequest` (`tagTwrLocalize`) waits for RANGING_INITIATION |
| `polled`, `final` | `tagFinishRange` waits for RESPONSE_TO_POLL, and for the confirmation |
| `loop` | the primary's `receiveFrame` at the root of its loop |
| `accept` | `anchorRangeAccept` waits for POLL (the root of a secondary anchor) |
| `answered`, `confirming` | it waits for FINAL, and for the end of its last transmission |
| `reporting` | a secondary anchor in `delay(transmit_delay)` before its report |

`radio` is what `waitForTransmission` and `receiveFrame` wait on. A timestamp stands for the blink it belongs to, and `range[a]` is the set of the blinks whose timestamps a range was computed from:
one if all is well. Where the code returns a struct it has not written (`anchorRangeAccept`, `tagFinishRange`, `tagRangeInfrastructure`), the model
takes any outcome the caller can act on: `UninitialisedAccept`, `UninitialisedRange`, `UninitialisedRate`. `GotReport` is the chain of flags `received_B`, `received_C` (rtls_anchor_primary.ino:160-196).

All tags get the short address 5 from the primary; `addressed` are the tags that have it. A frame is lost, never damaged; two
nodes that send at the same time are told apart. A wait for the *end* of a transmission has no timeout in the code and none in the model. The
range in a report is a 16 bit number of millimetres; that cut is not modelled. With `N = 4` the model follows `StandardRTLSAnchorC_TWR`
for the last anchor; in rtls_anchor_secondary.ino the branch for ANCHOR4 uses `blink_rate`, which is declared for no anchor but the last of three.
`loop()` of a secondary anchor calls `anchorRangeAccept`, and with it `receiveFrame`, without waiting for the report it has just started (rtls_anchor_secondary.ino:167, 180); the model
waits. A report that is cut off in this way is one more lost report. `missed` is a history variable: the last report of anchor 2 did not reach the primary.

### 2.7 How `RangeTiming` corresponds to the code

One exchange is `Poll`, `PollAck`, `Range`. `tag` and `anchor` are the two clocks, modulo `Clock` (2^40 in the code); `flight` is the true time of flight. Both clocks run at the same rate, so the property is exact
equality; what a difference of rates adds is the analysis of two-way ranging, not of the code. `Delayed` is the transmission at a time in the future: `SetDelay` for
`DW1000.cpp`, which cuts the low bits before it returns the time, `SetDelayedTRX` for DW1000Ng, where the caller does not. `Received` subtracts the bias of the received power as
`correctTimestamp` does. `OldRange` and `NgRange` are the two computations, with `wrap()` and with 32 bit unsigned differences.

`InTime` bounds an exchange by the period of the clock (17 s for 40 bits, 67 ms for the 32 bits of DW1000Ng), which is what a difference modulo the period can mean. `FINAL`
of DW1000Ng carries four bytes of each timestamp and the anchor reads five: `Carried` puts any number into the fifth.

The two libraries use the same bias table with opposite signs: `DW1000.cpp` subtracts the bias, negative for strong signals, from the timestamp (:1433-1436), DW1000NgRanging.cpp:73 adds it to the
range. The repository does not say which is meant, and the properties are about each one's own convention. `correctRange` itself works on metres and is not modelled.

### 2.8 How `Calibration` and `OutdoorDisplay` correspond to the code

`newRange` is one call of the callback: `Final` the branch that prints the delay and stays in `while(1)`, `NewTrial` the rest. An error is any odd number of half
steps within `Noise` of the true one, so that it is never exactly zero: with an error of exactly zero the sketch would neither halve the step nor end.

In `OutdoorDisplay` the engine is reduced to what its callbacks see of it: `RangingInit`, `RangeReport` and `checkForInactiveDevices` (`StartScan`, `CheckDevice`), in which any device may turn out to be
inactive. The callbacks change `links`. `Publish` is the second that has passed in `loop()`; `Disconnect` is for good, as the sketch never connects again. `ReadData` is one turn of
uwb_position2.0.py with whatever `recv` returns: some messages and perhaps a part of the next one. Smoothed ranges are integers here and floating point in the code.

## 3. Runs

| run | instance | checks | shows |
|---|---|---|---|
| `ranging_one_fault` | 1 tag, 3 anchors, 1 fault | `TypeOK`, `OneFaultHarmless`, `TablesConsistent`, `LastAnchorMatched` | a lost POLL, RANGE, RANGE_REPORT, RANGE_FAILED, BLINK or RANGING_INIT, or a power failure, at any point, is caught by `_expectedMsgId` and `_protocolFailed` before a range is computed; tables stay consistent; the anchor listed last is always ranged on timestamps that belong together |
| `ranging_recovers` | 1 tag, 2 anchors, 1 fault, fair | `RangedAgain` | every anchor with power is ranged again and again, also after an anchor that was last stays off |
| `ranging_lost_ack` | 1 tag, 2 anchors, 1 fault | `RangesMatched`, violated | one lost POLL_ACK of an anchor that is not last gives a range of timestamps of two rounds |
| `token_drops` | 3 tags, 4 connections, 1 lost, made early or late | `TypeOK`, `TokensBounded` | no thread waits longer than its timeout; a lost connection leaves at most one token too many |
| `token_restarts` | 2 tags, 3 connections, 2 restarts, connections made early or late, fair | `OneAtATime`, `TokenMovesOn`, `ImplementsToken` | neither restarts of tags nor first messages after the server's timeout break exclusion or the abstract token, or stop the server |
| `udp_display` | ring: 3 tags, 1 lost datagram, 2 restarts, fair; display: 3 addresses, one of them 0, 2 messages under way | `RangingBounded`, `RingAsks`; `LinksFollowDevices`, `DrawnFromOneMessage` | registration in any order hands on no token and each restart adds at most one; without loss every tag is asked again and again. List and table agree whatever comes and goes; no position mixes two messages |
| `timing` | clocks of 32 ticks (64 with 32 carried for DW1000Ng); 7 right delays, noise 9, fair | `RangeExact`, `SentAsWritten`; `NgRangeExact`; `FinalClose`, `Ends` | the range is exact for clocks that wrap anywhere, with either library; the search for the antenna delay ends near the right one |
| `configuration` | 3 rates, 3 lengths, 2 channels, a code; 32 configurations, 2 delays, sleep, restarts; every configuration there is, once | `TunedForRegisters`, `ModesTuned`, `AntennaDelayApplied`; `NgTuned`, `CodeValid`, `PowerFollows`, `KeptOverSleep`, `CopiesCurrent` | whatever was configured before, a committed chip is tuned for the registers it has; settings by hand last over configurations, sleep and restarts; copies and chip agree |
| `driver_interrupt` | a prompt processor with interrupts between any two statements of main; one with events at any moment, fair | `ReportedOnce`, `NotDeaf`, `DelayedAsAsked`; `LateLineSeen`, `LateListens` | if prompt, frames are reported once, the receiver is on, and delays are kept but for a frame received between the two statements of `idle()`; even if late, the interrupt is never lost for good and the radio listens again |
| `twoway_rounds` | 2 rounds, losses, timestamps that raise the line on their own, watchdogs in quiet times, fair | `SameRound`, `ListensAfterPoll`, `RangesAgain` | a range is never computed from two rounds, also when interrupts get lost; as long as none is, ranging goes on |
| `rtls_rounds` | 2 tags in turn, 3 anchors, 2 rounds, any frame lost | `OneExchange`, `DisplayedTogether`, `LocalizedByAll` | ranges come of one exchange; whatever reports are lost, the first and the last range shown are of one round, and those between too unless the report of anchor 2 was missed; a tag that is told it is done was ranged by all |
| `rtls_rest` | 1 tag that does not wait, 2 anchors, any loss, early timeouts, fair | `BackToRest` | tag and anchors always come back to where they start, whatever an uninitialised result says |

**Bounds of ranging.** `MaxRound` is the number of rounds told apart; later rounds count as the last one. Two rounds
are enough to see a timestamp of an old round used in a new one. Liveness does not depend on rounds, so one
is enough there. `MaxFaults` limits losses and power failures together. `BlinkLimit`, `LaterBlinkLimit` and
`InactiveAfter` keep their order (a device is dropped after less than a few blink periods) at a few ticks
instead of 20 and 25. Three anchors are the smallest number with an anchor that is neither first nor last; two
suffice where only "last or not" matters. One fault is all that `OneFaultHarmless` is about. The tables and the last anchor do not
depend on the number of faults: with `MaxFaults = 3` and two anchors they hold too, and the proofs of section 4 have
no bound on it. One tag: the library says it supports one (README.md:9); several tags are kept apart by the token.

**Bounds of the token.** Two tags are enough for exclusion and three for a token too many with a third tag
asked; a tag needs a connection, the one it has lost and one to come, hence four connections for three tags and one
loss. Two tags with three connections may both have one and the server still an old one of either. `TOKEN_TIMEOUT` (2 s) and the server's timeout (5 s) are 1 and 3 in the runs.
The delay behind an attempt is 0 or 3: less than a second, or until the server has stopped waiting. What lies between only shifts the first message within
the server's wait, and a longer delay comes when the thread has ended anyway.
The races depend on `ServerTimeout > TokenTimeout + 1`, which the module assumes by name. The UDP ring has no
numbers; with three tags a tag can register before, at and after the place of the token.

**Timing of ranging.** `TimelySpec` states what the delays are made for: replies are 7 ms apart in the order of the
list, a pass of `loop` takes less, the timer waits 40 ms + 21 ms per device and the reset 200 ms. So a frame is sent when
all nodes have seen the last one, and a tick or reset comes when the air is quiet. `OneByOneSpec` in `MCRanging`
also orders the passes of different nodes between two radio events: they touch no common variable, so
their order changes no reachable state between events. `Spec` makes no such assumption; it is far beyond TLC
even with one anchor (the search was stopped at 26 million states), and is what the proofs are about.

**Bounds of the configurations.** The values are chosen so that each table of `tune()` is entered by at least two rows and each condition of it is met and missed:
both kinds of channel (narrow and wide), rates with and without 110 kb/s, lengths with each size of the acquisition chunk. With `library = "once"` DW1000Ng is configured
with any of all its values, and once.

**Bounds of the drivers and of two-way ranging.** `DriverInterrupt` and `Radio` are finite and need none. `Rounds = 2` numbers polls modulo 2: a
frame and the one before are told apart. A mix of rounds starts with two consecutive ones, since every poll that is heard replaces the time of the one before at the responder. For liveness rounds do not matter.

**Bounds of RTLS.** Three anchors are the smallest number with an anchor that is neither primary nor last. Two
rounds are enough to mix an old range with a new one. The code has a fourth anchor, which reports like the third; the proofs are about any number.
`Alone` says that a tag wakes only when all others rest. For a lone tag a blink rate longer than a round gives that. For two tags it is a
hypothesis the code does not ensure: nothing keeps their blinks apart, and section 3.1 says what happens when they overlap. `rtls_rest` drops it, and has two anchors and one round because coming back
depends on neither who else waits nor what was measured. There the blink rate is 0, the value that leads to the branch without a result.

**Bounds of time.** Clocks of 32 and 64 ticks start at every value. Flights, replies and powers are chosen so that differences wrap in every
place, the bias is negative, zero and positive, and DX_TIME rounds. The proofs are about every period. `Delay = 8` is a multiple of `Coarse`, as the default
1500 us is a multiple of 512 ticks; `Delay = 9` is not.

**Bounds of the display.** The removal skips the entry behind the one removed, so two devices give a removal before and at the end of the table, and three addresses a device that comes
after one has gone. One address is 0, which `find_link` also gives for the head of the list. The stream holds two messages: one alone, two together, a part of one.

**Timing of the drivers.** `Prompt` is what `DW1000Ranging` relies on: the routine takes less than a frame. Interrupts stay on in the main program and may come anywhere in it. The late
processor of `driver_interrupt` shows what is left without `Prompt`.

**Fairness of ranging.** Weak fairness of each node's `loop` (an Arduino calls it forever), of the chip's transmission
of what it was given, and of the timer (`timer + _timerDelay` is always reached). No fairness of power coming back, of frames arriving
or of losses: `MaxFaults` ends them.

**Fairness of the token.** Loops and threads run. `Connected` is strongly fair: a tag that tries again and again gets a
connection. Not that it gets it early: `TokenMovesOn` assumes only that from some time on no connection is made so late that the server has stopped listening (`pause`), since two tags that always come late
are never heard; any number of late ones before that is in the run. The lock is only fair to the threads together, since `threading.Lock` makes no promise to one of
them. So that *every* tag gets the token again and again is not guaranteed and not claimed; `TokenMovesOn` says that some tag does. In
`UdpRing` the server's loop runs, tags answer, and a tag that is off comes up again; `RingAsks` claims nothing once a datagram is lost.

**Fairness of the drivers.** Of the late processor only. It serves an interrupt that is due and goes on with the main program; a transmission ends. `Idle("receive")` is strongly fair: it is what
`checkForReset` and `resetInactive` do whenever 200 ms have passed without activity, whatever else runs in between.

**Fairness of two-way ranging.** Both properties say "as long as no interrupt is lost" (`[]LineSeen`): timestamps may lose it, see below. Setup, loops and routines go on; a watchdog that is again and again due fires; a transmission that is started again and again ends. `RangesAgain` also needs that each kind of frame is heard well now
and then (`Delivered`) and that the loop of a sender is now and then quick enough to listen before the answer has passed. Both are properties of air and of speed, not of the code: without them nothing can be ranged.

**Fairness of RTLS.** Each node's program goes on (weak fairness); `Sent` is strongly fair only because `Prompt` holds the end of a frame back while another node is busy. Nothing is assumed about losses.

**Fairness of the calibration.** Ranges keep coming.

**Finding.** `ranging_lost_ack`: the anchor has no way to see that its POLL_ACK was lost, since RANGE is sent on
the last device's POLL_ACK and lists every device with the `timePollAckReceived` it last had. The comment at
DW1000Ranging.cpp:587 says "(re-)compute range as two-way ranging is done".

### 3.1 Known divergences

What the models show besides, each with the property and the constants that reproduce it. The properties are stated so that the runs above hold without them.

* *A token held while reconnecting* (`HeldBriefly`, `token_drops`). When the connection of a tag that has the token is lost, `connectToServer` blocks `loop()` for up to 100
  attempts with growing delays and `hasToken` stays set; multitag_main.ino:199 says "Token will be held at most for 2 seconds".
* *A tag that greets too late* (`ReconnectHelps`, one tag, `MaxDrops = 0`, `Pauses = {0, 3}`, `FairSpec`). `connectToServer` waits 100 ms times the number of the attempt also behind the attempt that succeeds, "small delay to buffer the request" (multitag_main.ino:310). From
  the 50th attempt on, when server or network have been away for about two minutes, that is 5 s and more, and the first `recv` of the server gives up after 5 s (multitag_tcp_server.py:25-27). It does so outside `try`, so the thread ends with its socket open. The tag sees a connection, sends its first message to
  nobody and waits for a token for ever; "if connection was dropped, reconnect" (:174) does not help, for the connection is not dropped. With a second tag the next `accept` drops it. With `Pauses = {0}` and `MaxDrops = 0`, `ReconnectHelps` holds for a lone tag.
* *Another tag that is never asked again* (`ReconnectHelps`, one tag, `MaxDrops = 1`, `Pauses = {0}`, `FairSpec`). After a reconnection with the token the tag sends its first message and, in the same pass of `loop()`, the measurements for the old
  token. If one `recv` returns both, the thread ends in `json.loads` and nobody closes the socket. If `recv` returns them one by one, the tag is one answer ahead of the server from then on, so that it still ranges when the
  next tag is asked: that is the token too many that `TokensBounded` allows.
* *One lost datagram stops the UDP ring* (`EveryoneAsked` without its condition). The timeout prints "Trying again!" (multitag_udp_server.py:52) and the lines that would try again are commented out.
* *Modes of 64 MHz with a code for 16 MHz* (`ModesGoTogether`). `enableMode` sets rate, pulse frequency and preamble length and neither channel nor preamble code; DW1000.h:319-321 promises "combinations of data rate, pulse repetition frequency, preamble and channel
  settings that properly go together". After `setDefaults`, which is what the engine calls, a mode of 64 MHz keeps code 4 of 16 MHz.
* *A delay forgotten* (`DelayedAsAsked` without `rearmed`, `driver_interrupt`). A frame that ends between the two statements of `idle()` makes the routine set `_sysctrl` to RXENAB, and `idle()` then writes that instead of TRXOFF. The receiver stays on, and the next
  frame's routine goes through `newReceive` while main prepares a transmission. `DelayedAsAsked` and the theorem about it show that there is no other way to lose a delay while the routine is quick enough.
* *An initiator that is deaf for ever* (`LineSeen` of `NgInterrupt` with `StampApart = TRUE`). `applyInterruptConfiguration` lets the timestamp raise the line. A frame that ends while the routine handles the timestamp leaves the line up, and a routine that waits for a rising edge is
  never called again. The watchdog sends POLL, but nobody calls `startReceive` any more, since that is done for `sentAck`.
* *A hasty watchdog* (`SameRound` with `EarlyReset = TRUE`). The initiator's watchdog sends a new POLL while the answer to the old one is due. POLL_ACK carries no number, so the range is computed from the times of both. Ranges of
  one round need a responder whose loop is not held up for longer than the watchdog.
* *A range that was not measured* (`AcceptedMeansRanged`). `anchorRangeAccept` returns a struct it has not written (DW1000NgRTLS.cpp:286) when the first frame is not POLL or the second one not FINAL, and the caller may take it for a range and show it. A late FINAL does it
  (`Lost <- AllLost`, `Prompt = FALSE`, `Early = TRUE`, `N = 3`), and so do two tags, without any loss or delay (`Alone = FALSE`, `Prompt = TRUE`, `Early = FALSE`): both blink, the primary answers the first, and the second BLINK reaches it while it waits for POLL. Tags that
  each blink every 200 ms come to that. No run claims that an accepted range was measured.
* *A range between two tags* (`OneExchange` with `Alone = FALSE`). The primary gives every tag the same short address (rtls_anchor_primary.ino:16). With two tags in an exchange at once, each takes the answers that are meant for the other, and an anchor computes a range from timestamps of both.
* *Ranges of two rounds on the display* (`DisplayedTogether` without `missed`). `received_B` is only reset by a report out of turn or by the last one (rtls_anchor_primary.ino:175-180). When a chain breaks after B's report and B's report of the next round is missed, C's counts as in turn, and the range of B that is
  shown with it is that of the earlier round. `DisplayedTogether` says that only a missed report of B does that, and that the ranges of the primary and of the last anchor are of one round even then.
* *A blink rate of 0* (`RateAsTold` with `BlinkRate = 0`). The tag reaches "TODO. Handle this condition?" (DW1000NgRTLS.cpp:264), returns a struct it has not written and sleeps for a time nobody gave it.
* *FINAL leaves before its time* (`SentAsWritten` of the DW1000Ng instance; `NgDelay = 9`). `transmitFinalMessage` writes the uncut time into FINAL although the radio ignores the low nine bits. The default delay of 1500 us is a multiple of 512 ticks, and it is added to a reading of SYS_TIME that is itself cut; other delays make FINAL leave
  up to 8 ns (2.4 m of light) earlier than it says.
* *Messages in a stream* (`MessagesStayApart`). The script calls what it does "UDP receive" (uwb_position2.0.py:15) and reads a TCP stream. Two messages that have come since the last `recv` are one line of invalid JSON and are thrown away.

## 4. Proofs

Every safety property and every action property the passing runs check is proved for all values of the constants. Where a theorem has hypotheses they are listed here; each is one the runs make, too, and section 3.1 says what happens without it.

### 4.1 Ranging

`RangingProofs` begins with the table of devices, for tables of any length: `searchDistantDevice` returns a place of the address or 0
(`SearchResult`); a removal or an entry keeps addresses distinct and indices equal to places
(`RemovedConsistent`, `AppendedConsistent`). These lemmas assume nothing but that setting an index yields a device.

For any finite sets of tags and anchors, any bounds and **every** interleaving (`Spec`) it then shows:

* `TypeCorrect`: `Spec => []TypeOK`. This is more than a typing exercise here: a place returned by a search
  is used to update the table, the entry of a listed anchor is taken from the frame, and a handler reads buffers
  that an interrupt fills.
* `TablesStayConsistent`: `Spec => []TablesConsistent`.
* `TimelyImplementsSpec`: `TimelySpec => Spec`, so both hold in the specification TLC checks.

`TablesConsistent` alone is not inductive. `IInv` adds the types, that both addresses of a device are those
of one node (an anchor looks for both addresses before it enters a tag, a tag for the short one only) and that the
buffers hold a frame when `_receivedAck` is set or a frame is handled (`BuffersFilled`). There is one lemma per
action; `NodeStep` collects what the handlers have in common. The proofs use `NodesAssumption` and
`BoundsAssumption` of `Ranging`, and for what follows `NoneAssumption`: no frame and no timestamp is `None`.

For one tag (`OneTag`), which is what the library supports, any number of anchors, rounds, losses and power failures, and the timing of the delays:

* `LastAnchorAlwaysMatched`: `TimelySpec => LastAnchorMatched`.
* `OneFaultAlwaysHarmless`: `TimelySpec => []OneFaultHarmless`.

Both need the one tag. In the air POLL_ACK and RANGE_REPORT name no tag, and a tag takes one that was meant for another: with two tags TLC
finds both properties violated without any fault. Rounds are told apart up to `MaxRound`, which is arbitrary; any execution has fewer than some bound.

`RoundInv` rests on two facts. A node has one frame at most that still has to take effect (`Modes`): its own, from `newTransmit` until `loop()` sees `_sentAck`, or one it has heard, until its handler has run.
And greetings and polling never mix: either every frame under way is a BLINK or RANGING_INIT (`Greeting`), which is when devices enter and leave tables, or all of them belong to the current round (`Polling`). In a round, the tag has stored the time of
its POLL or is about to (`Timed`, `Timing`), an anchor with a POLL_ACK of its own has stored when the POLL came, and one whose POLL_ACK the tag has heard has stored, or is about to store, when it left (`Answered`); all of this holds without a word
when a power failure has emptied the table. The ticks and resets of `TimelySpec` come when the air is quiet, and without that a BLINK could renew the table in the middle of a round. TLC checked `RoundInv` before it was proved, for three anchors and two faults.

`OneFaultHarmless` is a statement about all stored ranges and all anchors of the list, and needs to know more. `FaultInv` is `RoundInv` with two additions. `Knows` holds however many faults there were: an anchor that answers
has a device and power, and while nothing has gone wrong all nodes have power and every device of the tag knows the tag. `Good` holds while there was at most one fault and no lost POLL_ACK (`Harmless`): every range in a table or on its way
is proper (`Matched`), and the system is in one of four phases:

| phase | from | to | what an anchor that expects RANGE and has not failed (`Expects`) has |
|---|---|---|---|
| `Greeted` | a quiet moment without POLL | the next POLL | nothing under way but greetings; while nothing has gone wrong no anchor expects RANGE |
| `Asking` | POLL is prepared | the tag handles the POLL_ACK of the last device | a POLL to handle, a POLL_ACK to send, or one the tag has noted or is about to (`Asked`); POLL_ACKs are due in the order of the list |
| `Telling` | RANGE is prepared | the air is quiet | a RANGE, yet to be sent or handled, that tells it the times of this round (`Told`) |
| `Aborted` | the tag loses power while it asks | the air is quiet | only POLL and POLL_ACK are under way, and no tag to hear them |

The argument turns on `Clean`: *while nothing has gone wrong* no anchor expects RANGE between two rounds (`QuietClean`), since the last POLL_ACK has come, the RANGE with it, and every anchor that was asked was listed. So when the one fault is that an anchor misses a POLL, it
expects nothing and refuses the RANGE (`TxPollSent`); when it misses the RANGE, the fault is spent and the next POLL reaches it. A lost POLL_ACK is the exception because the anchor then expects a RANGE that carries an old time for it. That the POLL_ACK of the last
device comes after all others (`TxAckSent`) is the ordering of the reply delays by the place in the list, which is a hypothesis of `TimelySpec` (`Earliest`), not a matter of the code's checks. `OneTag` and `TimelySpec` are the hypotheses of both theorems.
TLC checked `FaultInv` before it was proved, for two anchors and two faults and for three anchors and one.

### 4.2 Tokens

`TokenProofs` shows for any set of tags, any number of connections and any timeouts that satisfy `TimeoutAssumption`:

* `TypeCorrect`: `Spec => []TypeOK`.
* `MutualExclusion`: `Spec => []OneAtATime`.
* `ImplementsAbstractToken`: if `MaxDrops = 0` then `Spec => ImplementsToken`, under `NoTagAssumption`.
* `LossesBound`: `Spec => []TokensBounded`, for any number of connections lost.

`OneAtATime` is not inductive. `IInv` adds `Ownership` (the lock is with the thread that has asked; no two tags have the same connection) and,
until a connection is lost, `Orderly`: the connection of a tag carries nothing while the tag still waits before its first message, and then exactly one of hello, request, token and
answer, or none while its thread waits for the lock (`Turn`, `Message`); if the thread has ended, and it may have ended before the first message came, the tag has no token and none is on its way. `Message` also relates the time a token is held to the time the thread has
waited, and that is where `TimeoutAssumption` is needed: the thread never gives up on a tag that still has the token.

`TokensBounded` counts, and what it counts does not stay with the tags: a question may be under way on a connection that is alive while the
tag still has the token of one that is lost. `LossInv` adds to `IInv` what is true of the connections that are alive however many are lost (`Alive`)
and `Budget`: the set `Units` of everything that is a token or may become one has at most as many elements as connections were lost, and one more while the lock is with a connection that is alive.
Each step adds at most one unit and pays for it, which is shown by lemmas on how the set grows and not by arithmetic on sums.

`UdpRingProofs` shows `RequestsBound`: `Spec => []RangingBounded`, by the same argument: `Tokens` is the set of tags that range, requests under way and packets the server will take for an answer, and
`RingInv` says that it has at most one element more than there were restarts, and none before the first registration.

### 4.3 Displays

`UdpRingProofs` also shows of the tag with the outdoor display and the script that draws, for any addresses, anchors, ranges and messages:

* `ListFollows`: `EachSpec => []LinksFollowDevices`. `DisplayInv` adds the types, that no address is twice in the table and, for the scan, that its index
  stays within a table which shrinks under it. The lemma behind it (`Without`) says what a sequence without one place contains.
* `PositionsFromOneMessage`: `EachSpec => DrawnFromOneMessage`, an action property; `DisplayInv` says of each message that has been sent that it names an anchor once (but for address 0, which stands for no anchor), since the count of
  anchors that `ReadData` takes is of entries.

`EachSpec` is the specification of the MC module, in which one of two programs runs; the theorem is about the one with the variables named.

### 4.4 Configuration

`ConfigurationProofs` shows for any sets of rates, lengths, channels, codes and delays that satisfy `ValuesAssumption`, and any order of calls, of `DW1000.cpp`:

* `ConfigurationTypes`: `Spec => []TypeOK`; `TunedAlways`: `Spec => []TunedForRegisters`; `DelayAlways`: `Spec => []AntennaDelayApplied`; `ModesAlwaysTuned`: `Spec => []ModesTuned`.

`TunedForRegisters` looks at a committed chip only and is not inductive. `IInv` adds, for every phase from `open` on, that the settings are those the copies of the registers stand for (`Agree`), that
the copies are those of the chip when nothing is open, and that a chip after a reset is what `select` leaves. This is where `setDefaults` in the phase `fresh` matters: before it, settings and copies do not agree.

and of `DW1000Ng.cpp`, for any set of configurations and delays under `NgAssumption`, with sleeps and restarts in any order:

* `NgTunedAlways` (`NgTuned`), `CodeAlwaysValid` (`CodeValid`), `PowerAlwaysFollows` (`PowerFollows`), `KeptAlways` (`KeptOverSleep`), `CopiesAlways` (`CopiesCurrent`), each as `EitherSpec => []...`.

`NgInv` is one invariant for all five: settings and copies say the same (`Linked`), the chip is tuned for the settings with the delimiter, power and pulse generator that go with them (`Tuned`, `ByHand`), and until the driver is initialised again after a restart of the
controller its variables are those it starts with (`AsStarted`). The choice of the receive buffers is the one copy that may be ahead of the chip.

### 4.5 Drivers and two-way ranging

`DriverInterruptProofs` shows for any mask and with or without automatic reenabling, for every interleaving:

* `DriverTypes`: `Spec => []TypeOK`; `LineAlwaysSeen`: `Spec => []LineSeen`; `LateLineAlwaysSeen`: `EachSpec => []LateLineSeen`, the same for the late processor of the MC module.

under `Prompt`, with interrupts between any two statements of the main program:

* `DelayedAlways`: `Spec => DelayedAsAsked`;

and under `Prompt`, `AutoReenable` and a mask with `"good"`:

* `ReportedAlways`: `Spec => []ReportedOnce`; `NeverDeaf`: `Spec => []NotDeaf`.

`UInv` says what each place of the main program has prepared in `_sysctrl` and `_deviceMode` (`Untouched`), unless the routine went on listening inside the last `idle()` (`rearmed`); from the write of TRXOFF to the start of the transmission the chip
is idle then, so no interrupt can come. `PInv` adds what a frame that was not reported still has in the chip and in the copy (`Kept`), and in which mode the chip is while main is in its loop (`Ears`).

`TwoWayRangingProofs` shows `RangesOfOneRound`: `Spec => []SameRound` if `~EarlyReset`, for any number of rounds, with or without `StampApart` and automatic reenabling.
`TwoWayInv` says what one node does: it sends, or has a frame the loop has not read, or will be told that its frame has left, and never two of these (`OneThing`), even though the routine works on a copy of the status
(`Copied`). `InTurn` says that never both nodes have something to say. `Frames` and `Acknowledges` then tie the frame on its way, the buffers and the times of the responder to the last poll. The
round in `Frames` is that of the last poll even when it never arrived, since POLL_ACK carries no number; the proof works because no watchdog fires between a poll and its answer.
The assumption `SketchAssumption` names the two nodes and the interrupts both sketches ask for.

### 4.6 Time and calibration

`RangeTimingProofs` shows for any period, granularity, delay and bias table under `TimingAssumption`, a hypothesis of each theorem, for `DW1000Ranging` (`~Ng`):

* `OldTypeOK`: `Spec => []TypeOK`; `OldRangeExact`: `Spec => []RangeExact`; `OldSentAsWritten`: `Spec => []SentAsWritten`.

`IInv` relates every timestamp taken so far to the two clocks (`Polled`, `Answered(d)`) and bounds them; the lemmas are about `%`: that `Wrap` of a difference of two readings is the time between them, and that
cutting to a divisor of the period commutes with wrapping.

For DW1000Ng it shows `NgRangeIsExact`: `EachSpec => []NgRangeExact` if `NgDelay % Coarse = 0`, as the delay of the sketches is (`NgDelay = 9` is a known divergence). Readings have 40 bits, those in FINAL 32 and any fifth byte, and differences 32, so
`NgInv` says of two times that they are `Alike`: equal but for whole periods of the shorter counter.

`FinalIsClose` (`EachSpec => []FinalClose`) is about the search for the antenna delay, for any start, step, right delay and noise under the assumption of the instance. The invariant says that the delay is at most a step and the
noise away from the right one after the first change of sign, and has not passed it before.

### 4.7 RTLS

`RTLSProofs` shows, for any number of anchors and tags, any rounds and blink rate and any frames that may get lost, under
`Undisturbed` (loops faster than frames, one tag awake at a time, no timeout early):

* `RangesOfOneExchange`: `Spec => []OneExchange`; `ShownTogether`: `Spec => DisplayedTogether`; `FinishedMeansAll`: `Spec => LocalizedByAll`.

None of them is inductive: that the flags of the primary belong to one round follows only from where every node is. `RTLSInv` says that there is a number `m` of anchors that have ranged the tag that is awake, a number `p` of the last that
has reported, and a round `id` such that the nodes are in `Session(m, p, id)`: anchors before `m` are `Done`, the `m`th may still be about to compute its range (`Ready`), those after `m + 1` rest, and tag and anchor `m + 1` are in one of the stages of an exchange or
have lost each other. The uninitialised results of section 2.6 are in the model and the proof shows that they are not reached; without `Undisturbed` they are (section 3.1).

### 4.8 Only model-checked

The liveness properties (`RangedAgain`, `TokenMovesOn`, `RingAsks`, `LateListens`, `ListensAfterPoll`, `RangesAgain`, `BackToRest`, `Ends`), which are out of the prover's reach.

No module declares a RECURSIVE operator.

## 5. Plan

Done: the ranging engine and its table, the token over TCP and over UDP, the configuration of both drivers, the interrupt routines of both drivers, two-way ranging of the examples, the RTLS
exchanges, the arithmetic of time, the calibration, the outdoor display; the proofs of section 4.

What could follow, in this order:

1. An abstract radio that `Ranging` assumes and that `DriverInterrupt` implements while it is prompt.
2. Ranging with two tags, as without the token.

## 6. Not modelled

* Numbers in floating point: metres, `correctRange`, the range filter, signal power and quality, the trilateration.
* SPI transactions, the byte layout of registers, the one time programmable memory and crystal trim, diagnostics and
  the SPI clock. A transaction is one step; that an interrupt may fall into one (`SPI.usingInterrupt` is commented out, DW1000.cpp:172-177) is listed as a hazard without a property.
* Lengths of frames and of `_networkDevices` in bytes; the instances have fewer devices than `MAX_DEVICES`.
* Overflow of the products in `computeRangeAsymmetric`, for rounds of 47 ms and more.
* The range of a blink rate in its 16 bit field, and how an unfair `threading.Lock` may favour one tag.
* WiFi, JSON as text, drawing, what sketches print; `udp_server.py`, which prints what it receives.
* `anchor_display.ino` and the small examples of DW1000Ng (sender, receiver, connectivity test, power and delay calibration): a straight
  line of calls to the driver without state of their own.
* Build options (`DW1000CompileOptions.h`, `require_cpp11.h`, `deprecated.h` and their counterparts).
