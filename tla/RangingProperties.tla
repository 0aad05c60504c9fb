-------------------------- MODULE RangingProperties --------------------------
(***************************************************************************)
(* What Ranging is supposed to guarantee.                                  *)
(***************************************************************************)
EXTENDS Ranging

\* Every variable keeps its type: flags, labels, tables of devices, frames.
TypeOK ==
  /\ pc \in [Node -> Control]
  /\ scan \in [Node -> Nat \ {0}]
  /\ sentAck \in [Node -> BOOLEAN] /\ receivedAck \in [Node -> BOOLEAN]
  /\ data \in [Node -> MaybeFrame]
  /\ expected \in [Node -> MessageType]
  /\ failed \in [Node -> BOOLEAN]
  /\ lastSent \in [Node -> Node \cup {None, Broadcast}]
  /\ reply \in [Node -> Nat]
  /\ dev \in [Node -> Seq(Device)]
  /\ blinkCount \in [Tags -> Nat] /\ blinkLimit \in [Tags -> Nat]
  /\ tx \in [Node -> MaybeFrame] /\ rx \in [Node -> MaybeFrame]
  /\ lastTx \in [Node -> MaybeStamp]
  /\ round \in [Tags -> 0..MaxRound]
  /\ down \subseteq Node
  /\ faults \in 0..MaxFaults
  /\ ackLost \in BOOLEAN

\* No table lists a short address twice and the index of every device is its
\* place: searchDistantDevice finds the one device of an address and the tag
\* recognises the last device of its table (DW1000Ranging.cpp:653).
TablesConsistent ==
  \A n \in Node : ShortAddressesDistinct(dev[n]) /\ IndexIsPlace(dev[n])

\* Every range that is stored was computed from the two ends of one POLL, one
\* POLL_ACK and one RANGE, and is the range of the tag that stores it.
RangesMatched ==
  /\ \A n \in Node : \A i \in 1..Len(dev[n]) :
       dev[n][i].range # None => dev[n][i].range.matched
  /\ \A t \in Tags : \A i \in 1..Len(dev[t]) :
       dev[t][i].range # None => dev[t][i].range.tag = t

\* The checks of _expectedMsgId and _protocolFailed do their work: any one fault
\* -- a lost POLL, RANGE, RANGE_REPORT, RANGE_FAILED, BLINK or RANGING_INIT, a
\* node that restarts or stays off -- never makes an anchor compute a range from
\* timestamps that do not belong together.  Only a lost POLL_ACK does.
OneFaultHarmless == faults <= 1 /\ ~ackLost => RangesMatched

\* The device a tag lists last is always ranged on matching timestamps, however
\* many frames are lost and nodes restarted: RANGE is only sent on its POLL_ACK
\* of this round (DW1000Ranging.cpp:653-657).
LastAnchorMatched ==
  [][\A a \in Anchors :
       AnchorRange(a) /\ data[a].list[Len(data[a].list)].short = a
         => tx'[a].range.matched]_vars

\* While a tag and an anchor have power, the tag keeps getting ranges from the
\* anchor, whatever happened before: a lost last POLL_ACK is made up for by the
\* timer, an anchor that restarted learns of the tag from the next BLINK, and
\* an anchor that stays off leaves the table, so that another one is the last.
RangedAgain ==
  \A t \in Tags : \A a \in Anchors :
    <>[]({t, a} \cap down = {})
      => []<><<TagRangeReport(t) /\ Source(data[t]) = a>>_vars
==============================================================================
