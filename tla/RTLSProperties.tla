---- MODULE RTLSProperties ----
(* What the exchanges of RTLS promise. *)
EXTENDS RTLS

\* An anchor that has accepted a range has one: no result is taken from memory
\* that anchorRangeAccept did not write (DW1000NgRTLS.cpp:286). The code does not
\* ensure it, with a late FINAL or with a second tag's BLINK in place of POLL.
AcceptedMeansRanged == \A a \in Anchors: range[a] \cap Unknown = {}

\* A tag blinks at the rate it started with or the one the infrastructure gave it
\* (DW1000NgRTLS.hpp:118); rates below 16384 ms are sent as they are.
RateAsTold == \A t \in Tags: blinkRate[t] \in {200, BlinkRate}

\* The time stamps of a range are all of one exchange with one tag.
OneExchange == \A a \in Anchors: Cardinality(range[a]) <= 1

\* Whatever frames are lost, reports among them, the primary shows its own range next
\* to one that the last anchor measured in the same round, and those between are of
\* this round too unless the report of anchor 2 was missed in it: only that report can
\* tell that the anchors before it start over (received_B, rtls_anchor_primary.ino:178).
DisplayedTogether ==
  [][display' # display =>
       /\ display'[1] = display'[N]
       /\ missed \/ Cardinality(UNION {display'[a]: a \in Anchors}) <= 1]_vars

\* A tag that ends a localization and takes the new blink rate has been ranged
\* by every anchor in this very round (one may be about to compute its range).
LocalizedByAll == [][\A t \in Tags: Got(t, "final") /\ pc'[t] = "asleep" /\ inbox[t].kind = "FINISHED" =>
                       \A a \in Anchors: {Now(t)} = IF pc[a] = "confirming" THEN {inbox[a].pollSent} ELSE range[a]]_vars

\* Every tag gets back to where it blinks again and every anchor to the root of its
\* loop, again and again, whatever frames are lost and whatever of them an anchor
\* hears (DW1000NgRTLS.cpp:304, rtls_tag.ino:218).
BackToRest == (\A t \in Tags: []<>(pc[t] = "asleep")) /\ (\A a \in Anchors: []<>(pc[a] = Root(a)))

====
