---- MODULE OutdoorDisplay ----
(* OutdoorPositioning_display: the tag keeps a link for each device of       *)
(* DW1000Ranging and sends the list over TCP; a script on a computer reads   *)
(* the stream and draws the tag when both anchors are in a message.          *)
EXTENDS Integers, Sequences, FiniteSets, DeviceTable, LinkList

CONSTANTS
  Addresses,             \* short addresses of the anchors around
  Ranges,                \* ranges that anchors report
  Anchor1, Anchor2,      \* ANCHOR_ID_1, AHCHOR_ID_2
  MaxDevices,            \* bound: devices in range
  MaxLinks,              \* bound: links in the list
  MaxStream              \* bound: messages in the stream

ShortAddress == 0..65535   \* a uint16_t

\* What the constants have to be.
DisplayAssumption ==
  /\ Addresses \subseteq ShortAddress /\ Ranges \subseteq Int
  /\ {Anchor1, Anchor2} \subseteq ShortAddress \ {0} /\ Anchor1 # Anchor2
  /\ MaxDevices \in Nat /\ MaxLinks \in Nat /\ MaxStream \in Nat

VARIABLES
  devices,       \* _networkDevices
  scan,          \* the place checkForInactiveDevices is at, or 0
  links,         \* uwb_data
  connected,     \* client
  stream,        \* messages on their way; whole unless a part has been read
  a1_range, a2_range,
  tag            \* the two ranges the drawn position comes from, or none

tagVars == <<devices, scan, links>>
plotVars == <<a1_range, a2_range, tag>>
vars == <<tagVars, connected, stream, plotVars>>

None == <<>>

Device(addr) == [short |-> addr, eui |-> 0, index |-> 0]

Init ==
  /\ devices = <<>> /\ scan = 0 /\ links = <<>>
  /\ connected \in BOOLEAN /\ stream = <<>>
  /\ a1_range = 0 /\ a2_range = 0 /\ tag = None

----
(* The tag: loop() of DW1000Ranging with the handlers of the sketch *)

RangingInit(addr) ==
  /\ scan = 0
  /\ IF KnownShort(devices, Device(addr))
     THEN UNCHANGED <<devices, links>>
     ELSE /\ Len(devices) < MaxDevices /\ Len(links) < MaxLinks
          /\ devices' = Appended(devices, Device(addr))
          /\ links' = add_link(links, addr)          \* newDevice
  /\ UNCHANGED <<scan, connected, stream, plotVars>>

RangeReport(addr, r) ==
  /\ scan = 0 /\ searchDistantDevice(devices, addr) # 0
  /\ links' = fresh_link(links, addr, r)             \* newRange
  /\ UNCHANGED <<devices, scan, connected, stream, plotVars>>

\* timerTick comes to checkForInactiveDevices.
StartScan ==
  /\ scan = 0 /\ devices # <<>> /\ scan' = 1
  /\ UNCHANGED <<devices, links, connected, stream, plotVars>>

\* Mutant of CheckDevice: the handler is called after the device was removed.
CheckDeviceLate ==
  /\ scan # 0
  /\ \/ /\ devices' = removeNetworkDevices(devices, scan)
        /\ links' = delete_link(links, IF scan < Len(devices) THEN devices'[scan].short
                                       ELSE devices[scan].short)
     \/ UNCHANGED <<devices, links>>
  /\ scan' = IF scan < Len(devices') THEN scan + 1 ELSE 0
  /\ UNCHANGED <<connected, stream, plotVars>>

\* One turn of its loop: the device has been inactive for a second or not. The one
\* that takes the place of a removed device is not looked at this time.
CheckDevice ==
  /\ scan # 0
  /\ \/ /\ links' = delete_link(links, devices[scan].short)    \* inactiveDevice
        /\ devices' = removeNetworkDevices(devices, scan)
     \/ UNCHANGED <<devices, links>>
  /\ scan' = IF scan < Len(devices') THEN scan + 1 ELSE 0
  /\ UNCHANGED <<connected, stream, plotVars>>

\* A second has passed: make_link_json, send_udp.
Publish ==
  /\ scan = 0 /\ connected /\ Len(stream) < MaxStream
  /\ stream' = Append(stream, [links |-> make_link_json(links), whole |-> TRUE])
  /\ UNCHANGED <<tagVars, connected, plotVars>>

\* The connection is never made again.
Disconnect ==
  /\ connected /\ connected' = FALSE
  /\ UNCHANGED <<tagVars, stream, plotVars>>

----
(* The script *)

\* recv returns some of what has come: n messages, and the next one in part. One
\* whole message parses; anything else is printed and counts as an empty list.
ReadTo(n, cut) ==
  LET rest == SubSeq(stream, n + 1, Len(stream)) IN
  IF cut THEN [rest EXCEPT ![1].whole = FALSE] ELSE rest
Parsed(n, cut) == IF n = 1 /\ ~cut /\ stream[1].whole THEN stream[1].links ELSE <<>>

\* float(one["R"]) of the last entry of an anchor.
RangeOf(list, anchor, old) ==
  IF \E i \in 1..Len(list) : list[i].A = anchor
  THEN list[CHOOSE i \in 1..Len(list) : /\ list[i].A = anchor
                                        /\ \A j \in (i + 1)..Len(list) : list[j].A # anchor].R
  ELSE old

\* Mutant of NodeCount: anchors whose range is known from earlier messages count.
NodeCountKept(list) ==
  (IF RangeOf(list, Anchor1, a1_range) # 0 THEN 1 ELSE 0) + (IF RangeOf(list, Anchor2, a2_range) # 0 THEN 1 ELSE 0)

\* node_count: entries of the list that are one of the two anchors.
Entries(list, anchor) == {i \in 1..Len(list) : list[i].A = anchor}
NodeCount(list) == Cardinality(Entries(list, Anchor1) \cup Entries(list, Anchor2))

\* tag_pos fails for a negative range and for a distance of 0 to the first anchor.
HasPosition(a, b) == a >= 0 /\ b > 0

ReadData ==
  /\ \E n \in 0..Len(stream), cut \in BOOLEAN :
       LET list == Parsed(n, cut)
           a1 == RangeOf(list, Anchor1, a1_range)
           a2 == RangeOf(list, Anchor2, a2_range) IN
       /\ cut => n < Len(stream)
       /\ n > 0 \/ cut \/ ~connected       \* recv waits unless the stream has ended
       /\ stream' = ReadTo(n, cut)
       /\ a1_range' = a1 /\ a2_range' = a2
       /\ tag' = IF NodeCount(list) = 2 /\ HasPosition(a2, a1) THEN <<a2, a1>> ELSE tag
  /\ UNCHANGED <<tagVars, connected>>

Next ==
  \/ \E addr \in Addresses : RangingInit(addr) \/ (\E r \in Ranges : RangeReport(addr, r))
  \/ StartScan \/ CheckDevice \/ Publish \/ Disconnect \/ ReadData

Spec == Init /\ [][Next]_vars
====
