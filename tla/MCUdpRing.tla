---- MODULE MCUdpRing ----
(* Instances of UdpRing and OutdoorDisplay for TLC. The two are different    *)
(* uses of the tags and never run together: the variables of the other one   *)
(* stay as they start.                                                       *)
EXTENDS UdpRingProperties

CONSTANTS Addresses, Ranges, Anchor1, Anchor2, MaxDevices, MaxLinks, MaxStream

VARIABLES use, devices, scan, links, connected, stream, a1_range, a2_range, drawn

Display == INSTANCE OutdoorDisplayProperties WITH tag <- drawn

ASSUME DisplayValues == Display!DisplayAssumption

displayVars == <<devices, scan, links, connected, stream, a1_range, a2_range, drawn>>

EachInit == use \in {"ring", "display"} /\ Init /\ Display!Init
RingStep == use = "ring" /\ Next /\ UNCHANGED <<use, displayVars>>
DisplayStep == use = "display" /\ Display!Next /\ UNCHANGED <<use, vars>>
EachSpec == EachInit /\ [][RingStep \/ DisplayStep]_<<use, vars, displayVars>> /\ Fairness

\* Every tag is asked again and again in the ring (multitag_udp_server.py:52).
RingAsks == use = "ring" => EveryoneAsked

\* The list that is shown has the devices of the table, in its order (link.cpp:20).
LinksFollowDevices == Display!LinksFollowDevices

\* A position is drawn from one message (uwb_position2.0.py:211).
DrawnFromOneMessage == Display!DrawnFromOneMessage
====
