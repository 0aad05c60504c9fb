---- MODULE OutdoorDisplayProperties ----
(* What the display and the plot of the outdoor positioning promise. *)
EXTENDS OutdoorDisplay

Shows(i, k) == links[i].anchor_addr = devices[k].short /\ devices[k].short # 0

\* The list shows the devices in range, each once and in the order of the table,
\* although it is only changed by the handlers and tests no address itself. An
\* anchor with the address 0 is the exception: delete_link does not take it
\* (link.cpp:127).
LinksFollowDevices ==
  /\ \A k \in 1..Len(devices) : devices[k].short # 0 => \E i \in 1..Len(links) : Shows(i, k)
  /\ \A i \in 1..Len(links) :
       links[i].anchor_addr # 0 => \E k \in 1..Len(devices) : Shows(i, k)
  /\ \A i, j \in 1..Len(links), k, l \in 1..Len(devices) :
       Shows(i, k) /\ Shows(j, l) => (i < j <=> k < l)

\* A position is drawn from one message that has both anchors, never from the range
\* of one and an older range of the other (uwb_position2.0.py:211).
DrawnFromOneMessage ==
  [][tag' # tag =>
       LET list == stream[1].links IN
       \E i, j \in 1..Len(list) : /\ list[i].A = Anchor1 /\ list[j].A = Anchor2
                                  /\ tag' = <<list[j].R, list[i].R>>]_vars

\* What is received is what was sent, one message after another: the script calls it
\* "UDP receive" (uwb_position2.0.py:15).
MessagesStayApart ==
  [][Len(stream') < Len(stream) => stream[1].whole /\ stream' = Tail(stream)]_vars
====
