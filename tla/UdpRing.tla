------------------------------ MODULE UdpRing ------------------------------
(***************************************************************************)
(* The ring of multitag_udp_server.py (and multitag_control_server.py, the *)
(* same program): the packet of a tag makes the server ask the tag that    *)
(* registered after it.                                                    *)
(*                                                                         *)
(* The tags' side over UDP is taken from what the server expects: a packet *)
(* at the start, which registers the tag, and one for every request.       *)
(***************************************************************************)
EXTENDS Integers, Sequences

CONSTANTS
  Tags,
  MaxLosses,    \* bound: datagrams lost
  MaxRestarts   \* bound: tags that restart

ASSUME UdpAssumption == MaxLosses \in Nat /\ MaxRestarts \in Nat

VARIABLES
  tag,        \* what each tag does
  requests,   \* requests under way to a tag
  packets,    \* packets under way from a tag; a first one looks like any other
  table,      \* tag_address, in the order of its keys
  losses, restarts

vars == <<tag, requests, packets, table, losses, restarts>>

TagState == {"off", "idle", "ranging"}

Init ==
  /\ tag = [t \in Tags |-> "off"]
  /\ requests = [t \in Tags |-> 0] /\ packets = [t \in Tags |-> 0]
  /\ table = <<>>
  /\ losses = 0 /\ restarts = 0
----------------------------------------------------------------------------
\* The server.

Known(t) == \E i \in DOMAIN table : table[i] = t

\* Mutant of get_next_key: no way back to the first key.
NextKeyWithoutModulo(t) ==
  LET i == CHOOSE i \in DOMAIN table : table[i] = t
  IN  IF i < Len(table) THEN table[i + 1] ELSE t

get_next_key(t) ==
  LET i == CHOOSE i \in DOMAIN table : table[i] = t
  IN  table[(i % Len(table)) + 1]

Request(t) == requests' = [requests EXCEPT ![t] = @ + 1]

\* Mutant of Register: every new tag is asked.
RegisterAndAsk(t) ==
  /\ ~Known(t)
  /\ table' = Append(table, t)
  /\ Request(t)

\* The first tag is asked, the others wait for their turn.
Register(t) ==
  /\ ~Known(t)
  /\ table' = Append(table, t)
  /\ IF table = <<>> THEN Request(t) ELSE UNCHANGED requests

PassOn(t) ==
  /\ Known(t)
  /\ Request(get_next_key(t))
  /\ UNCHANGED table

\* A turn of the server's loop; the timeout of recvfrom changes nothing.
Receive(t) ==
  /\ packets[t] > 0
  /\ packets' = [packets EXCEPT ![t] = @ - 1]
  /\ Register(t) \/ PassOn(t)
  /\ UNCHANGED <<tag, losses, restarts>>
----------------------------------------------------------------------------
\* The tags and the network.

Boot(t) ==
  /\ tag[t] = "off"
  /\ tag' = [tag EXCEPT ![t] = "idle"]
  /\ packets' = [packets EXCEPT ![t] = @ + 1]
  /\ UNCHANGED <<requests, table, losses, restarts>>

\* A second request while the tag is ranging makes no difference to it.
TakeRequest(t) ==
  /\ tag[t] # "off" /\ requests[t] > 0
  /\ requests' = [requests EXCEPT ![t] = @ - 1]
  /\ tag' = [tag EXCEPT ![t] = "ranging"]
  /\ UNCHANGED <<packets, table, losses, restarts>>

SendMeasurements(t) ==
  /\ tag[t] = "ranging"
  /\ tag' = [tag EXCEPT ![t] = "idle"]
  /\ packets' = [packets EXCEPT ![t] = @ + 1]
  /\ UNCHANGED <<requests, table, losses, restarts>>

Restart(t) ==
  /\ restarts < MaxRestarts /\ tag[t] # "off"
  /\ tag' = [tag EXCEPT ![t] = "off"]
  /\ restarts' = restarts + 1
  /\ UNCHANGED <<requests, packets, table, losses>>

\* A request comes while the tag is off.
Miss(t) ==
  /\ tag[t] = "off" /\ requests[t] > 0
  /\ requests' = [requests EXCEPT ![t] = @ - 1]
  /\ UNCHANGED <<tag, packets, table, losses, restarts>>

Lose(t) ==
  /\ losses < MaxLosses
  /\ \/ requests[t] > 0 /\ requests' = [requests EXCEPT ![t] = @ - 1] /\ UNCHANGED packets
     \/ packets[t] > 0 /\ packets' = [packets EXCEPT ![t] = @ - 1] /\ UNCHANGED requests
  /\ losses' = losses + 1
  /\ UNCHANGED <<tag, table, restarts>>
----------------------------------------------------------------------------
Next ==
  \E t \in Tags :
    \/ Receive(t) \/ Boot(t) \/ TakeRequest(t) \/ SendMeasurements(t)
    \/ Restart(t) \/ Miss(t) \/ Lose(t)

Spec == Init /\ [][Next]_vars

\* The server's loop runs, tags answer, and a tag that restarts comes up again.
Fairness ==
  \A t \in Tags : /\ WF_vars(Receive(t)) /\ WF_vars(Boot(t))
                  /\ WF_vars(TakeRequest(t)) /\ WF_vars(SendMeasurements(t))

FairSpec == Spec /\ Fairness
============================================================================
