---- MODULE LinkList ----
(* link.cpp: what the tag with a display keeps of the anchors in range, a    *)
(* list in the order in which they were added. The head of the list holds no *)
(* anchor and is left out.                                                   *)
EXTENDS Integers, Sequences

NewLink(addr) == [anchor_addr |-> addr, range |-> <<0, 0, 0>>]

\* There is no test whether the address is already in the list.
add_link(links, addr) == Append(links, NewLink(addr))

\* The place of the first link with the address; 0 for NULL.
find_link(links, addr) ==
  IF addr # 0 /\ \E i \in 1..Len(links) : links[i].anchor_addr = addr
  THEN CHOOSE i \in 1..Len(links) :
         /\ links[i].anchor_addr = addr
         /\ \A j \in 1..(i - 1) : links[j].anchor_addr # addr
  ELSE 0

\* A new range counts for a third, as do the last two that were shown.
Smoothed(range, r) == <<(r + range[1] + range[2]) \div 3, range[1], range[2]>>

fresh_link(links, addr, r) ==
  LET i == find_link(links, addr) IN
  IF i = 0 THEN links ELSE [links EXCEPT ![i].range = Smoothed(@, r)]

delete_link(links, addr) ==
  LET i == find_link(links, addr) IN
  IF i = 0 THEN links ELSE SubSeq(links, 1, i - 1) \o SubSeq(links, i + 1, Len(links))

\* What make_link_json prints of the list.
make_link_json(links) ==
  [i \in 1..Len(links) |-> [A |-> links[i].anchor_addr, R |-> links[i].range[1]]]
====
