------------------------- MODULE UdpRingProperties -------------------------
(***************************************************************************)
(* What the UDP servers guarantee, and what they only say.                 *)
(***************************************************************************)
EXTENDS UdpRing, FiniteSets

Ranging == {t \in Tags : tag[t] = "ranging"}

\* One tag ranges at a time, as long as none restarts: the first packet of a tag
\* hands on no token, whenever it comes.  The first packet of a tag that restarts
\* is taken for an answer and adds at most one token.
RangingBounded == Cardinality({t \in Tags : tag[t] = "ranging"}) <= 1 + restarts

\* As long as no datagram is lost, every tag is asked again and again, also when
\* tags register late or restart (multitag_udp_server.py:52). One lost datagram ends
\* the ring for ever: nothing in the server asks again.
EveryoneAsked == [](losses = 0) => \A t \in Tags : []<>(requests[t] > 0)
============================================================================
