-------------------------- MODULE TokenProperties --------------------------
(***************************************************************************)
(* What the token is for.                                                  *)
(***************************************************************************)
EXTENDS TokenServer

CONSTANT NoTag  \* nobody has the token

ASSUME NoTagAssumption == NoTag \notin Tags

TypeOK ==
  /\ mode \in [Tags -> Mode] /\ pause \in [Tags -> Nat]
  /\ socket \in [Tags -> Connection \cup {0}]
  /\ token \in [Tags -> BOOLEAN] /\ held \in [Tags -> 0..HeldBound]
  /\ broken \in [Connection -> BOOLEAN]
  /\ toTag \in [Connection -> Nat] /\ toServer \in [Connection -> Nat]
  /\ thread \in [Connection -> Thread] /\ waiting \in [Connection -> 0..ServerTimeout]
  /\ lock \in Connection \cup {0} /\ latest \in Connection \cup {0}
  /\ drops \in 0..MaxDrops /\ restarts \in 0..MaxRestarts

Holders == {t \in Tags : token[t]}

\* Without a lost connection two tags never range at the same time, and nobody
\* else is asked before the tag's answer is read -- also when tags restart.
OneAtATime ==
  drops = 0 =>
    \A t \in Holders : /\ Live(t) /\ lock = socket[t]
                       /\ \A s \in Holders : s = t

\* A connection lost under a running tag brings at most one token too many.
TokensBounded == Cardinality(Holders) <= 1 + drops

\* "Token will be held at most for 2 seconds" (multitag_main.ino:199).
HeldBriefly == \A t \in Holders : held[t] <= TokenTimeout + 1

\* "if connection was dropped, reconnect" (multitag_main.ino:174): a tag with a
\* new connection is asked in the end, unless that connection is lost as well.
ReconnectHelps ==
  \A t \in Tags : (mode[t] = "pass" /\ Live(t)) ~> (TokenArrived(t) \/ ~Live(t))

\* Without a lost connection tags and server implement the token: a tag takes it
\* only after the one that had it has given it back or restarted.
Holder == IF Holders = {} THEN NoTag ELSE CHOOSE t \in Holders : TRUE
Abstract == INSTANCE Token WITH holder <- Holder
ImplementsToken == Abstract!Spec

\* Whatever happens, some of two or more tags takes the token later.  Only if tags
\* connect again and again so late that the server has stopped listening to them
\* (multitag_main.ino:310, multitag_tcp_server.py:25-27) can it stop moving: one
\* tag that nobody asks any more loses its connection when the other one connects.
TokenMovesOn ==
  <>[](\A t \in Tags : pause[t] < ServerTimeout)
    => []<><<\E t \in Tags : TakeToken(t)>>_vars
============================================================================
