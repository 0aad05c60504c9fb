----------------------------- MODULE MCRanging -----------------------------
(***************************************************************************)
(* Instances of Ranging for TLC.  Between two events of the radio the      *)
(* nodes' passes of loop() touch no common state, so their order does not  *)
(* matter: they are taken one node after the other.                        *)
(***************************************************************************)
EXTENDS RangingProperties, TLC

Turn == CHOOSE n \in Node : ~Idle(n)

OneByOneNext ==
  \/ ~AllIdle /\ TimelyLoop(Turn)
  \/ \E n \in Node : TimelyTx(n) \/ Power(n)
  \/ \E t \in Tags : TimelyTick(t)
  \/ \E a \in Anchors : TimelyReset(a)

OneByOneSpec == Init /\ [][OneByOneNext]_vars

AnchorSymmetry == Permutations(Anchors)
============================================================================
