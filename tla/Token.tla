------------------------------- MODULE Token -------------------------------
(***************************************************************************)
(* What tags that must not range at the same time need: one token, which   *)
(* is with nobody between two of its holders.                              *)
(***************************************************************************)
CONSTANTS Tags, NoTag

VARIABLE holder

Init == holder = NoTag

Take(t) == holder = NoTag /\ holder' = t
GiveBack == holder # NoTag /\ holder' = NoTag

Next == GiveBack \/ \E t \in Tags : Take(t)

Spec == Init /\ [][Next]_holder
============================================================================
