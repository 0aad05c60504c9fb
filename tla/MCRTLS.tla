---- MODULE MCRTLS ----
(* Instances of RTLS in which any frame may be lost. *)
EXTENDS RTLSProperties

AllLost == Kinds
====
