---- MODULE CalibrationProperties ----
(* What the search for the antenna delay promises. *)
EXTENDS Calibration

\* The delay that is printed as the final one measures the distance to three steps
\* and the error of a measurement, although the halves of the first step do not add
\* up to it and each of them may be taken several times (anchor_autocalibrate.ino:86).
FinalClose == phase = "done" => 2 * (adelay - best) \in -(6 + Noise)..(6 + Noise)

\* As long as ranges come the search ends, however they err
\* (anchor_autocalibrate.ino:96).
Ends == <>(phase = "done")
====
