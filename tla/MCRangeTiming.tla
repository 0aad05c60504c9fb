---- MODULE MCRangeTiming ----
(* Instances of RangeTiming and Calibration for TLC. A board runs one of the *)
(* two libraries, or the sketch that calibrates an anchor: the variables of  *)
(* the other programs stay as they start.                                    *)
EXTENDS RangeTimingProperties

CONSTANTS NgClock, NgShort, NgDelay, NgPower, Start, Step, Bests, Noise

VARIABLES
  program,
  ngStep, ngTag, ngAnchor, ngFlight, ngPower, ngPollSent, ngPollAckReceived, ngRangeSent,
  ngPollReceived, ngPollAckSent, ngRangeReceived, ngTxTime, ngTof,
  best, adelay, delta, last, antd, phase

NgTiming == INSTANCE RangeTimingProperties
  WITH Ng <- TRUE, Clock <- NgClock, Short <- NgShort, Delay <- NgDelay, Powers <- {NgPower},
       step <- ngStep, tag <- ngTag, anchor <- ngAnchor, flight <- ngFlight, power <- ngPower,
       timePollSent <- ngPollSent, timePollAckReceived <- ngPollAckReceived, timeRangeSent <- ngRangeSent,
       timePollReceived <- ngPollReceived, timePollAckSent <- ngPollAckSent,
       timeRangeReceived <- ngRangeReceived, txTime <- ngTxTime, tof <- ngTof
Search == INSTANCE CalibrationProperties

ASSUME OldTimes == TimingAssumption /\ ~Ng
ASSUME NgTimes == NgTiming!TimingAssumption
ASSUME SearchValues == Search!CalibrationAssumption

\* The sketch starts at 16600 with steps of 100.
Around == {16301, 16384, 16436, 16599, 16600, 16613, 16750}

\* From -3 to 5, as the tables of the driver go from negative to positive.
SmallBias == [i \in 0..17 |-> (i \div 2) - 3]

ngVars == <<ngStep, ngTag, ngAnchor, ngFlight, ngPower, ngPollSent, ngPollAckReceived, ngRangeSent,
            ngPollReceived, ngPollAckSent, ngRangeReceived, ngTxTime, ngTof>>
searchVars == <<best, adelay, delta, last, antd, phase>>
allVars == <<program, vars, ngVars, searchVars>>

EachInit ==
  /\ \/ program = "DW1000" /\ ngTag = 0 /\ ngAnchor = 0 /\ best = Start
     \/ program = "DW1000Ng" /\ tag = 0 /\ anchor = 0 /\ best = Start
     \/ program = "calibration" /\ tag = 0 /\ anchor = 0 /\ ngTag = 0 /\ ngAnchor = 0
  /\ Init /\ NgTiming!Init /\ Search!Init

OldStep == program = "DW1000" /\ Next /\ UNCHANGED <<program, ngVars, searchVars>>
NgStep == program = "DW1000Ng" /\ NgTiming!Next /\ UNCHANGED <<program, vars, searchVars>>
SearchStep == program = "calibration" /\ Search!newRange /\ UNCHANGED <<program, vars, ngVars>>

EachNext == OldStep \/ NgStep \/ SearchStep
EachSpec == EachInit /\ [][EachNext]_allVars /\ WF_allVars(SearchStep)

\* Of DW1000NgRTLS too, whose differences are of 32 bits and whose FINAL has four
\* bytes of a time stamp (DW1000NgRTLS.cpp:333).
NgRangeExact == NgTiming!RangeExact

\* The delay that is printed as the final one is close to the one that measures the
\* distance (anchor_autocalibrate.ino:86).
FinalClose == Search!FinalClose

\* As long as ranges come the search ends (anchor_autocalibrate.ino:96).
Ends == program = "calibration" => Search!Ends
====
