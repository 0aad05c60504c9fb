----------------------- MODULE ConfigurationProperties -----------------------
(***************************************************************************)
(* What a configuration of the chip has to satisfy once it is committed.   *)
(***************************************************************************)
EXTENDS Configuration

Committed == phase = "committed"

\* Every variable has its type.
TypeOK ==
    /\ settings \in [ rate : Rates, prf : PulseFrequencies, prealen : PreambleLengths,
                      pac : {8, 16, 32, 64}, code : PreambleCodes, channel : Channels,
                      smart : BOOLEAN ]
    /\ antenna \in [delay : Delays, calibrated : BOOLEAN]
    /\ {regs, chip.regs} \subseteq
         [ rate : Rates, prf : PulseFrequencies \cup {0}, prealen : PreambleLengths \cup {0},
           channel : Channels \cup {0}, chanPrf : PulseFrequencies \cup {0},
           code : PreambleCodes \cup {0}, sfd : {"standard", "decawave", "long"},
           rxm110k : BOOLEAN, smart : BOOLEAN ]
    /\ chip.sfdLength \in {8, 16, 64}
    /\ chip.antd \in Delays
    /\ phase \in {"off", "selected", "fresh", "open", "committed"}

\* The settings the chip's registers stand for.
Meant(r) ==
    [ rate |-> r.rate, prf |-> r.prf, prealen |-> r.prealen, pac |-> PacSize(r.prealen),
      code |-> r.code, channel |-> r.channel, smart |-> r.smart ]

\* However the configuration was reached, and whatever was configured
\* before: the tuning of the chip (written from the driver's variables,
\* DW1000.cpp:343-707), the flag for 110 kb/s, the kind of SFD and its length
\* (written before the commit) are those that belong to the data rate,
\* frequency, preamble and channel in the chip's registers (written from the
\* driver's copies of them).
TunedForRegisters ==
    Committed =>
        LET r == chip.regs
        IN  /\ chip.tuning = Tune(Meant(r))
            /\ r.chanPrf = r.prf
            /\ r.rxm110k = (r.rate = 110)
            /\ r.sfd = SFD(r.rate)
            /\ chip.sfdLength = SFDLength(r.rate)

\* tune() (DW1000.cpp:343) writes no register from bytes it has not set, on
\* any channel and with any preamble code, as long as data rate and preamble
\* length are those of a mode.
ModesTuned ==
    Committed /\ (\E m \in Modes : m.rate = chip.regs.rate /\ m.prealen = chip.regs.prealen)
        => AllDefined(chip.tuning)

\* Once committed the chip has the antenna delay that was set last, before or
\* after the chip was selected and reset, or the default of
\* commitConfiguration if none was (DW1000.cpp:1093-1101).
AntennaDelayApplied ==
    Committed => /\ chip.antd = antenna.delay
                 /\ antenna.calibrated

\* "combinations of data rate, pulse repetition frequency, preamble and
\* channel settings that properly go together" (DW1000.h:319-321): after
\* enableMode the preamble code is one for the mode's pulse frequency.
ModesGoTogether ==
    Committed => (chip.regs.code <= 8 <=> chip.regs.prf = 16)
=============================================================================
