---------------------------- MODULE Configuration ----------------------------
(***************************************************************************)
(* How DW1000.cpp is configured.  Every setting exists three times: in the *)
(* driver's own variables (settings), in the driver's copies of the        *)
(* registers (regs) and in the chip.  A configuration is opened with       *)
(* newConfiguration, changed with the setters and written with             *)
(* commitConfiguration, which also tunes the chip.                         *)
(***************************************************************************)
EXTENDS Tuning

CONSTANTS
    SomeRates, SomeLengths, SomeChannels,  \* values the setters are called with
    SomeCodes,                             \* for setPreambleCode
    AntennaDelays                          \* for setAntennaDelay

Delays == 0..65535   \* of a uint16_t

ASSUME ValuesAssumption ==
    /\ SomeRates \subseteq Rates
    /\ SomeLengths \subseteq PreambleLengths
    /\ SomeChannels \subseteq Channels
    /\ SomeCodes \subseteq PreambleCodes
    /\ AntennaDelays \subseteq Delays

VARIABLES
    settings,      \* _dataRate, _pulseFrequency, _preambleLength, _pacSize, ...
    antenna,       \* _antennaDelay and _antennaCalibrated
    regs,          \* the fields of _syscfg, _chanctrl and _txfctrl in question
    chip,          \* the chip: the same registers, the tuning and the rest
    phase          \* where the caller is in the order of the calls

vars == <<settings, antenna, regs, chip, phase>>

\* The modes of operation of DW1000.h.
Mode(rate, prf, prealen) == [rate |-> rate, prf |-> prf, prealen |-> prealen]
Modes == { Mode(110, 16, 2048), Mode(6800, 16, 128), Mode(6800, 16, 1024),
           Mode(6800, 64, 128), Mode(6800, 64, 1024), Mode(110, 64, 2048) }
LongdataRangeLowpower == Mode(110, 16, 2048)

SFD(rate) == IF rate = 6800 THEN "standard" ELSE IF rate = 850 THEN "decawave" ELSE "long"
SFDLength(rate) == IF rate = 6800 THEN 8 ELSE IF rate = 850 THEN 16 ELSE 64

PacSize(len) == IF len \in {64, 128} THEN 8 ELSE IF len \in {256, 512} THEN 16
                ELSE IF len = 1024 THEN 32 ELSE 64

\* setChannel's choice; it looks at the pulse frequency of the moment.
CodeOf(channel, prf) ==
    CASE channel = 1       -> IF prf = 16 THEN 2 ELSE 10
      [] channel = 3       -> IF prf = 16 THEN 6 ELSE 10
      [] channel \in {4, 7} -> IF prf = 16 THEN 8 ELSE 18
      [] OTHER             -> IF prf = 16 THEN 4 ELSE 10
-----------------------------------------------------------------------------
\* The chip after a reset: channel 5, 6.8 Mb/s, 16 MHz, 128 symbols.
ResetRegisters ==
    [ rate |-> 6800, prf |-> 16, prealen |-> 128, channel |-> 5, chanPrf |-> 16,
      code |-> 4, sfd |-> "standard", rxm110k |-> FALSE, smart |-> TRUE ]
\* The driver's arrays before they are first read from the chip.
ZeroRegisters ==
    [ rate |-> 110, prf |-> 0, prealen |-> 0, channel |-> 0, chanPrf |-> 0,
      code |-> 0, sfd |-> "standard", rxm110k |-> FALSE, smart |-> TRUE ]
ResetChip ==
    [ regs |-> ResetRegisters, sfdLength |-> 64, tuning |-> <<>>, antd |-> 0 ]

Init ==
    /\ settings = [ rate |-> 6800, prf |-> 16, prealen |-> 128, pac |-> 8, code |-> 4,
                    channel |-> 5, smart |-> FALSE ]
    /\ antenna = [delay |-> 0, calibrated |-> FALSE]
    /\ regs = ZeroRegisters
    /\ chip = ResetChip
    /\ phase = "off"

\* The effect of each setter on <<settings, regs>>.
WithRate(s, rate) ==
    << [s[1] EXCEPT !.rate = rate],
       [s[2] EXCEPT !.rate = rate, !.rxm110k = (rate = 110), !.sfd = SFD(rate)] >>
WithPulseFrequency(s, prf) ==
    << [s[1] EXCEPT !.prf = prf], [s[2] EXCEPT !.prf = prf, !.chanPrf = prf] >>
\* Mutant of WithPreambleLength: the size of the chunks stays.
WithPreambleLengthAlone(s, len) ==
    << [s[1] EXCEPT !.prealen = len], [s[2] EXCEPT !.prealen = len] >>
WithPreambleLength(s, len) ==
    << [s[1] EXCEPT !.prealen = len, !.pac = PacSize(len)], [s[2] EXCEPT !.prealen = len] >>
WithPreambleCode(s, code) ==
    << [s[1] EXCEPT !.code = code], [s[2] EXCEPT !.code = code] >>
WithChannel(s, channel) ==
    WithPreambleCode(<< [s[1] EXCEPT !.channel = channel], [s[2] EXCEPT !.channel = channel] >>,
                     CodeOf(channel, s[1].prf))
WithSmartPower(s, smart) ==
    << [s[1] EXCEPT !.smart = smart], [s[2] EXCEPT !.smart = smart] >>
WithMode(s, m) ==
    WithPreambleLength(WithPulseFrequency(WithRate(s, m.rate), m.prf), m.prealen)
WithDefaults(s) ==
    WithChannel(WithMode(WithSmartPower(s, FALSE), LongdataRangeLowpower), 5)
-----------------------------------------------------------------------------
\* setDataRate writes the length of the SFD at once; the other setters
\* write nothing before the commit.
Set(s) ==
    /\ phase = "open"
    /\ settings' = s[1]
    /\ regs' = s[2]
    /\ UNCHANGED <<antenna, phase>>

\* The chip is reset; of the driver's copies only _syscfg is cleared.  Of the
\* settings nothing is.
Select ==
    /\ phase' = "selected"
    /\ regs' = [regs EXCEPT !.rxm110k = FALSE, !.smart = TRUE]
    /\ chip' = ResetChip
    /\ UNCHANGED <<settings, antenna>>

NewConfiguration ==
    /\ phase \in {"selected", "committed"}
    /\ regs' = chip.regs
    /\ phase' = IF phase = "selected" THEN "fresh" ELSE "open"
    /\ UNCHANGED <<settings, antenna, chip>>

\* After a reset the callers go on with the defaults.
SetDefaults ==
    /\ phase \in {"fresh", "open"}
    /\ LET s == WithDefaults(<<settings, regs>>)
       IN  settings' = s[1] /\ regs' = s[2]
    /\ chip' = [chip EXCEPT !.sfdLength = SFDLength(LongdataRangeLowpower.rate)]
    /\ phase' = "open"
    /\ UNCHANGED antenna

EnableMode(m) ==
    /\ Set(WithMode(<<settings, regs>>, m))
    /\ chip' = [chip EXCEPT !.sfdLength = SFDLength(m.rate)]

SetDataRate(rate) ==
    /\ Set(WithRate(<<settings, regs>>, rate))
    /\ chip' = [chip EXCEPT !.sfdLength = SFDLength(rate)]

SetPulseFrequency(prf) ==
    Set(WithPulseFrequency(<<settings, regs>>, prf)) /\ UNCHANGED chip
SetPreambleLength(len) ==
    Set(WithPreambleLength(<<settings, regs>>, len)) /\ UNCHANGED chip
SetChannel(channel) ==
    Set(WithChannel(<<settings, regs>>, channel)) /\ UNCHANGED chip
SetPreambleCode(code) ==
    Set(WithPreambleCode(<<settings, regs>>, code)) /\ UNCHANGED chip
UseSmartPower(smart) ==
    Set(WithSmartPower(<<settings, regs>>, smart)) /\ UNCHANGED chip

\* At any time, also before the chip is selected.
SetAntennaDelay(value) ==
    /\ antenna' = [delay |-> value, calibrated |-> TRUE]
    /\ chip' = IF phase = "off" THEN chip ELSE [chip EXCEPT !.antd = value]
    /\ UNCHANGED <<settings, regs, phase>>

Calibrated(a) ==
    IF a.delay = 0 /\ ~a.calibrated THEN [delay |-> 16384, calibrated |-> TRUE] ELSE a

\* Mutant of CommitConfiguration: only the default delay is written.
CommitWithoutDelay ==
    /\ phase = "open"
    /\ antenna' = Calibrated(antenna)
    /\ chip' = [chip EXCEPT !.regs = regs, !.tuning = Tune(settings),
                            !.antd = IF antenna.calibrated THEN @ ELSE antenna'.delay]
    /\ phase' = "committed"
    /\ UNCHANGED <<settings, regs>>

CommitConfiguration ==
    /\ phase = "open"
    /\ antenna' = Calibrated(antenna)
    /\ chip' = [chip EXCEPT !.regs = regs, !.tuning = Tune(settings),
                            !.antd = antenna'.delay]
    /\ phase' = "committed"
    /\ UNCHANGED <<settings, regs>>

Next ==
    \/ Select \/ NewConfiguration \/ SetDefaults \/ CommitConfiguration
    \/ \E m \in Modes : EnableMode(m)
    \/ \E rate \in SomeRates : SetDataRate(rate)
    \/ \E prf \in PulseFrequencies : SetPulseFrequency(prf)
    \/ \E len \in SomeLengths : SetPreambleLength(len)
    \/ \E channel \in SomeChannels : SetChannel(channel)
    \/ \E code \in SomeCodes : SetPreambleCode(code)
    \/ \E smart \in BOOLEAN : UseSmartPower(smart)
    \/ \E value \in AntennaDelays : SetAntennaDelay(value)

Spec == Init /\ [][Next]_vars
=============================================================================
