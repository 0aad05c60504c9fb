--------------------------- MODULE NgConfiguration ---------------------------
(***************************************************************************)
(* How DW1000Ng.cpp is configured, put to sleep and woken.  The sketch     *)
(* hands over a whole configuration (applyConfiguration); what it sets     *)
(* besides (transmit power, pulse generator delay, antenna delays, frame   *)
(* filter, frame wait timeout) is kept in the driver's variables or in its *)
(* copies of the registers and has to last over later configurations.      *)
(***************************************************************************)
EXTENDS NgTuning

CONSTANTS
    Configurations,  \* values of device_configuration_t
    AntennaDelays,
    Manual           \* any transmit power and any pulse generator delay set by hand

\* What a sketch may ask for: device_configuration_t.
DeviceConfigurations ==
    [ ext : BOOLEAN, reenable : BOOLEAN, smart : BOOLEAN, nlos : BOOLEAN,
      sfd : {"standard", "decawave"}, channel : Channels, rate : Rates,
      prf : PulseFrequencies, prealen : PreambleLengths, code : PreambleCodes ]

Delays == 0..65535   \* of a uint16_t

NgAssumption ==
    /\ Configurations \subseteq DeviceConfigurations
    /\ AntennaDelays \subseteq Delays

VARIABLES
    settings,   \* _dataRate, _pulseFrequency, ..., _nlos, _standardSFD
    auto,       \* _autoTXPower and _autoTCPGDelay
    antenna,    \* _antennaTxDelay and _antennaRxDelay
    debounce,   \* _debounceClockEnabled
    regs,       \* the fields of _syscfg, _chanctrl and _txfctrl in question
    chip,       \* the chip's registers
    phase       \* "off" before initialize, "on", "asleep"

vars == <<settings, auto, antenna, debounce, regs, chip, phase>>
-----------------------------------------------------------------------------
\* preamble_validity_matrix_PRF16 and _PRF64.
ValidCodes(channel, prf) ==
    IF prf = 16
    THEN CASE channel = 1 -> {1, 2} [] channel \in {2, 5} -> {3, 4}
           [] channel = 3 -> {5, 6} [] OTHER -> {7, 8}
    ELSE IF channel \in {4, 7} THEN 17..20 ELSE 9..12

\* Mutant of setValidPreambleCode: one code for all channels at 64 MHz.
validCodeOfFrequency(channel, prf) ==
    IF prf = 64 THEN 10
    ELSE CASE channel = 1 -> 2 [] channel = 3 -> 6 [] channel \in {4, 7} -> 8 [] OTHER -> 3

setValidPreambleCode(channel, prf) ==
    CASE channel = 1       -> IF prf = 16 THEN 2 ELSE 10
      [] channel = 3       -> IF prf = 16 THEN 6 ELSE 10
      [] channel \in {4, 7} -> IF prf = 16 THEN 8 ELSE 18
      [] channel \in {2, 5} -> IF prf = 16 THEN 3 ELSE 10

checkedCode(c) ==
    IF c.code \in ValidCodes(c.channel, c.prf) THEN c.code
                                               ELSE setValidPreambleCode(c.channel, c.prf)

setPreambleLength(len) ==
    IF len \in {64, 128} THEN 8 ELSE IF len \in {256, 512} THEN 16
    ELSE IF len = 1024 THEN 32 ELSE 64

nonStandardSFDLength(rate) == OfRate(rate, 64, 16, 8)
-----------------------------------------------------------------------------
\* The variables as the microcontroller starts: enumerations are zero.
UnsetSettings ==
    [ rate |-> 110, prf |-> 0, prealen |-> 0, pac |-> 0, code |-> 0, channel |-> 0,
      smart |-> FALSE, nlos |-> FALSE, standardSFD |-> TRUE ]

\* The chip after a reset, and the driver's copies before they are read.
Registers(rate, prf, prealen, channel, code) ==
    [ ext |-> FALSE, reenable |-> FALSE, smart |-> TRUE, rxm110k |-> FALSE,
      filter |-> FALSE, timeout |-> FALSE, double |-> FALSE, rate |-> rate, prf |-> prf,
      chanPrf |-> prf, prealen |-> prealen, channel |-> channel, code |-> code,
      sfd |-> "standard" ]
ResetRegisters == Registers(6800, 16, 128, 5, 4)
ZeroRegisters  == [Registers(110, 0, 0, 0, 0) EXCEPT !.double = TRUE]

Automatic == [power |-> TRUE, pgdelay |-> TRUE]
NoDelay   == [tx |-> 0, rx |-> 0]

ResetChip ==
    [ regs |-> ResetRegisters, tuning |-> <<>>, txpower |-> "reset", pgdelay |-> "reset",
      sfdLength |-> 64, antenna |-> NoDelay, debounce |-> FALSE,
      wakes |-> FALSE, configured |-> FALSE ]

Init ==
    /\ settings = UnsetSettings /\ auto = Automatic /\ antenna = NoDelay
    /\ debounce = FALSE /\ regs = ZeroRegisters /\ chip = ResetChip /\ phase = "off"

\* The microcontroller restarts; the chip notices nothing.
Restart ==
    /\ phase # "off"
    /\ settings' = UnsetSettings /\ auto' = Automatic /\ antenna' = NoDelay
    /\ debounce' = FALSE /\ regs' = ZeroRegisters /\ phase' = "off"
    /\ UNCHANGED chip

\* Mutant of Initialize: the copies are not read.
InitializeWithoutReading ==
    /\ phase = "off"
    /\ chip' = ResetChip
    /\ phase' = "on"
    /\ UNCHANGED <<settings, auto, antenna, debounce, regs>>

\* Resets the chip by its pin and reads the copies from it.
Initialize ==
    /\ phase = "off"
    /\ chip' = ResetChip
    /\ regs' = ResetRegisters
    /\ phase' = "on"
    /\ UNCHANGED <<settings, auto, antenna, debounce>>
-----------------------------------------------------------------------------
Awake == phase = "on"

\* Mutant of ConfiguredSettings: the corrected code is not remembered.
ConfiguredUncorrected(c) ==
    [ rate |-> c.rate, prf |-> c.prf, prealen |-> c.prealen,
      pac |-> setPreambleLength(c.prealen), code |-> c.code, channel |-> c.channel,
      smart |-> c.smart, nlos |-> c.nlos, standardSFD |-> (c.sfd = "standard") ]

ConfiguredSettings(c) ==
    [ rate |-> c.rate, prf |-> c.prf, prealen |-> c.prealen,
      pac |-> setPreambleLength(c.prealen), code |-> checkedCode(c), channel |-> c.channel,
      smart |-> c.smart, nlos |-> c.nlos, standardSFD |-> (c.sfd = "standard") ]

ConfiguredRegisters(r, c) ==
    [ r EXCEPT !.ext = c.ext, !.reenable = c.reenable, !.smart = c.smart,
               !.rxm110k = (c.rate = 110), !.rate = c.rate, !.prf = c.prf,
               !.chanPrf = c.prf, !.prealen = c.prealen, !.channel = c.channel,
               !.code = checkedCode(c), !.sfd = c.sfd ]

ApplyConfiguration(c) ==
    /\ Awake
    /\ settings' = ConfiguredSettings(c)
    /\ regs' = ConfiguredRegisters(regs, c)
    /\ chip' = [ chip EXCEPT
         !.regs = regs',
         !.tuning = tune(settings'),
         !.txpower = IF auto.power THEN txpowertune(settings') ELSE @,
         !.pgdelay = IF auto.pgdelay THEN tcpgdelaytune(settings') ELSE @,
         !.sfdLength = IF c.sfd = "standard" THEN @ ELSE nonStandardSFDLength(c.rate),
         !.configured = TRUE ]
    /\ UNCHANGED <<auto, antenna, debounce, phase>>

\* Mutant of SetTXPower: the next configuration overwrites it.
SetTXPowerOnce ==
    /\ Awake
    /\ chip' = [chip EXCEPT !.txpower = Manual]
    /\ UNCHANGED <<settings, auto, antenna, debounce, regs, phase>>

SetTXPower ==
    /\ Awake
    /\ chip' = [chip EXCEPT !.txpower = Manual]
    /\ auto' = [auto EXCEPT !.power = FALSE]
    /\ UNCHANGED <<settings, antenna, debounce, regs, phase>>

SetTXPowerAuto ==
    /\ Awake
    /\ auto' = [auto EXCEPT !.power = TRUE]
    /\ chip' = [chip EXCEPT !.txpower = txpowertune(settings)]
    /\ UNCHANGED <<settings, antenna, debounce, regs, phase>>

SetTCPGDelay ==
    /\ Awake
    /\ chip' = [chip EXCEPT !.pgdelay = Manual]
    /\ auto' = [auto EXCEPT !.pgdelay = FALSE]
    /\ UNCHANGED <<settings, antenna, debounce, regs, phase>>

SetTCPGDelayAuto ==
    /\ Awake
    /\ chip' = [chip EXCEPT !.pgdelay = tcpgdelaytune(settings)]
    /\ auto' = [auto EXCEPT !.pgdelay = TRUE]
    /\ UNCHANGED <<settings, antenna, debounce, regs, phase>>

\* A change of _syscfg and the write that follows it.
WriteSystemConfiguration(r) ==
    /\ Awake
    /\ regs' = r
    /\ chip' = [chip EXCEPT !.regs = [@ EXCEPT
         !.ext = r.ext, !.reenable = r.reenable, !.smart = r.smart, !.rxm110k = r.rxm110k,
         !.filter = r.filter, !.timeout = r.timeout, !.double = r.double]]
    /\ UNCHANGED <<settings, auto, antenna, debounce, phase>>

EnableFrameFiltering  == WriteSystemConfiguration([regs EXCEPT !.filter = TRUE])
DisableFrameFiltering == WriteSystemConfiguration([regs EXCEPT !.filter = FALSE])
SetReceiveFrameWaitTimeoutPeriod(period) ==
    WriteSystemConfiguration([regs EXCEPT !.timeout = (period > 0)])

\* Only the copy is changed: the next write of _syscfg takes it along.
SetDoubleBuffering(val) ==
    /\ Awake
    /\ regs' = [regs EXCEPT !.double = val]
    /\ UNCHANGED <<settings, auto, antenna, debounce, chip, phase>>

\* setAntennaDelay, setTxAntennaDelay, setRxAntennaDelay: both are written.
SetAntennaDelay(tx, rx) ==
    /\ Awake
    /\ antenna' = [tx |-> tx, rx |-> rx]
    /\ chip' = [chip EXCEPT !.antenna = antenna']
    /\ UNCHANGED <<settings, auto, debounce, regs, phase>>

EnableDebounceClock ==
    /\ Awake
    /\ debounce' = TRUE
    /\ chip' = [chip EXCEPT !.debounce = TRUE]
    /\ UNCHANGED <<settings, auto, antenna, regs, phase>>
-----------------------------------------------------------------------------
ApplySleepConfiguration ==
    /\ Awake
    /\ chip' = [chip EXCEPT !.wakes = TRUE]
    /\ UNCHANGED <<settings, auto, antenna, debounce, regs, phase>>

\* The chip saves its configuration, but neither the antenna delays nor the
\* clock of the debounce filter.
DeepSleep ==
    /\ Awake
    /\ chip.wakes
    /\ chip' = [chip EXCEPT !.antenna = NoDelay, !.debounce = FALSE]
    /\ phase' = "asleep"
    /\ UNCHANGED <<settings, auto, antenna, debounce, regs>>

\* Mutant of SpiWakeup: the antenna delays are not written again.
WakeupAlone ==
    /\ phase \in {"asleep", "on"}
    /\ phase' = "on"
    /\ chip' = [chip EXCEPT !.debounce = debounce]
    /\ UNCHANGED <<settings, auto, antenna, debounce, regs>>

\* A chip that answers with its identifier is awake and is left alone.
SpiWakeup ==
    /\ phase \in {"asleep", "on"}
    /\ chip' = IF phase = "on" THEN chip
               ELSE [chip EXCEPT !.antenna = antenna, !.debounce = debounce]
    /\ phase' = "on"
    /\ UNCHANGED <<settings, auto, antenna, debounce, regs>>

Next ==
    \/ Initialize \/ Restart
    \/ SetTXPower \/ SetTXPowerAuto \/ SetTCPGDelay \/ SetTCPGDelayAuto
    \/ EnableFrameFiltering \/ DisableFrameFiltering \/ EnableDebounceClock
    \/ ApplySleepConfiguration \/ DeepSleep \/ SpiWakeup
    \/ \E c \in Configurations : ApplyConfiguration(c)
    \/ \E period \in 0..1 : SetReceiveFrameWaitTimeoutPeriod(period)
    \/ \E val \in BOOLEAN : SetDoubleBuffering(val)
    \/ \E tx, rx \in AntennaDelays :
          /\ tx = rx \/ tx = antenna.tx \/ rx = antenna.rx
          /\ SetAntennaDelay(tx, rx)

Spec == Init /\ [][Next]_vars
=============================================================================
