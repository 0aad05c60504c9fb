------------------------ MODULE ConfigurationProofs ------------------------
(***************************************************************************)
(* A committed configuration of DW1000.cpp is consistent, whatever         *)
(* settings are made in whatever order: by an invariant that ties the      *)
(* driver's variables, its copies of the registers and the chip together.  *)
(* So is one of DW1000Ng.cpp, by the same means; its invariant also keeps  *)
(* what is set besides and what sleep and restarts forget.                 *)
(***************************************************************************)
EXTENDS MCConfiguration, TLAPS

Settings == [ rate : Rates, prf : PulseFrequencies, prealen : PreambleLengths,
              pac : {8, 16, 32, 64}, code : PreambleCodes, channel : Channels,
              smart : BOOLEAN ]
Registers == [ rate : Rates, prf : PulseFrequencies \cup {0}, prealen : PreambleLengths \cup {0},
               channel : Channels \cup {0}, chanPrf : PulseFrequencies \cup {0},
               code : PreambleCodes \cup {0}, sfd : {"standard", "decawave", "long"},
               rxm110k : BOOLEAN, smart : BOOLEAN ]

\* The parts in which the driver's variables and its copies of the registers agree.
RateOf(s, r) == /\ r.rate = s.rate /\ r.sfd = SFD(s.rate)
                /\ (r.rxm110k <=> s.rate = 110)
FrequencyOf(s, r) == r.prf = s.prf /\ r.chanPrf = s.prf
LengthOf(s, r) == r.prealen = s.prealen /\ s.pac = PacSize(s.prealen)
ChannelOf(s, r) == r.channel = s.channel
CodeIs(s, r) == r.code = s.code
SmartOf(s, r) == r.smart = s.smart

Agree(s, r) == /\ RateOf(s, r) /\ FrequencyOf(s, r) /\ LengthOf(s, r)
               /\ ChannelOf(s, r) /\ CodeIs(s, r) /\ SmartOf(s, r)

-----------------------------------------------------------------------------
(* The tables *)

LEMMA TableTypes ==
    /\ \A rate \in Rates : SFD(rate) \in {"standard", "decawave", "long"}
    /\ \A rate \in Rates : SFDLength(rate) \in {8, 16, 64}
    /\ \A len \in PreambleLengths : PacSize(len) \in {8, 16, 32, 64}
    /\ \A channel \in Channels, prf \in PulseFrequencies : CodeOf(channel, prf) \in PreambleCodes
<1>1. \A rate \in Rates : SFD(rate) \in {"standard", "decawave", "long"}
  BY DEF SFD
<1>2. \A rate \in Rates : SFDLength(rate) \in {8, 16, 64}
  BY DEF SFDLength
<1>3. \A len \in PreambleLengths : PacSize(len) \in {8, 16, 32, 64}
  BY DEF PacSize
<1>4. \A channel \in Channels, prf \in PulseFrequencies : CodeOf(channel, prf) \in PreambleCodes
  <2> SUFFICES ASSUME NEW channel \in Channels, NEW prf \in PulseFrequencies
               PROVE  CodeOf(channel, prf) \in PreambleCodes
    OBVIOUS
  <2>1. CodeOf(channel, prf) \in {2, 4, 6, 8, 10, 18}
    BY DEF CodeOf, Channels, PulseFrequencies
  <2> QED BY <2>1 DEF PreambleCodes
<1> QED BY <1>1, <1>2, <1>3, <1>4

-----------------------------------------------------------------------------
(* Where tune() sets a register *)

LEMMA FrequencyRegisters ==
    ASSUME NEW prf \in PulseFrequencies, NEW pac \in {8, 16, 32, 64}
    PROVE  Undefined \notin {AGC_TUNE1(prf), DRX_TUNE1a(prf), DRX_TUNE2(pac, prf), LDE_CFG2(prf)}
BY DEF OfFrequency, PulseFrequencies, AGC_TUNE1, DRX_TUNE1a, DRX_TUNE2, LDE_CFG2, Undefined

LEMMA RateRegisters ==
    ASSUME NEW m \in Modes
    PROVE  DRX_TUNE0b(m.rate) # Undefined /\ DRX_TUNE1b(m.rate, m.prealen) # Undefined
BY DEF Modes, Mode, OfRate, DRX_TUNE0b, DRX_TUNE1b, Undefined

LEMMA LengthRegister ==
    ASSUME NEW len
    PROVE  DRX_TUNE4H(len) # Undefined
BY DEF DRX_TUNE4H, Undefined

LEMMA ChannelRegisters ==
    ASSUME NEW channel \in Channels
    PROVE  Undefined \notin {RF_RXCTRLH(channel), RF_TXCTRL(channel), TC_PGDELAY(channel), FS_PLL(channel)}
BY DEF OfChannel, Channels, RF_RXCTRLH, RF_TXCTRL, TC_PGDELAY, FS_PLL, Undefined

LEMMA PowerRegister ==
    ASSUME NEW channel \in Channels, NEW prf \in PulseFrequencies, NEW smart \in BOOLEAN
    PROVE  TX_POWER(channel, prf, smart) # Undefined
BY DEF OfChannel, OfFrequency, PulseFrequencies, Channels, TX_POWER, Undefined

LEMMA CodeRegister ==
    ASSUME NEW code \in PreambleCodes, NEW rate
    PROVE  LDE_REPC(code, rate) # Undefined
BY DEF PreambleCodes, LDE_REPC, Undefined
LEMMA AllRegisters ==
    ASSUME NEW s \in Settings, s.pac = PacSize(s.prealen),
           NEW m \in Modes, m.rate = s.rate, m.prealen = s.prealen
    PROVE  AllDefined(Tune(s))
<1>1. /\ Undefined \notin {AGC_TUNE1(s.prf), DRX_TUNE1a(s.prf), DRX_TUNE2(s.pac, s.prf),
                           LDE_CFG2(s.prf)}
      /\ DRX_TUNE0b(s.rate) # Undefined /\ DRX_TUNE1b(s.rate, s.prealen) # Undefined
      /\ DRX_TUNE4H(s.prealen) # Undefined
      /\ Undefined \notin {RF_RXCTRLH(s.channel), RF_TXCTRL(s.channel), TC_PGDELAY(s.channel),
                           FS_PLL(s.channel)}
      /\ TX_POWER(s.channel, s.prf, s.smart) # Undefined
      /\ LDE_REPC(s.code, s.rate) # Undefined
  BY FrequencyRegisters, RateRegisters, LengthRegister, ChannelRegisters, PowerRegister, CodeRegister
     DEF Settings
<1> QED BY <1>1 DEF AllDefined, Tune

-----------------------------------------------------------------------------
(* The setters *)

LEMMA RateSet ==
    ASSUME NEW s \in Settings, NEW r \in Registers, NEW rate \in Rates
    PROVE  LET w == WithRate(<<s, r>>, rate)
           IN  /\ w[1] \in Settings /\ w[2] \in Registers /\ w[1].rate = rate
               /\ RateOf(w[1], w[2])
               /\ FrequencyOf(s, r) => FrequencyOf(w[1], w[2])
               /\ LengthOf(s, r) => LengthOf(w[1], w[2])
               /\ ChannelOf(s, r) => ChannelOf(w[1], w[2])
               /\ CodeIs(s, r) => CodeIs(w[1], w[2])
               /\ SmartOf(s, r) => SmartOf(w[1], w[2])
<1> DEFINE t == [s EXCEPT !.rate = rate]
           q == [r EXCEPT !.rate = rate, !.rxm110k = (rate = 110), !.sfd = SFD(rate)]
<1>1. WithRate(<<s, r>>, rate) = <<t, q>>
  BY DEF WithRate
<1>2. t \in Settings
  BY DEF Settings
<1>3. q \in Registers
  BY TableTypes DEF Registers
<1>4. t.rate = rate /\ t.prf = s.prf /\ t.prealen = s.prealen /\ t.pac = s.pac /\ t.channel = s.channel
      /\ t.code = s.code /\ t.smart = s.smart
  BY DEF Settings
<1>5. q.rate = rate /\ q.sfd = SFD(rate) /\ (q.rxm110k <=> rate = 110) /\ q.prf = r.prf
      /\ q.chanPrf = r.chanPrf /\ q.prealen = r.prealen /\ q.channel = r.channel /\ q.code = r.code
      /\ q.smart = r.smart
  BY DEF Registers
<1>6. PICK w : w = WithRate(<<s, r>>, rate) /\ w[1] = t /\ w[2] = q
  BY <1>1
<1> HIDE DEF t, q
<1> QED BY <1>2, <1>3, <1>4, <1>5, <1>6
        DEF RateOf, FrequencyOf, LengthOf, ChannelOf, CodeIs, SmartOf

LEMMA FrequencySet ==
    ASSUME NEW s \in Settings, NEW r \in Registers, NEW prf \in PulseFrequencies
    PROVE  LET w == WithPulseFrequency(<<s, r>>, prf)
           IN  /\ w[1] \in Settings /\ w[2] \in Registers /\ w[1].rate = s.rate
               /\ FrequencyOf(w[1], w[2])
               /\ RateOf(s, r) => RateOf(w[1], w[2])
               /\ LengthOf(s, r) => LengthOf(w[1], w[2])
               /\ ChannelOf(s, r) => ChannelOf(w[1], w[2])
               /\ CodeIs(s, r) => CodeIs(w[1], w[2])
               /\ SmartOf(s, r) => SmartOf(w[1], w[2])
<1> DEFINE t == [s EXCEPT !.prf = prf]
           q == [r EXCEPT !.prf = prf, !.chanPrf = prf]
<1>1. WithPulseFrequency(<<s, r>>, prf) = <<t, q>>
  BY DEF WithPulseFrequency
<1>2. t \in Settings
  BY DEF Settings
<1>3. q \in Registers
  BY DEF Registers
<1>4. /\ t.rate = s.rate /\ t.prf = prf /\ t.prealen = s.prealen /\ t.pac = s.pac
      /\ t.channel = s.channel /\ t.code = s.code /\ t.smart = s.smart
  BY DEF Settings
<1>5. /\ q.rate = r.rate /\ q.sfd = r.sfd /\ q.rxm110k = r.rxm110k /\ q.prf = prf /\ q.chanPrf = prf
      /\ q.prealen = r.prealen /\ q.channel = r.channel /\ q.code = r.code /\ q.smart = r.smart
  BY DEF Registers
<1>6. PICK w : w = WithPulseFrequency(<<s, r>>, prf) /\ w[1] = t /\ w[2] = q
  BY <1>1
<1> HIDE DEF t, q
<1> QED BY <1>2, <1>3, <1>4, <1>5, <1>6
        DEF RateOf, FrequencyOf, LengthOf, ChannelOf, CodeIs, SmartOf

LEMMA LengthSet ==
    ASSUME NEW s \in Settings, NEW r \in Registers, NEW len \in PreambleLengths
    PROVE  LET w == WithPreambleLength(<<s, r>>, len)
           IN  /\ w[1] \in Settings /\ w[2] \in Registers /\ w[1].rate = s.rate
               /\ LengthOf(w[1], w[2])
               /\ RateOf(s, r) => RateOf(w[1], w[2])
               /\ FrequencyOf(s, r) => FrequencyOf(w[1], w[2])
               /\ ChannelOf(s, r) => ChannelOf(w[1], w[2])
               /\ CodeIs(s, r) => CodeIs(w[1], w[2])
               /\ SmartOf(s, r) => SmartOf(w[1], w[2])
<1> DEFINE t == [s EXCEPT !.prealen = len, !.pac = PacSize(len)]
           q == [r EXCEPT !.prealen = len]
<1>1. WithPreambleLength(<<s, r>>, len) = <<t, q>>
  BY DEF WithPreambleLength
<1>2. t \in Settings
  BY TableTypes DEF Settings
<1>3. q \in Registers
  BY TableTypes DEF Registers
<1>4. /\ t.rate = s.rate /\ t.prf = s.prf /\ t.prealen = len /\ t.pac = PacSize(len)
      /\ t.channel = s.channel /\ t.code = s.code /\ t.smart = s.smart
  BY DEF Settings
<1>5. /\ q.rate = r.rate /\ q.sfd = r.sfd /\ q.rxm110k = r.rxm110k /\ q.prf = r.prf /\ q.chanPrf = r.chanPrf
      /\ q.prealen = len /\ q.channel = r.channel /\ q.code = r.code /\ q.smart = r.smart
  BY DEF Registers
<1>6. PICK w : w = WithPreambleLength(<<s, r>>, len) /\ w[1] = t /\ w[2] = q
  BY <1>1
<1> HIDE DEF t, q
<1> QED BY <1>2, <1>3, <1>4, <1>5, <1>6
        DEF RateOf, FrequencyOf, LengthOf, ChannelOf, CodeIs, SmartOf

LEMMA CodeSet ==
    ASSUME NEW s \in Settings, NEW r \in Registers, NEW code \in PreambleCodes
    PROVE  LET w == WithPreambleCode(<<s, r>>, code)
           IN  /\ w[1] \in Settings /\ w[2] \in Registers /\ w[1].rate = s.rate
               /\ CodeIs(w[1], w[2])
               /\ RateOf(s, r) => RateOf(w[1], w[2])
               /\ FrequencyOf(s, r) => FrequencyOf(w[1], w[2])
               /\ LengthOf(s, r) => LengthOf(w[1], w[2])
               /\ ChannelOf(s, r) => ChannelOf(w[1], w[2])
               /\ SmartOf(s, r) => SmartOf(w[1], w[2])
<1> DEFINE t == [s EXCEPT !.code = code]
           q == [r EXCEPT !.code = code]
<1>1. WithPreambleCode(<<s, r>>, code) = <<t, q>>
  BY DEF WithPreambleCode
<1>2. t \in Settings
  BY DEF Settings
<1>3. q \in Registers
  BY DEF Registers
<1>4. /\ t.rate = s.rate /\ t.prf = s.prf /\ t.prealen = s.prealen /\ t.pac = s.pac
      /\ t.channel = s.channel /\ t.code = code /\ t.smart = s.smart
  BY DEF Settings
<1>5. /\ q.rate = r.rate /\ q.sfd = r.sfd /\ q.rxm110k = r.rxm110k /\ q.prf = r.prf /\ q.chanPrf = r.chanPrf
      /\ q.prealen = r.prealen /\ q.channel = r.channel /\ q.code = code /\ q.smart = r.smart
  BY DEF Registers
<1>6. PICK w : w = WithPreambleCode(<<s, r>>, code) /\ w[1] = t /\ w[2] = q
  BY <1>1
<1> HIDE DEF t, q
<1> QED BY <1>2, <1>3, <1>4, <1>5, <1>6
        DEF RateOf, FrequencyOf, LengthOf, ChannelOf, CodeIs, SmartOf

LEMMA SmartSet ==
    ASSUME NEW s \in Settings, NEW r \in Registers, NEW smart \in BOOLEAN
    PROVE  LET w == WithSmartPower(<<s, r>>, smart)
           IN  /\ w[1] \in Settings /\ w[2] \in Registers /\ w[1].rate = s.rate
               /\ SmartOf(w[1], w[2])
               /\ RateOf(s, r) => RateOf(w[1], w[2])
               /\ FrequencyOf(s, r) => FrequencyOf(w[1], w[2])
               /\ LengthOf(s, r) => LengthOf(w[1], w[2])
               /\ ChannelOf(s, r) => ChannelOf(w[1], w[2])
               /\ CodeIs(s, r) => CodeIs(w[1], w[2])
<1> DEFINE t == [s EXCEPT !.smart = smart]
           q == [r EXCEPT !.smart = smart]
<1>1. WithSmartPower(<<s, r>>, smart) = <<t, q>>
  BY DEF WithSmartPower
<1>2. t \in Settings
  BY DEF Settings
<1>3. q \in Registers
  BY DEF Registers
<1>4. /\ t.rate = s.rate /\ t.prf = s.prf /\ t.prealen = s.prealen /\ t.pac = s.pac
      /\ t.channel = s.channel /\ t.code = s.code /\ t.smart = smart
  BY DEF Settings
<1>5. /\ q.rate = r.rate /\ q.sfd = r.sfd /\ q.rxm110k = r.rxm110k /\ q.prf = r.prf /\ q.chanPrf = r.chanPrf
      /\ q.prealen = r.prealen /\ q.channel = r.channel /\ q.code = r.code /\ q.smart = smart
  BY DEF Registers
<1>6. PICK w : w = WithSmartPower(<<s, r>>, smart) /\ w[1] = t /\ w[2] = q
  BY <1>1
<1> HIDE DEF t, q
<1> QED BY <1>2, <1>3, <1>4, <1>5, <1>6
        DEF RateOf, FrequencyOf, LengthOf, ChannelOf, CodeIs, SmartOf

\* setChannel also chooses a preamble code.
LEMMA ChannelSet ==
    ASSUME NEW s \in Settings, NEW r \in Registers, NEW channel \in Channels
    PROVE  LET w == WithChannel(<<s, r>>, channel)
           IN  /\ w[1] \in Settings /\ w[2] \in Registers /\ w[1].rate = s.rate
               /\ ChannelOf(w[1], w[2]) /\ CodeIs(w[1], w[2])
               /\ RateOf(s, r) => RateOf(w[1], w[2])
               /\ FrequencyOf(s, r) => FrequencyOf(w[1], w[2])
               /\ LengthOf(s, r) => LengthOf(w[1], w[2])
               /\ SmartOf(s, r) => SmartOf(w[1], w[2])
<1> DEFINE t == [s EXCEPT !.channel = channel]
           q == [r EXCEPT !.channel = channel]
<1>1. t \in Settings /\ q \in Registers
  BY DEF Settings, Registers
<1>2. CodeOf(channel, s.prf) \in PreambleCodes
  BY TableTypes DEF Settings
<1>3. WithChannel(<<s, r>>, channel) = WithPreambleCode(<<t, q>>, CodeOf(channel, s.prf))
  BY DEF WithChannel
<1>4. /\ t.rate = s.rate /\ t.prf = s.prf /\ t.prealen = s.prealen /\ t.pac = s.pac
      /\ t.channel = channel /\ t.smart = s.smart
  BY DEF Settings
<1>5. /\ q.rate = r.rate /\ q.sfd = r.sfd /\ q.rxm110k = r.rxm110k /\ q.prf = r.prf
      /\ q.chanPrf = r.chanPrf /\ q.prealen = r.prealen /\ q.channel = channel /\ q.smart = r.smart
  BY DEF Registers
<1> HIDE DEF t, q
<1>6. /\ ChannelOf(t, q)
      /\ RateOf(s, r) => RateOf(t, q)
      /\ FrequencyOf(s, r) => FrequencyOf(t, q)
      /\ LengthOf(s, r) => LengthOf(t, q)
      /\ SmartOf(s, r) => SmartOf(t, q)
  BY <1>4, <1>5 DEF RateOf, FrequencyOf, LengthOf, ChannelOf, SmartOf
<1> QED BY <1>1, <1>2, <1>3, <1>4, <1>6, CodeSet

LEMMA ModeTypes ==
    ASSUME NEW m \in Modes
    PROVE  m.rate \in Rates /\ m.prf \in PulseFrequencies /\ m.prealen \in PreambleLengths
BY DEF Modes, Mode, Rates, PulseFrequencies, PreambleLengths

LEMMA ModeSet ==
    ASSUME NEW s \in Settings, NEW r \in Registers, NEW m \in Modes
    PROVE  LET w == WithMode(<<s, r>>, m)
           IN  /\ w = <<w[1], w[2]>> /\ w[1] \in Settings /\ w[2] \in Registers
               /\ w[1].rate = m.rate
               /\ RateOf(w[1], w[2]) /\ FrequencyOf(w[1], w[2]) /\ LengthOf(w[1], w[2])
               /\ ChannelOf(s, r) => ChannelOf(w[1], w[2])
               /\ CodeIs(s, r) => CodeIs(w[1], w[2])
               /\ SmartOf(s, r) => SmartOf(w[1], w[2])
<1>1. m.rate \in Rates /\ m.prf \in PulseFrequencies /\ m.prealen \in PreambleLengths
  BY ModeTypes
<1>2. PICK s1, r1 : WithRate(<<s, r>>, m.rate) = <<s1, r1>>
  BY DEF WithRate
<1>3. PICK s2, r2 : WithPulseFrequency(<<s1, r1>>, m.prf) = <<s2, r2>>
  BY DEF WithPulseFrequency
<1>4. PICK s3, r3 : WithPreambleLength(<<s2, r2>>, m.prealen) = <<s3, r3>>
  BY DEF WithPreambleLength
<1>5. /\ s1 \in Settings /\ r1 \in Registers /\ s1.rate = m.rate /\ RateOf(s1, r1)
      /\ ChannelOf(s, r) => ChannelOf(s1, r1)
      /\ CodeIs(s, r) => CodeIs(s1, r1)
      /\ SmartOf(s, r) => SmartOf(s1, r1)
  BY <1>1, <1>2, RateSet
<1>6. /\ s2 \in Settings /\ r2 \in Registers /\ s2.rate = m.rate
      /\ RateOf(s2, r2) /\ FrequencyOf(s2, r2)
      /\ ChannelOf(s, r) => ChannelOf(s2, r2)
      /\ CodeIs(s, r) => CodeIs(s2, r2)
      /\ SmartOf(s, r) => SmartOf(s2, r2)
  BY <1>1, <1>3, <1>5, FrequencySet
<1>7. /\ s3 \in Settings /\ r3 \in Registers /\ s3.rate = m.rate
      /\ RateOf(s3, r3) /\ FrequencyOf(s3, r3) /\ LengthOf(s3, r3)
      /\ ChannelOf(s, r) => ChannelOf(s3, r3)
      /\ CodeIs(s, r) => CodeIs(s3, r3)
      /\ SmartOf(s, r) => SmartOf(s3, r3)
  BY <1>1, <1>4, <1>6, LengthSet
<1>8. WithMode(<<s, r>>, m) = <<s3, r3>>
  BY <1>2, <1>3, <1>4 DEF WithMode
<1> QED BY <1>7, <1>8

\* setDefaults leaves nothing of what was set before.
LEMMA DefaultsSet ==
    ASSUME NEW s \in Settings, NEW r \in Registers
    PROVE  LET w == WithDefaults(<<s, r>>)
           IN  /\ w[1] \in Settings /\ w[2] \in Registers
               /\ w[1].rate = LongdataRangeLowpower.rate
               /\ Agree(w[1], w[2])
<1>1. LongdataRangeLowpower \in Modes /\ 5 \in Channels
  BY DEF LongdataRangeLowpower, Modes, Channels
<1>2. PICK s1, r1 : WithSmartPower(<<s, r>>, FALSE) = <<s1, r1>>
  BY DEF WithSmartPower
<1>3. s1 \in Settings /\ r1 \in Registers /\ SmartOf(s1, r1)
  <2>1. PICK b \in BOOLEAN : b = FALSE
    OBVIOUS
  <2>2. WithSmartPower(<<s, r>>, b) = <<s1, r1>>
    BY <1>2, <2>1
  <2> QED BY <2>2, SmartSet
<1>4. PICK s2, r2 : WithMode(<<s1, r1>>, LongdataRangeLowpower) = <<s2, r2>>
  BY <1>1, <1>3, ModeSet
<1>5. /\ s2 \in Settings /\ r2 \in Registers /\ s2.rate = LongdataRangeLowpower.rate
      /\ RateOf(s2, r2) /\ FrequencyOf(s2, r2) /\ LengthOf(s2, r2) /\ SmartOf(s2, r2)
  BY <1>1, <1>3, <1>4, ModeSet
<1>6. WithDefaults(<<s, r>>) = WithChannel(<<s2, r2>>, 5)
  BY <1>2, <1>4 DEF WithDefaults
<1> QED BY <1>1, <1>5, <1>6, ChannelSet DEF Agree

-----------------------------------------------------------------------------
(* The invariant *)

SFDLengths == {8, 16, 64}
Antennas == [delay : Delays, calibrated : BOOLEAN]

ChipType(c) ==
    /\ c = [regs |-> c.regs, sfdLength |-> c.sfdLength, tuning |-> c.tuning, antd |-> c.antd]
    /\ c.regs \in Registers /\ c.sfdLength \in SFDLengths /\ c.antd \in Delays

Types == /\ settings \in Settings /\ regs \in Registers
         /\ antenna \in Antennas
         /\ phase \in {"off", "selected", "fresh", "open", "committed"}
         /\ ChipType(chip)

\* setAntennaDelay was called, or there is nothing to lose.
DelaySet(a) == a.calibrated \/ a.delay = 0

IInv ==
    /\ Types
    /\ DelaySet(antenna)
    /\ phase \in {"open", "committed"} =>
         Agree(settings, regs) /\ chip.sfdLength = SFDLength(settings.rate)
    /\ Committed => /\ chip.regs = regs /\ chip.tuning = Tune(settings)
                    /\ chip.antd = antenna.delay /\ antenna.calibrated

LEMMA InitIInv == Init => IInv
<1> SUFFICES ASSUME Init PROVE IInv OBVIOUS
<1>1. settings \in Settings
  BY DEF Init, Settings, Rates, PulseFrequencies, PreambleLengths, PreambleCodes, Channels
<1>2. ZeroRegisters \in Registers /\ ResetRegisters \in Registers
  BY DEF ZeroRegisters, ResetRegisters, Registers, Rates, PulseFrequencies, PreambleLengths,
         PreambleCodes, Channels
<1>3. ChipType(ResetChip)
  BY <1>2 DEF ChipType, ResetChip, Delays, SFDLengths
<1>4. Types
  <2>1. antenna \in Antennas
    BY DEF Init, Antennas, Delays
  <2> QED BY <1>1, <1>2, <1>3, <2>1 DEF Init, Types
<1>5. DelaySet(antenna)
  BY DEF Init, DelaySet
<1> QED BY <1>4, <1>5 DEF Init, IInv, Committed

\* What a setter does to the driver's side.
LEMMA SetIInv ==
    ASSUME IInv, NEW w, Set(w), w[1] \in Settings, w[2] \in Registers, Agree(w[1], w[2]),
           \/ chip' = [chip EXCEPT !.sfdLength = SFDLength(w[1].rate)]
           \/ chip' = chip /\ w[1].rate = settings.rate
    PROVE  IInv'
<1>1. /\ settings' = w[1] /\ regs' = w[2] /\ phase = "open" /\ phase' = "open"
      /\ antenna' = antenna
  BY DEF Set
<1>2. w[1].rate \in Rates
  BY DEF Settings
<1>3. SFDLength(w[1].rate) \in SFDLengths
  BY <1>2, TableTypes DEF SFDLengths
<1>4. PICK c, n : c = chip /\ n = chip'
  OBVIOUS
<1>5. ChipType(c) /\ c.sfdLength = SFDLength(settings.rate)
  BY <1>1, <1>4 DEF IInv, Types
<1>6. ChipType(n) /\ n.sfdLength = SFDLength(w[1].rate)
  <2>1. CASE n = [c EXCEPT !.sfdLength = SFDLength(w[1].rate)]
    <3>1. PICK a, l, t, d : c = [regs |-> a, sfdLength |-> l, tuning |-> t, antd |-> d]
      BY <1>5 DEF ChipType
    <3>2. n = [regs |-> a, sfdLength |-> SFDLength(w[1].rate), tuning |-> t, antd |-> d]
      BY <2>1, <3>1
    <3>3. c.regs = a /\ c.antd = d
      BY <3>1
    <3>4. a \in Registers /\ d \in Delays
      BY <1>5, <3>3 DEF ChipType
    <3> QED BY <1>3, <3>2, <3>4 DEF ChipType
  <2>2. CASE n = c /\ w[1].rate = settings.rate
    BY <1>5, <2>2
  <2> QED BY <1>4, <2>1, <2>2
<1>7. Types'
  <2>1. settings' \in Settings /\ regs' \in Registers
    BY <1>1
  <2>2. antenna \in Antennas
    BY DEF IInv, Types
  <2>3. antenna' \in Antennas
    BY <1>1, <2>2
  <2>4. ChipType(chip')
    BY <1>4, <1>6
  <2> QED BY <1>1, <2>1, <2>3, <2>4 DEF Types
<1> QED BY <1>1, <1>4, <1>6, <1>7 DEF IInv, Committed

\* What is known of the chip, with names for its parts.
LEMMA ChipParts ==
    ASSUME NEW c, ChipType(c)
    PROVE  \E a, l, t, d : /\ c = [regs |-> a, sfdLength |-> l, tuning |-> t, antd |-> d]
                           /\ a \in Registers /\ l \in SFDLengths /\ d \in Delays
<1> WITNESS c.regs, c.sfdLength, c.tuning, c.antd
<1> QED BY DEF ChipType

LEMMA CalibratedType ==
    ASSUME NEW a \in Antennas
    PROVE  Calibrated(a) \in Antennas /\ Calibrated(a).delay \in Delays
<1>1. CASE a.delay = 0 /\ ~a.calibrated
  <2>1. Calibrated(a) = [delay |-> 16384, calibrated |-> TRUE]
    BY <1>1 DEF Calibrated
  <2>2. 16384 \in Delays
    BY DEF Delays
  <2> QED BY <2>1, <2>2 DEF Antennas
<1>2. CASE ~(a.delay = 0 /\ ~a.calibrated)
  <2>1. Calibrated(a) = a
    BY <1>2 DEF Calibrated
  <2> QED BY <2>1 DEF Antennas
<1> QED BY <1>1, <1>2

LEMMA CalibratedAfter ==
    ASSUME NEW a \in Antennas, DelaySet(a)
    PROVE  Calibrated(a).calibrated /\ DelaySet(Calibrated(a))
BY DEF Calibrated, Antennas, DelaySet

LEMMA SelectIInv ==
    ASSUME IInv, Select
    PROVE  IInv'
<1>1. PICK r \in Registers : r = regs
  BY DEF IInv, Types
<1>2. [r EXCEPT !.rxm110k = FALSE, !.smart = TRUE] \in Registers
  BY DEF Registers
<1>3. ResetRegisters \in Registers
  BY DEF ResetRegisters, Registers, Rates, PulseFrequencies, PreambleLengths,
         PreambleCodes, Channels
<1>4. ChipType(ResetChip)
  BY <1>3 DEF ChipType, ResetChip, Delays, SFDLengths
<1>5. regs' \in Registers /\ ChipType(chip') /\ phase' = "selected"
  BY <1>1, <1>2, <1>4 DEF Select
<1>6. UNCHANGED <<settings, antenna>>
  BY DEF Select
<1>7. Types'
  BY <1>5, <1>6 DEF IInv, Types
<1> QED BY <1>5, <1>6, <1>7 DEF IInv, Committed

LEMMA NewConfigurationIInv ==
    ASSUME IInv, NewConfiguration
    PROVE  IInv'
<1>1. chip.regs \in Registers
  BY DEF IInv, Types, ChipType
<1>2. UNCHANGED <<settings, antenna, chip>> /\ regs' = chip.regs /\ phase' \in {"fresh", "open"}
  BY DEF NewConfiguration
<1>3. Types'
  BY <1>1, <1>2 DEF IInv, Types
<1>4. CASE phase' = "fresh"
  BY <1>2, <1>3, <1>4 DEF IInv, Committed
<1>5. CASE phase = "committed" /\ phase' = "open"
  <2>1. regs' = regs /\ Agree(settings, regs) /\ chip.sfdLength = SFDLength(settings.rate)
    BY <1>2, <1>5 DEF IInv, Committed
  <2>2. Agree(settings', regs') /\ chip'.sfdLength = SFDLength(settings'.rate)
    BY <1>2, <2>1
  <2> QED BY <1>2, <1>3, <1>5, <2>2 DEF IInv, Committed
<1> QED BY <1>4, <1>5 DEF NewConfiguration

LEMMA SetDefaultsIInv ==
    ASSUME IInv, SetDefaults
    PROVE  IInv'
<1>1. PICK w : w = WithDefaults(<<settings, regs>>)
  OBVIOUS
<1>2. /\ w[1] \in Settings /\ w[2] \in Registers /\ Agree(w[1], w[2])
      /\ w[1].rate = LongdataRangeLowpower.rate
  BY <1>1, DefaultsSet DEF IInv, Types
<1>3. PICK L : L = SFDLength(LongdataRangeLowpower.rate)
  OBVIOUS
<1>4. L \in SFDLengths
  BY <1>3 DEF SFDLength, SFDLengths
<1>5. PICK c, n : c = chip /\ n = chip' /\ n = [c EXCEPT !.sfdLength = L]
  BY <1>3 DEF SetDefaults
<1>6. PICK a, l, t, d : /\ c = [regs |-> a, sfdLength |-> l, tuning |-> t, antd |-> d]
                        /\ a \in Registers /\ d \in Delays
  BY <1>5, ChipParts DEF IInv, Types
<1>7. n = [regs |-> a, sfdLength |-> L, tuning |-> t, antd |-> d]
  BY <1>5, <1>6
<1>8. ChipType(n) /\ n.sfdLength = L
  BY <1>4, <1>6, <1>7 DEF ChipType
<1>9. settings' = w[1] /\ regs' = w[2] /\ phase' = "open" /\ antenna' = antenna
  BY <1>1 DEF SetDefaults
<1>10. antenna' \in Antennas
  BY <1>9 DEF IInv, Types
<1>11. Types'
  BY <1>2, <1>5, <1>8, <1>9, <1>10 DEF Types
<1> QED BY <1>2, <1>3, <1>5, <1>8, <1>9, <1>11 DEF IInv, Committed

\* What setAntennaDelay does to the chip once the chip is selected.
LEMMA DelayWritten ==
    ASSUME NEW c, ChipType(c), NEW value \in Delays, NEW n, n = [c EXCEPT !.antd = value]
    PROVE  /\ ChipType(n) /\ n.regs = c.regs /\ n.sfdLength = c.sfdLength /\ n.tuning = c.tuning
           /\ n.antd = value
<1>1. PICK a, l, t, d : /\ c = [regs |-> a, sfdLength |-> l, tuning |-> t, antd |-> d]
                        /\ a \in Registers /\ l \in SFDLengths /\ d \in Delays
  BY ChipParts
<1>2. n = [regs |-> a, sfdLength |-> l, tuning |-> t, antd |-> value]
  BY <1>1
<1> QED BY <1>1, <1>2 DEF ChipType

LEMMA SetAntennaDelayIInv ==
    ASSUME IInv, NEW value \in Delays, SetAntennaDelay(value)
    PROVE  IInv'
<1>1. antenna' = [delay |-> value, calibrated |-> TRUE]
  BY DEF SetAntennaDelay
<1>2. /\ antenna' \in Antennas /\ antenna'.delay = value /\ antenna'.calibrated
      /\ DelaySet(antenna')
  BY <1>1 DEF Antennas, DelaySet
<1>3. UNCHANGED <<settings, regs, phase>>
  BY DEF SetAntennaDelay
<1>4. CASE phase = "off"
  <2>1. chip' = chip
    BY <1>4 DEF SetAntennaDelay
  <2>2. Types'
    BY <1>2, <1>3, <2>1 DEF IInv, Types
  <2> QED BY <1>2, <1>3, <1>4, <2>2 DEF IInv, Committed
<1>5. CASE phase # "off"
  <2>1. PICK c, n : c = chip /\ n = chip' /\ ChipType(c) /\ n = [c EXCEPT !.antd = value]
    BY <1>5 DEF SetAntennaDelay, IInv, Types
  <2>2. /\ ChipType(n) /\ n.regs = c.regs /\ n.sfdLength = c.sfdLength /\ n.tuning = c.tuning
        /\ n.antd = value
    BY <2>1, DelayWritten
  <2>3. Types'
    BY <1>2, <1>3, <2>1, <2>2 DEF IInv, Types
  <2> QED BY <1>2, <1>3, <2>1, <2>2, <2>3 DEF IInv, Committed
<1> QED BY <1>4, <1>5

\* What commitConfiguration does to the chip.
Write(c, r, tuning, delay) == [c EXCEPT !.regs = r, !.tuning = tuning, !.antd = delay]

LEMMA ChipWritten ==
    ASSUME NEW c, NEW r, NEW tuning, NEW delay, NEW n,
           ChipType(c), r \in Registers, delay \in Delays, n = Write(c, r, tuning, delay)
    PROVE  /\ ChipType(n) /\ n.regs = r /\ n.sfdLength = c.sfdLength /\ n.tuning = tuning
           /\ n.antd = delay
<1>1. PICK a, l, t, d : /\ c = [regs |-> a, sfdLength |-> l, tuning |-> t, antd |-> d]
                        /\ a \in Registers /\ l \in SFDLengths /\ d \in Delays
  BY ChipParts
<1>2. n = [regs |-> r, sfdLength |-> l, tuning |-> tuning, antd |-> delay]
  BY <1>1 DEF Write
<1> QED BY <1>1, <1>2 DEF ChipType

LEMMA CommitConfigurationIInv ==
    ASSUME IInv, CommitConfiguration
    PROVE  IInv'
<1>1. /\ phase = "open" /\ phase' = "committed" /\ UNCHANGED <<settings, regs>>
      /\ antenna' = Calibrated(antenna)
  BY DEF CommitConfiguration
<1>2. antenna \in Antennas /\ regs \in Registers
  BY DEF IInv, Types
<1>3. PICK a \in Antennas : /\ a = antenna' /\ a.delay \in Delays /\ a.calibrated
                            /\ DelaySet(a)
  BY <1>1, <1>2, CalibratedType, CalibratedAfter DEF IInv
<1>4. PICK c, n, t, d, r : /\ c = chip /\ n = chip' /\ t = Tune(settings)
                           /\ d = a.delay /\ r = regs
  OBVIOUS
<1>5. n = Write(c, r, t, d)
  <2>1. chip' = [chip EXCEPT !.regs = regs, !.tuning = Tune(settings), !.antd = antenna'.delay]
    BY DEF CommitConfiguration
  <2> QED BY <1>3, <1>4, <2>1 DEF Write
<1>6. ChipType(c) /\ r \in Registers /\ d \in Delays
  BY <1>2, <1>3, <1>4 DEF IInv, Types
<1>7. /\ ChipType(n) /\ n.regs = r /\ n.sfdLength = c.sfdLength /\ n.tuning = t
      /\ n.antd = d
  BY <1>5, <1>6, ChipWritten
<1>8. Types'
  BY <1>1, <1>3, <1>4, <1>7 DEF IInv, Types
<1> QED BY <1>1, <1>3, <1>4, <1>7, <1>8 DEF IInv, Committed

LEMMA EnableModeIInv ==
    ASSUME IInv, NEW m \in Modes, EnableMode(m)
    PROVE  IInv'
<1>1. phase = "open" /\ settings \in Settings /\ regs \in Registers /\ Agree(settings, regs)
  BY DEF EnableMode, Set, IInv, Types
<1>2. PICK w : w = WithMode(<<settings, regs>>, m)
  OBVIOUS
<1>3. w[1] \in Settings /\ w[2] \in Registers /\ Agree(w[1], w[2]) /\ w[1].rate = m.rate
  BY <1>1, <1>2, ModeSet DEF Agree
<1>4. Set(w) /\ chip' = [chip EXCEPT !.sfdLength = SFDLength(w[1].rate)]
  BY <1>2, <1>3 DEF EnableMode
<1> QED BY <1>3, <1>4, SetIInv

LEMMA SetDataRateIInv ==
    ASSUME IInv, NEW rate \in Rates, SetDataRate(rate)
    PROVE  IInv'
<1>1. phase = "open" /\ settings \in Settings /\ regs \in Registers /\ Agree(settings, regs)
  BY DEF SetDataRate, Set, IInv, Types
<1>2. PICK w : w = WithRate(<<settings, regs>>, rate)
  OBVIOUS
<1>3. w[1] \in Settings /\ w[2] \in Registers /\ Agree(w[1], w[2]) /\ w[1].rate = rate
  BY <1>1, <1>2, RateSet DEF Agree
<1>4. Set(w) /\ chip' = [chip EXCEPT !.sfdLength = SFDLength(w[1].rate)]
  BY <1>2, <1>3 DEF SetDataRate
<1> QED BY <1>3, <1>4, SetIInv

LEMMA SetPulseFrequencyIInv ==
    ASSUME IInv, NEW prf \in PulseFrequencies, SetPulseFrequency(prf)
    PROVE  IInv'
<1>1. phase = "open" /\ settings \in Settings /\ regs \in Registers /\ Agree(settings, regs)
  BY DEF SetPulseFrequency, Set, IInv, Types
<1>2. PICK w : w = WithPulseFrequency(<<settings, regs>>, prf)
  OBVIOUS
<1>3. w[1] \in Settings /\ w[2] \in Registers /\ Agree(w[1], w[2]) /\ w[1].rate = settings.rate
  BY <1>1, <1>2, FrequencySet DEF Agree
<1>4. Set(w) /\ chip' = chip
  BY <1>2 DEF SetPulseFrequency
<1> QED BY <1>3, <1>4, SetIInv

LEMMA SetPreambleLengthIInv ==
    ASSUME IInv, NEW len \in PreambleLengths, SetPreambleLength(len)
    PROVE  IInv'
<1>1. phase = "open" /\ settings \in Settings /\ regs \in Registers /\ Agree(settings, regs)
  BY DEF SetPreambleLength, Set, IInv, Types
<1>2. PICK w : w = WithPreambleLength(<<settings, regs>>, len)
  OBVIOUS
<1>3. w[1] \in Settings /\ w[2] \in Registers /\ Agree(w[1], w[2]) /\ w[1].rate = settings.rate
  BY <1>1, <1>2, LengthSet DEF Agree
<1>4. Set(w) /\ chip' = chip
  BY <1>2 DEF SetPreambleLength
<1> QED BY <1>3, <1>4, SetIInv

LEMMA SetChannelIInv ==
    ASSUME IInv, NEW channel \in Channels, SetChannel(channel)
    PROVE  IInv'
<1>1. phase = "open" /\ settings \in Settings /\ regs \in Registers /\ Agree(settings, regs)
  BY DEF SetChannel, Set, IInv, Types
<1>2. PICK w : w = WithChannel(<<settings, regs>>, channel)
  OBVIOUS
<1>3. w[1] \in Settings /\ w[2] \in Registers /\ Agree(w[1], w[2]) /\ w[1].rate = settings.rate
  BY <1>1, <1>2, ChannelSet DEF Agree
<1>4. Set(w) /\ chip' = chip
  BY <1>2 DEF SetChannel
<1> QED BY <1>3, <1>4, SetIInv

LEMMA SetPreambleCodeIInv ==
    ASSUME IInv, NEW code \in PreambleCodes, SetPreambleCode(code)
    PROVE  IInv'
<1>1. phase = "open" /\ settings \in Settings /\ regs \in Registers /\ Agree(settings, regs)
  BY DEF SetPreambleCode, Set, IInv, Types
<1>2. PICK w : w = WithPreambleCode(<<settings, regs>>, code)
  OBVIOUS
<1>3. w[1] \in Settings /\ w[2] \in Registers /\ Agree(w[1], w[2]) /\ w[1].rate = settings.rate
  BY <1>1, <1>2, CodeSet DEF Agree
<1>4. Set(w) /\ chip' = chip
  BY <1>2 DEF SetPreambleCode
<1> QED BY <1>3, <1>4, SetIInv

LEMMA UseSmartPowerIInv ==
    ASSUME IInv, NEW smart \in BOOLEAN, UseSmartPower(smart)
    PROVE  IInv'
<1>1. phase = "open" /\ settings \in Settings /\ regs \in Registers /\ Agree(settings, regs)
  BY DEF UseSmartPower, Set, IInv, Types
<1>2. PICK w : w = WithSmartPower(<<settings, regs>>, smart)
  OBVIOUS
<1>3. w[1] \in Settings /\ w[2] \in Registers /\ Agree(w[1], w[2]) /\ w[1].rate = settings.rate
  BY <1>1, <1>2, SmartSet DEF Agree
<1>4. Set(w) /\ chip' = chip
  BY <1>2 DEF UseSmartPower
<1> QED BY <1>3, <1>4, SetIInv

LEMMA NextIInv ==
    ASSUME IInv, [Next]_vars
    PROVE  IInv'
<1>1. /\ SomeRates \subseteq Rates /\ SomeLengths \subseteq PreambleLengths
      /\ SomeChannels \subseteq Channels /\ SomeCodes \subseteq PreambleCodes
      /\ AntennaDelays \subseteq Delays
  BY ValuesAssumption DEF ValuesAssumption
<1>2. CASE Select BY <1>2, SelectIInv
<1>3. CASE NewConfiguration BY <1>3, NewConfigurationIInv
<1>4. CASE SetDefaults BY <1>4, SetDefaultsIInv
<1>5. CASE CommitConfiguration BY <1>5, CommitConfigurationIInv
<1>6. CASE \E m \in Modes : EnableMode(m) BY <1>6, EnableModeIInv
<1>7. CASE \E rate \in SomeRates : SetDataRate(rate)
  <2>1. \E rate \in Rates : SetDataRate(rate) BY <1>1, <1>7
  <2> QED BY <2>1, SetDataRateIInv
<1>8. CASE \E prf \in PulseFrequencies : SetPulseFrequency(prf) BY <1>8, SetPulseFrequencyIInv
<1>9. CASE \E len \in SomeLengths : SetPreambleLength(len)
  <2>1. \E len \in PreambleLengths : SetPreambleLength(len) BY <1>1, <1>9
  <2> QED BY <2>1, SetPreambleLengthIInv
<1>10. CASE \E channel \in SomeChannels : SetChannel(channel)
  <2>1. \E channel \in Channels : SetChannel(channel) BY <1>1, <1>10
  <2> QED BY <2>1, SetChannelIInv
<1>11. CASE \E code \in SomeCodes : SetPreambleCode(code)
  <2>1. \E code \in PreambleCodes : SetPreambleCode(code) BY <1>1, <1>11
  <2> QED BY <2>1, SetPreambleCodeIInv
<1>12. CASE \E smart \in BOOLEAN : UseSmartPower(smart) BY <1>12, UseSmartPowerIInv
<1>13. CASE \E value \in AntennaDelays : SetAntennaDelay(value)
  <2>1. \E value \in Delays : SetAntennaDelay(value) BY <1>1, <1>13
  <2> QED BY <2>1, SetAntennaDelayIInv
<1>14. CASE UNCHANGED vars
  BY <1>14 DEF vars, IInv, Types, Committed
<1> QED BY <1>2, <1>3, <1>4, <1>5, <1>6, <1>7, <1>8, <1>9, <1>10, <1>11, <1>12, <1>13, <1>14 DEF Next

LEMMA SpecIInv == Spec => []IInv
<1>1. IInv /\ [Next]_vars => IInv'
  BY NextIInv
<1> QED BY <1>1, InitIInv, PTL DEF Spec

-----------------------------------------------------------------------------
(* What a committed configuration satisfies, for all settings *)

\* The driver's variables, its copies of the registers and the chip keep their types.
THEOREM ConfigurationTypes == Spec => []TypeOK
<1>1. IInv => TypeOK
  <2> SUFFICES ASSUME IInv PROVE TypeOK OBVIOUS
  <2>1. /\ settings \in Settings /\ regs \in Registers /\ antenna \in Antennas
        /\ chip.regs \in Registers /\ chip.sfdLength \in SFDLengths /\ chip.antd \in Delays
        /\ phase \in {"off", "selected", "fresh", "open", "committed"}
    BY DEF IInv, Types, ChipType
  <2>2. {regs, chip.regs} \subseteq Registers
    BY <2>1
  <2> QED BY <2>1, <2>2 DEF TypeOK, Settings, Registers, Antennas, SFDLengths
<1> QED BY <1>1, SpecIInv, PTL

\* The chip is tuned (DW1000.cpp:343) for the data rate, frequency, preamble and channel
\* in its registers, in whatever order the settings were made and whatever came before.
THEOREM TunedAlways == Spec => []TunedForRegisters
<1>1. IInv => TunedForRegisters
  <2> SUFFICES ASSUME IInv, Committed PROVE TunedForRegisters
    BY DEF TunedForRegisters
  <2>1. PICK s \in Settings, r \in Registers : s = settings /\ r = chip.regs /\ Agree(s, r)
    BY DEF IInv, Types, Committed
  <2>2. s = Meant(r)
    BY <2>1 DEF Meant, Settings, Agree, RateOf, FrequencyOf, LengthOf, ChannelOf, CodeIs, SmartOf
  <2>3. chip.tuning = Tune(Meant(r)) /\ chip.sfdLength = SFDLength(r.rate)
    BY <2>1, <2>2 DEF IInv, Committed, Agree, RateOf
  <2>4. r.chanPrf = r.prf /\ (r.rxm110k <=> r.rate = 110) /\ r.sfd = SFD(r.rate)
    BY <2>1 DEF Agree, RateOf, FrequencyOf
  <2>5. r.rxm110k = (r.rate = 110)
    BY <2>4 DEF Registers
  <2> QED BY <2>1, <2>3, <2>4, <2>5 DEF TunedForRegisters
<1> QED BY <1>1, SpecIInv, PTL

\* The chip has the antenna delay that was set last, or the default if none was
\* (DW1000.cpp:1093).
THEOREM DelayAlways == Spec => []AntennaDelayApplied
<1>1. IInv => AntennaDelayApplied
  BY DEF IInv, AntennaDelayApplied
<1> QED BY <1>1, SpecIInv, PTL

\* No register is written from bytes that tune() has not set, on any channel and with any
\* preamble code, when data rate and preamble length are those of a mode (DW1000.cpp:343).
THEOREM ModesAlwaysTuned == Spec => []ModesTuned
<1>1. IInv => ModesTuned
  <2> SUFFICES ASSUME IInv, Committed, NEW m \in Modes,
                      m.rate = chip.regs.rate, m.prealen = chip.regs.prealen
               PROVE  AllDefined(chip.tuning)
    BY DEF ModesTuned
  <2>1. PICK s \in Settings, r \in Registers : s = settings /\ r = chip.regs /\ Agree(s, r)
    BY DEF IInv, Types, Committed
  <2>2. m.rate = s.rate /\ m.prealen = s.prealen /\ s.pac = PacSize(s.prealen)
    BY <2>1 DEF Agree, RateOf, LengthOf
  <2>3. chip.tuning = Tune(s)
    BY <2>1 DEF IInv, Committed
  <2> QED BY <2>2, <2>3, AllRegisters
<1> QED BY <1>1, SpecIInv, PTL

-----------------------------------------------------------------------------
(* DW1000Ng.cpp *)

\* The types of the driver's copies and of the chip.
NgRegisters ==
    [ ext : BOOLEAN, reenable : BOOLEAN, smart : BOOLEAN, rxm110k : BOOLEAN,
      filter : BOOLEAN, timeout : BOOLEAN, double : BOOLEAN, rate : Rates,
      prf : PulseFrequencies \cup {0}, chanPrf : PulseFrequencies \cup {0},
      prealen : PreambleLengths \cup {0}, channel : Channels \cup {0},
      code : PreambleCodes \cup {0}, sfd : {"standard", "decawave"} ]
NgConfigurations ==
    [ ext : BOOLEAN, reenable : BOOLEAN, smart : BOOLEAN, nlos : BOOLEAN,
      sfd : {"standard", "decawave"}, channel : Channels, rate : Rates,
      prf : PulseFrequencies, prealen : PreambleLengths, code : PreambleCodes ]

NgChip(r, tuning, power, pgdelay, length, delays, debouncing, wakes, done) ==
    [ regs |-> r, tuning |-> tuning, txpower |-> power, pgdelay |-> pgdelay,
      sfdLength |-> length, antenna |-> delays, debounce |-> debouncing,
      wakes |-> wakes, configured |-> done ]

IsNgChip(c) ==
    /\ c = NgChip(c.regs, c.tuning, c.txpower, c.pgdelay, c.sfdLength, c.antenna, c.debounce,
                  c.wakes, c.configured)
    /\ c.regs \in NgRegisters
NgTypes ==
    /\ IsNgChip(ngChip) /\ ngRegs \in NgRegisters
    /\ auto \in [power : BOOLEAN, pgdelay : BOOLEAN]

\* Of a configured chip: what its registers say is what the driver's variables say.
Linked(s, r) ==
    /\ s = Ng!Meant(r, s.nlos)
    /\ r.chanPrf = r.prf
    /\ r.rxm110k = (r.rate = 110)
    /\ r.code \in Ng!ValidCodes(r.channel, r.prf)
Tuned(s, c, a) ==
    /\ c.tuning = Ng!tune(s)
    /\ c.regs.sfd # "standard" => c.sfdLength = Ng!nonStandardSFDLength(c.regs.rate)
    /\ c.txpower = (IF a.power THEN Ng!txpowertune(s) ELSE Manual)
    /\ c.pgdelay = (IF a.pgdelay THEN Ng!tcpgdelaytune(s) ELSE Manual)

\* What is set by hand is set before the chip is configured or after.
ByHand(c, a) == (~a.power => c.txpower = Manual) /\ (~a.pgdelay => c.pgdelay = Manual)
AsStarted == auto = Ng!Automatic /\ ngAntenna = Ng!NoDelay /\ debounce = FALSE

NgInv ==
    /\ NgTypes
    /\ CopiesCurrent /\ KeptOverSleep
    /\ ngPhase = "off" => AsStarted
    /\ ByHand(ngChip, auto)
    /\ Ng!Configured => Linked(ngSettings, ngChip.regs) /\ Tuned(ngSettings, ngChip, auto)

LEMMA CheckedCodeValid ==
    ASSUME NEW c \in NgConfigurations
    PROVE  Ng!checkedCode(c) \in Ng!ValidCodes(c.channel, c.prf)
<1>1. c.channel \in {1, 2, 3, 4, 5, 7} /\ c.prf \in {16, 64}
  BY DEF NgConfigurations, Channels, PulseFrequencies
<1>2. Ng!setValidPreambleCode(c.channel, c.prf) \in Ng!ValidCodes(c.channel, c.prf)
  BY <1>1 DEF Ng!setValidPreambleCode, Ng!ValidCodes
<1> QED BY <1>2 DEF Ng!checkedCode

LEMMA ValidCodesTypes ==
    ASSUME NEW channel \in Channels, NEW prf \in PulseFrequencies
    PROVE  Ng!ValidCodes(channel, prf) \subseteq PreambleCodes
BY DEF Ng!ValidCodes, PreambleCodes, Channels, PulseFrequencies

\* What applyConfiguration makes of the driver's copies and variables.
LEMMA ConfiguredLinked ==
    ASSUME NEW c \in NgConfigurations, NEW r \in NgRegisters
    PROVE  LET n == Ng!ConfiguredRegisters(r, c)  s == Ng!ConfiguredSettings(c)
           IN  n \in NgRegisters /\ Linked(s, n) /\ n.sfd = c.sfd /\ n.rate = c.rate
<1>1. Ng!checkedCode(c) \in PreambleCodes /\ Ng!checkedCode(c) \in Ng!ValidCodes(c.channel, c.prf)
  BY CheckedCodeValid, ValidCodesTypes DEF NgConfigurations
<1>2. PICK n : n = Ng!ConfiguredRegisters(r, c)
  OBVIOUS
<1>3. n \in NgRegisters
  <2>1. /\ c.ext \in BOOLEAN /\ c.reenable \in BOOLEAN /\ c.smart \in BOOLEAN
        /\ (c.rate = 110) \in BOOLEAN /\ c.rate \in Rates /\ c.prf \in PulseFrequencies \cup {0}
        /\ c.prealen \in PreambleLengths \cup {0} /\ c.channel \in Channels \cup {0}
        /\ Ng!checkedCode(c) \in PreambleCodes \cup {0} /\ c.sfd \in {"standard", "decawave"}
    BY <1>1 DEF NgConfigurations
  <2>2. n = [ ext |-> c.ext, reenable |-> c.reenable, smart |-> c.smart, rxm110k |-> (c.rate = 110),
              filter |-> r.filter, timeout |-> r.timeout, double |-> r.double, rate |-> c.rate,
              prf |-> c.prf, chanPrf |-> c.prf, prealen |-> c.prealen, channel |-> c.channel,
              code |-> Ng!checkedCode(c), sfd |-> c.sfd ]
    BY <1>2 DEF Ng!ConfiguredRegisters, NgRegisters
  <2>3. r.filter \in BOOLEAN /\ r.timeout \in BOOLEAN /\ r.double \in BOOLEAN
    BY DEF NgRegisters
  <2> QED BY <2>1, <2>2, <2>3 DEF NgRegisters
<1>4. /\ n.rate = c.rate /\ n.prf = c.prf /\ n.chanPrf = c.prf /\ n.prealen = c.prealen
      /\ n.channel = c.channel /\ n.code = Ng!checkedCode(c) /\ n.smart = c.smart
      /\ n.rxm110k = (c.rate = 110) /\ n.sfd = c.sfd
  BY <1>2 DEF Ng!ConfiguredRegisters, NgRegisters
<1>5. Linked(Ng!ConfiguredSettings(c), n)
  BY <1>1, <1>4 DEF Linked, Ng!ConfiguredSettings, Ng!Meant
<1> QED BY <1>2, <1>3, <1>4, <1>5

\* The copies are the chip's registers up to the choice of the buffers.
LEMMA CopiesParts ==
    ASSUME NEW r \in NgRegisters, NEW h \in NgRegisters
    PROVE  [r EXCEPT !.double = h.double] = h <=>
             /\ r.ext = h.ext /\ r.reenable = h.reenable /\ r.smart = h.smart
             /\ r.rxm110k = h.rxm110k /\ r.filter = h.filter /\ r.timeout = h.timeout
             /\ r.rate = h.rate /\ r.prf = h.prf /\ r.chanPrf = h.chanPrf
             /\ r.prealen = h.prealen /\ r.channel = h.channel /\ r.code = h.code /\ r.sfd = h.sfd
BY DEF NgRegisters

LEMMA StartRegisters == Ng!ZeroRegisters \in NgRegisters /\ Ng!ResetRegisters \in NgRegisters
<1>1. {110, 6800} \subseteq Rates /\ 16 \in PulseFrequencies /\ 128 \in PreambleLengths
      /\ 5 \in Channels /\ 4 \in PreambleCodes
  BY DEF Rates, PulseFrequencies, PreambleLengths, Channels, PreambleCodes
<1>2. ASSUME NEW rate \in Rates, NEW prf \in PulseFrequencies \cup {0},
             NEW len \in PreambleLengths \cup {0}, NEW channel \in Channels \cup {0},
             NEW code \in PreambleCodes \cup {0}
      PROVE  Ng!Registers(rate, prf, len, channel, code) \in NgRegisters
  BY DEF Ng!Registers, NgRegisters
<1>3. Ng!ResetRegisters \in NgRegisters
  BY <1>1, <1>2 DEF Ng!ResetRegisters
<1>4. PICK z \in NgRegisters : z = Ng!Registers(110, 0, 0, 0, 0)
  <2>1. 110 \in Rates /\ 0 \in PulseFrequencies \cup {0} /\ 0 \in PreambleLengths \cup {0}
        /\ 0 \in Channels \cup {0} /\ 0 \in PreambleCodes \cup {0}
    BY <1>1
  <2>2. Ng!Registers(110, 0, 0, 0, 0) \in NgRegisters
    BY <1>2, <2>1
  <2> QED BY <2>2
<1>5. [z EXCEPT !.double = TRUE] \in NgRegisters
  BY DEF NgRegisters
<1> QED BY <1>3, <1>4, <1>5 DEF Ng!ZeroRegisters

LEMMA NgInitInv == Ng!Init => NgInv
<1> SUFFICES ASSUME Ng!Init PROVE NgInv
  OBVIOUS
<1>1. Ng!ZeroRegisters \in NgRegisters /\ Ng!ResetRegisters \in NgRegisters
  BY StartRegisters
<1>2. NgTypes
  BY <1>1 DEF Ng!Init, NgTypes, IsNgChip, NgChip, Ng!ResetChip, Ng!Automatic
<1>3. /\ CopiesCurrent /\ KeptOverSleep /\ ~Ng!Configured
      /\ AsStarted /\ ByHand(ngChip, auto)
  BY DEF AsStarted, ByHand, Ng!Automatic, Ng!Init, CopiesCurrent, Ng!CopiesCurrent, KeptOverSleep, Ng!KeptOverSleep, Ng!Configured
<1> QED BY <1>2, <1>3 DEF NgInv

LEMMA RestartInv ==
    ASSUME NgInv, Ng!Restart
    PROVE  NgInv'
<1>1. Ng!ZeroRegisters \in NgRegisters
  BY StartRegisters
<1>2. NgTypes'
  BY <1>1 DEF Ng!Restart, NgInv, NgTypes, Ng!Automatic
<1>3. /\ CopiesCurrent' /\ KeptOverSleep' /\ ~Ng!Configured'
      /\ AsStarted' /\ ByHand(ngChip', auto')
  BY DEF AsStarted, ByHand, Ng!Automatic, Ng!Restart, CopiesCurrent, Ng!CopiesCurrent, KeptOverSleep, Ng!KeptOverSleep, Ng!Configured
<1> QED BY <1>2, <1>3 DEF NgInv

LEMMA InitializeInv ==
    ASSUME NgInv, Ng!Initialize
    PROVE  NgInv'
<1>1. Ng!ResetRegisters \in NgRegisters
  BY StartRegisters
<1>2. /\ ngChip' = Ng!ResetChip /\ ngRegs' = Ng!ResetRegisters
      /\ ngPhase = "off" /\ ngPhase' = "on" /\ UNCHANGED <<ngSettings, auto, ngAntenna, debounce>>
  BY DEF Ng!Initialize
<1>3. ngChip'.regs = Ng!ResetRegisters /\ IsNgChip(ngChip') /\ ~ngChip'.configured
  BY <1>1, <1>2 DEF Ng!ResetChip, IsNgChip, NgChip
<1>4. NgTypes'
  BY <1>1, <1>2, <1>3 DEF NgInv, NgTypes
<1>5. CopiesCurrent'
  BY <1>1, <1>2, <1>3, CopiesParts DEF CopiesCurrent, Ng!CopiesCurrent
<1>6. KeptOverSleep'
  BY <1>2 DEF KeptOverSleep, Ng!KeptOverSleep, Ng!ResetChip, NgInv, AsStarted
<1>7. ByHand(ngChip', auto')
  BY <1>2 DEF NgInv, AsStarted, ByHand, Ng!Automatic
<1> QED BY <1>2, <1>3, <1>4, <1>5, <1>6, <1>7 DEF NgInv, Ng!Configured

LEMMA ConfigureInv ==
    ASSUME NgInv, NEW c \in NgConfigurations, Ng!ApplyConfiguration(c)
    PROVE  NgInv'
<1>1. PICK s, n : /\ s = Ng!ConfiguredSettings(c) /\ n = Ng!ConfiguredRegisters(ngRegs, c)
                  /\ ngSettings' = s /\ ngRegs' = n
  BY DEF Ng!ApplyConfiguration
<1>2. n \in NgRegisters /\ Linked(s, n) /\ n.sfd = c.sfd /\ n.rate = c.rate
  BY <1>1, ConfiguredLinked DEF NgInv, NgTypes
<1>3. PICK h : h = ngChip /\ IsNgChip(h)
  BY DEF NgInv, NgTypes
<1>4. PICK power, pgdelay, length :
        /\ power = (IF auto.power THEN Ng!txpowertune(s) ELSE h.txpower)
        /\ pgdelay = (IF auto.pgdelay THEN Ng!tcpgdelaytune(s) ELSE h.pgdelay)
        /\ length = (IF c.sfd = "standard" THEN h.sfdLength ELSE Ng!nonStandardSFDLength(c.rate))
  OBVIOUS
<1>5. ngChip' = NgChip(n, Ng!tune(s), power, pgdelay, length, h.antenna, h.debounce, h.wakes, TRUE)
  BY <1>1, <1>3, <1>4 DEF Ng!ApplyConfiguration, IsNgChip, NgChip
<1>6. ngPhase = "on" /\ UNCHANGED <<auto, ngAntenna, debounce, ngPhase>>
  BY DEF Ng!ApplyConfiguration, Ng!Awake
<1>7. NgTypes'
  BY <1>1, <1>2, <1>5, <1>6 DEF NgInv, NgTypes, IsNgChip, NgChip
<1>8. CopiesCurrent' /\ KeptOverSleep'
  BY <1>1, <1>2, <1>3, <1>5, <1>6, CopiesParts
     DEF NgInv, CopiesCurrent, Ng!CopiesCurrent, KeptOverSleep, Ng!KeptOverSleep, NgChip
<1>9. Tuned(s, ngChip', auto) /\ ByHand(ngChip', auto)
  BY <1>2, <1>3, <1>4, <1>5 DEF NgInv, Tuned, ByHand, NgChip
<1>10. Linked(s, ngChip'.regs)
  BY <1>2, <1>5 DEF NgChip
<1> QED BY <1>1, <1>6, <1>7, <1>8, <1>9, <1>10 DEF NgInv

\* The transmit power and the pulse generator delay, set by hand or asked for again.
LEMMA PowerInv ==
    ASSUME NgInv, Ng!SetTXPower \/ Ng!SetTXPowerAuto \/ Ng!SetTCPGDelay \/ Ng!SetTCPGDelayAuto
    PROVE  NgInv'
<1>1. PICK h, a : h = ngChip /\ IsNgChip(h) /\ a = auto /\ a \in [power : BOOLEAN, pgdelay : BOOLEAN]
  BY DEF NgInv, NgTypes
<1> DEFINE ThePower == /\ ngChip'.pgdelay = h.pgdelay /\ auto'.pgdelay = a.pgdelay
                       /\ ngChip'.txpower = IF auto'.power THEN Ng!txpowertune(ngSettings) ELSE Manual
           TheDelay == /\ ngChip'.txpower = h.txpower /\ auto'.power = a.power
                       /\ ngChip'.pgdelay = IF auto'.pgdelay THEN Ng!tcpgdelaytune(ngSettings) ELSE Manual
           TheRest ==
             /\ IsNgChip(ngChip') /\ auto' \in [power : BOOLEAN, pgdelay : BOOLEAN]
             /\ ngChip'.regs = h.regs /\ ngChip'.tuning = h.tuning /\ ngChip'.sfdLength = h.sfdLength
             /\ ngChip'.antenna = h.antenna /\ ngChip'.debounce = h.debounce
             /\ ngChip'.configured = h.configured
<1>2. TheRest /\ (ThePower \/ TheDelay)
  <2>1. CASE Ng!SetTXPower
    <3>1. ngChip' = [h EXCEPT !.txpower = Manual] /\ auto' = [a EXCEPT !.power = FALSE]
      BY <1>1, <2>1 DEF Ng!SetTXPower
    <3>2. TheRest BY <1>1, <3>1 DEF IsNgChip, NgChip
    <3>3. ThePower BY <1>1, <3>1 DEF IsNgChip, NgChip
    <3> QED BY <3>2, <3>3
  <2>2. CASE Ng!SetTXPowerAuto
    <3>1. ngChip' = [h EXCEPT !.txpower = Ng!txpowertune(ngSettings)] /\ auto' = [a EXCEPT !.power = TRUE]
      BY <1>1, <2>2 DEF Ng!SetTXPowerAuto
    <3>2. TheRest BY <1>1, <3>1 DEF IsNgChip, NgChip
    <3>3. ThePower BY <1>1, <3>1 DEF IsNgChip, NgChip
    <3> QED BY <3>2, <3>3
  <2>3. CASE Ng!SetTCPGDelay
    <3>1. ngChip' = [h EXCEPT !.pgdelay = Manual] /\ auto' = [a EXCEPT !.pgdelay = FALSE]
      BY <1>1, <2>3 DEF Ng!SetTCPGDelay
    <3>2. TheRest BY <1>1, <3>1 DEF IsNgChip, NgChip
    <3>3. TheDelay BY <1>1, <3>1 DEF IsNgChip, NgChip
    <3> QED BY <3>2, <3>3
  <2>4. CASE Ng!SetTCPGDelayAuto
    <3>1. ngChip' = [h EXCEPT !.pgdelay = Ng!tcpgdelaytune(ngSettings)] /\ auto' = [a EXCEPT !.pgdelay = TRUE]
      BY <1>1, <2>4 DEF Ng!SetTCPGDelayAuto
    <3>2. TheRest BY <1>1, <3>1 DEF IsNgChip, NgChip
    <3>3. TheDelay BY <1>1, <3>1 DEF IsNgChip, NgChip
    <3> QED BY <3>2, <3>3
  <2> QED BY <2>1, <2>2, <2>3, <2>4
<1>3. ngPhase = "on" /\ UNCHANGED <<ngSettings, ngAntenna, debounce, ngRegs, ngPhase>>
  BY DEF Ng!SetTXPower, Ng!SetTXPowerAuto, Ng!SetTCPGDelay, Ng!SetTCPGDelayAuto, Ng!Awake
<1>4. NgTypes'
  BY <1>2, <1>3 DEF NgInv, NgTypes
<1>5. CopiesCurrent' /\ KeptOverSleep'
  BY <1>1, <1>2, <1>3 DEF NgInv, CopiesCurrent, Ng!CopiesCurrent, KeptOverSleep, Ng!KeptOverSleep
<1>6. ByHand(ngChip', auto') /\ (Tuned(ngSettings, h, a) => Tuned(ngSettings, ngChip', auto'))
  BY <1>1, <1>2 DEF NgInv, ByHand, Tuned
<1> QED BY <1>1, <1>2, <1>3, <1>4, <1>5, <1>6 DEF NgInv, Ng!Configured

\* A write of _syscfg brings the choice of the buffers along and changes no setting.
LEMMA WriteInv ==
    ASSUME NgInv, NEW filter \in BOOLEAN, NEW timeout \in BOOLEAN,
           Ng!WriteSystemConfiguration([ngRegs EXCEPT !.filter = filter, !.timeout = timeout])
    PROVE  NgInv'
<1>1. PICK h, q, r : /\ h = ngChip /\ IsNgChip(h) /\ q = ngRegs /\ q \in NgRegisters
                     /\ r = [q EXCEPT !.filter = filter, !.timeout = timeout]
  BY DEF NgInv, NgTypes
<1>2. /\ r \in NgRegisters /\ r.filter = filter /\ r.timeout = timeout
      /\ r.ext = q.ext /\ r.reenable = q.reenable /\ r.smart = q.smart /\ r.rxm110k = q.rxm110k
      /\ r.double = q.double /\ r.rate = q.rate /\ r.prf = q.prf /\ r.chanPrf = q.chanPrf
      /\ r.prealen = q.prealen /\ r.channel = q.channel /\ r.code = q.code /\ r.sfd = q.sfd
  BY <1>1 DEF NgRegisters
<1>3. PICK n : n = [h.regs EXCEPT !.ext = r.ext, !.reenable = r.reenable, !.smart = r.smart,
                      !.rxm110k = r.rxm110k, !.filter = r.filter, !.timeout = r.timeout,
                      !.double = r.double]
  OBVIOUS
<1>4. ngRegs' = r /\ ngChip' = [h EXCEPT !.regs = n]
  BY <1>1, <1>3 DEF Ng!WriteSystemConfiguration
<1>5. /\ ngPhase = "on" /\ ngPhase' = "on"
      /\ UNCHANGED <<ngSettings, auto, ngAntenna, debounce>>
  BY DEF Ng!WriteSystemConfiguration, Ng!Awake
<1>6. h.regs \in NgRegisters
  BY <1>1 DEF IsNgChip
<1>7. [q EXCEPT !.double = h.regs.double] = h.regs
  BY <1>1, <1>5 DEF NgInv, CopiesCurrent, Ng!CopiesCurrent
<1>8. /\ q.ext = h.regs.ext /\ q.reenable = h.regs.reenable /\ q.smart = h.regs.smart
      /\ q.rxm110k = h.regs.rxm110k /\ q.rate = h.regs.rate /\ q.prf = h.regs.prf
      /\ q.chanPrf = h.regs.chanPrf /\ q.prealen = h.regs.prealen /\ q.channel = h.regs.channel
      /\ q.code = h.regs.code /\ q.sfd = h.regs.sfd
  BY <1>1, <1>6, <1>7, CopiesParts
<1>9. n = r
  <2>1. n.ext = r.ext /\ n.reenable = r.reenable /\ n.smart = r.smart /\ n.rxm110k = r.rxm110k
        /\ n.filter = r.filter /\ n.timeout = r.timeout /\ n.double = r.double
    BY <1>3, <1>6 DEF NgRegisters
  <2>2. n.rate = h.regs.rate /\ n.prf = h.regs.prf /\ n.chanPrf = h.regs.chanPrf
        /\ n.prealen = h.regs.prealen /\ n.channel = h.regs.channel /\ n.code = h.regs.code
        /\ n.sfd = h.regs.sfd
    BY <1>3, <1>6 DEF NgRegisters
  <2>3. n = [ ext |-> n.ext, reenable |-> n.reenable, smart |-> n.smart, rxm110k |-> n.rxm110k,
              filter |-> n.filter, timeout |-> n.timeout, double |-> n.double, rate |-> n.rate,
              prf |-> n.prf, chanPrf |-> n.chanPrf, prealen |-> n.prealen, channel |-> n.channel,
              code |-> n.code, sfd |-> n.sfd ]
    BY <1>3, <1>6 DEF NgRegisters
  <2>4. r = [ ext |-> r.ext, reenable |-> r.reenable, smart |-> r.smart, rxm110k |-> r.rxm110k,
              filter |-> r.filter, timeout |-> r.timeout, double |-> r.double, rate |-> r.rate,
              prf |-> r.prf, chanPrf |-> r.chanPrf, prealen |-> r.prealen, channel |-> r.channel,
              code |-> r.code, sfd |-> r.sfd ]
    BY <1>2 DEF NgRegisters
  <2>5. /\ n.rate = r.rate /\ n.prf = r.prf /\ n.chanPrf = r.chanPrf /\ n.prealen = r.prealen
        /\ n.channel = r.channel /\ n.code = r.code /\ n.sfd = r.sfd
    BY <1>2, <1>8, <2>2
  <2> QED BY <2>1, <2>3, <2>4, <2>5
<1>10. /\ IsNgChip(ngChip') /\ ngChip'.regs = r /\ ngChip'.tuning = h.tuning
       /\ ngChip'.txpower = h.txpower /\ ngChip'.pgdelay = h.pgdelay
       /\ ngChip'.sfdLength = h.sfdLength /\ ngChip'.antenna = h.antenna
       /\ ngChip'.debounce = h.debounce /\ ngChip'.configured = h.configured
  BY <1>1, <1>2, <1>4, <1>9 DEF IsNgChip, NgChip
<1>11. NgTypes'
  BY <1>2, <1>4, <1>5, <1>10 DEF NgInv, NgTypes
<1>12. CopiesCurrent' /\ KeptOverSleep'
  <2>1. [r EXCEPT !.double = r.double] = r
    BY <1>2, CopiesParts
  <2>2. CopiesCurrent'
    BY <1>4, <1>10, <2>1 DEF CopiesCurrent, Ng!CopiesCurrent
  <2> QED BY <1>1, <1>5, <1>10, <2>2 DEF NgInv, KeptOverSleep, Ng!KeptOverSleep
<1>13. ByHand(ngChip', auto')
  BY <1>1, <1>5, <1>10 DEF NgInv, ByHand
<1>14. ASSUME Ng!Configured'
       PROVE  Linked(ngSettings', ngChip'.regs) /\ Tuned(ngSettings', ngChip', auto')
  <2>1. Linked(ngSettings, h.regs) /\ Tuned(ngSettings, h, auto)
    BY <1>1, <1>5, <1>10, <1>14 DEF NgInv, Ng!Configured
  <2>2. Ng!Meant(r, ngSettings.nlos) = Ng!Meant(h.regs, ngSettings.nlos)
    BY <1>2, <1>8 DEF Ng!Meant
  <2>3. Linked(ngSettings, r)
    BY <1>2, <1>8, <2>1, <2>2 DEF Linked
  <2>4. Tuned(ngSettings, ngChip', auto)
    BY <1>2, <1>8, <1>10, <2>1 DEF Tuned
  <2> QED BY <1>5, <1>10, <2>3, <2>4
<1> QED BY <1>5, <1>11, <1>12, <1>13, <1>14 DEF NgInv

LEMMA BuffersInv ==
    ASSUME NgInv, NEW val \in BOOLEAN, Ng!SetDoubleBuffering(val)
    PROVE  NgInv'
<1>1. PICK q, h : /\ q = ngRegs /\ h = ngChip.regs /\ q \in NgRegisters /\ h \in NgRegisters
  BY DEF NgInv, NgTypes, IsNgChip
<1>2. PICK n : n = [q EXCEPT !.double = val]
  OBVIOUS
<1>3. /\ ngRegs' = n /\ ngPhase = "on"
      /\ UNCHANGED <<ngSettings, auto, ngAntenna, debounce, ngChip, ngPhase>>
  BY <1>1, <1>2 DEF Ng!SetDoubleBuffering, Ng!Awake
<1>4. n \in NgRegisters /\ [n EXCEPT !.double = h.double] = [q EXCEPT !.double = h.double]
  BY <1>1, <1>2 DEF NgRegisters
<1>5. NgTypes'
  BY <1>3, <1>4 DEF NgInv, NgTypes
<1>6. CopiesCurrent' /\ KeptOverSleep'
  BY <1>1, <1>3, <1>4 DEF NgInv, CopiesCurrent, Ng!CopiesCurrent, KeptOverSleep, Ng!KeptOverSleep
<1> QED BY <1>3, <1>5, <1>6 DEF NgInv, Ng!Configured

\* The antenna delays and the debounce clock, and the sleep that forgets both.
LEMMA SleepInv ==
    ASSUME NgInv,
           \/ \E tx, rx : Ng!SetAntennaDelay(tx, rx)
           \/ Ng!EnableDebounceClock \/ Ng!ApplySleepConfiguration \/ Ng!DeepSleep \/ Ng!SpiWakeup
    PROVE  NgInv'
<1>1. PICK h : h = ngChip /\ IsNgChip(h)
  BY DEF NgInv, NgTypes
<1>2. ngPhase # "off" /\ ngPhase' # "off" /\ UNCHANGED <<ngSettings, auto, ngRegs>>
  BY DEF Ng!SetAntennaDelay, Ng!EnableDebounceClock, Ng!ApplySleepConfiguration, Ng!DeepSleep,
         Ng!SpiWakeup, Ng!Awake
<1> DEFINE Same == /\ IsNgChip(ngChip') /\ ngChip'.regs = h.regs /\ ngChip'.tuning = h.tuning
                   /\ ngChip'.txpower = h.txpower /\ ngChip'.pgdelay = h.pgdelay
                   /\ ngChip'.sfdLength = h.sfdLength /\ ngChip'.configured = h.configured
<1>3. Same /\ KeptOverSleep'
  <2>1. CASE \E tx, rx : Ng!SetAntennaDelay(tx, rx)
    <3>1. ngPhase = "on" /\ ngChip' = [h EXCEPT !.antenna = ngAntenna'] /\ debounce' = debounce
      BY <1>1, <2>1 DEF Ng!SetAntennaDelay, Ng!Awake
    <3>2. ngChip'.antenna = ngAntenna' /\ ngChip'.debounce = h.debounce /\ h.debounce = debounce
      BY <1>1, <3>1 DEF IsNgChip, NgChip, NgInv, KeptOverSleep, Ng!KeptOverSleep
    <3>3. Same BY <1>1, <3>1 DEF IsNgChip, NgChip
    <3> QED BY <3>1, <3>2, <3>3 DEF KeptOverSleep, Ng!KeptOverSleep
  <2>2. CASE Ng!EnableDebounceClock
    <3>1. ngPhase = "on" /\ ngChip' = [h EXCEPT !.debounce = TRUE] /\ ngAntenna' = ngAntenna
          /\ debounce' = TRUE
      BY <1>1, <2>2 DEF Ng!EnableDebounceClock, Ng!Awake
    <3>2. ngChip'.antenna = h.antenna /\ ngChip'.debounce = TRUE /\ h.antenna = ngAntenna
      BY <1>1, <3>1 DEF IsNgChip, NgChip, NgInv, KeptOverSleep, Ng!KeptOverSleep
    <3>3. Same BY <1>1, <3>1 DEF IsNgChip, NgChip
    <3> QED BY <3>1, <3>2, <3>3 DEF KeptOverSleep, Ng!KeptOverSleep
  <2>3. CASE Ng!ApplySleepConfiguration
    <3>1. /\ ngChip' = [h EXCEPT !.wakes = TRUE] /\ UNCHANGED <<ngAntenna, debounce, ngPhase>>
      BY <1>1, <2>3 DEF Ng!ApplySleepConfiguration
    <3>2. ngChip'.antenna = h.antenna /\ ngChip'.debounce = h.debounce
      BY <1>1, <3>1 DEF IsNgChip, NgChip
    <3>3. Same BY <1>1, <3>1 DEF IsNgChip, NgChip
    <3> QED BY <1>1, <3>1, <3>2, <3>3 DEF NgInv, KeptOverSleep, Ng!KeptOverSleep
  <2>4. CASE Ng!DeepSleep
    <3>1. ngChip' = [h EXCEPT !.antenna = Ng!NoDelay, !.debounce = FALSE] /\ ngPhase' = "asleep"
      BY <1>1, <2>4 DEF Ng!DeepSleep
    <3>2. Same BY <1>1, <3>1 DEF IsNgChip, NgChip
    <3> QED BY <3>1, <3>2 DEF KeptOverSleep, Ng!KeptOverSleep
  <2>5. CASE Ng!SpiWakeup /\ ngPhase = "on"
    BY <1>1, <2>5 DEF Ng!SpiWakeup, NgInv, KeptOverSleep, Ng!KeptOverSleep
  <2>6. CASE Ng!SpiWakeup /\ ngPhase # "on"
    <3>1. /\ ngChip' = [h EXCEPT !.antenna = ngAntenna, !.debounce = debounce]
          /\ UNCHANGED <<ngAntenna, debounce>>
      BY <1>1, <2>6 DEF Ng!SpiWakeup
    <3>2. ngChip'.antenna = ngAntenna /\ ngChip'.debounce = debounce
      BY <1>1, <3>1 DEF IsNgChip, NgChip
    <3>3. Same BY <1>1, <3>1 DEF IsNgChip, NgChip
    <3> QED BY <3>1, <3>2, <3>3 DEF KeptOverSleep, Ng!KeptOverSleep
  <2> QED BY <2>1, <2>2, <2>3, <2>4, <2>5, <2>6
<1>4. NgTypes'
  BY <1>2, <1>3 DEF NgInv, NgTypes
<1>5. CopiesCurrent'
  BY <1>1, <1>2, <1>3 DEF NgInv, CopiesCurrent, Ng!CopiesCurrent
<1>6. ByHand(ngChip', auto) /\ (Tuned(ngSettings, h, auto) => Tuned(ngSettings, ngChip', auto))
  BY <1>1, <1>3 DEF NgInv, ByHand, Tuned
<1> QED BY <1>1, <1>2, <1>3, <1>4, <1>5, <1>6 DEF NgInv, Ng!Configured

LEMMA NgNextInv ==
    ASSUME NgInv, Ng!Next
    PROVE  NgInv'
<1>1. Configurations \subseteq NgConfigurations
  <2>1. Ng!Channels = Channels /\ Ng!Rates = Rates /\ Ng!PulseFrequencies = PulseFrequencies
    BY DEF Ng!Channels, Channels, Ng!Rates, Rates, Ng!PulseFrequencies, PulseFrequencies
  <2>2. Ng!PreambleLengths = PreambleLengths
    BY DEF Ng!PreambleLengths, PreambleLengths
  <2>3. Ng!PreambleCodes = PreambleCodes
    BY DEF Ng!PreambleCodes, PreambleCodes
  <2>4. Ng!DeviceConfigurations = NgConfigurations
    BY <2>1, <2>2, <2>3 DEF Ng!DeviceConfigurations, NgConfigurations
  <2> QED BY <2>4, NgValues DEF NgValues, Ng!NgAssumption
<1>2. PICK q : q = ngRegs /\ q \in NgRegisters
  BY DEF NgInv, NgTypes
<1>3. CASE \/ Ng!EnableFrameFiltering \/ Ng!DisableFrameFiltering
           \/ \E period \in 0..1 : Ng!SetReceiveFrameWaitTimeoutPeriod(period)
  <2>1. PICK filter \in BOOLEAN, timeout \in BOOLEAN :
          Ng!WriteSystemConfiguration([q EXCEPT !.filter = filter, !.timeout = timeout])
    <3>1. \A b : /\ [q EXCEPT !.filter = b] = [q EXCEPT !.filter = b, !.timeout = q.timeout]
                 /\ [q EXCEPT !.timeout = b] = [q EXCEPT !.filter = q.filter, !.timeout = b]
      BY <1>2 DEF NgRegisters
    <3>2. q.timeout \in BOOLEAN /\ q.filter \in BOOLEAN
      BY <1>2 DEF NgRegisters
    <3>3. CASE Ng!EnableFrameFiltering
      <4>1. Ng!WriteSystemConfiguration([q EXCEPT !.filter = TRUE, !.timeout = q.timeout])
        BY <1>2, <3>1, <3>3 DEF Ng!EnableFrameFiltering
      <4> QED BY <3>2, <4>1
    <3>4. CASE Ng!DisableFrameFiltering
      <4>1. Ng!WriteSystemConfiguration([q EXCEPT !.filter = FALSE, !.timeout = q.timeout])
        BY <1>2, <3>1, <3>4 DEF Ng!DisableFrameFiltering
      <4> QED BY <3>2, <4>1
    <3>5. CASE \E period \in 0..1 : Ng!SetReceiveFrameWaitTimeoutPeriod(period)
      <4>1. PICK b \in BOOLEAN : Ng!WriteSystemConfiguration([q EXCEPT !.timeout = b])
        <5>1. PICK period \in 0..1 : Ng!SetReceiveFrameWaitTimeoutPeriod(period)
          BY <3>5
        <5>2. Ng!WriteSystemConfiguration([q EXCEPT !.timeout = (period > 0)])
          BY <1>2, <5>1 DEF Ng!SetReceiveFrameWaitTimeoutPeriod
        <5>3. CASE period > 0
          <6>1. Ng!WriteSystemConfiguration([q EXCEPT !.timeout = TRUE])
            BY <5>2, <5>3
          <6> QED BY <6>1
        <5>4. CASE ~(period > 0)
          <6>1. Ng!WriteSystemConfiguration([q EXCEPT !.timeout = FALSE])
            <7>1. (period > 0) = FALSE
              BY <5>1, <5>4
            <7> QED BY <5>2, <7>1
          <6> QED BY <6>1
        <5> QED BY <5>3, <5>4
      <4>2. Ng!WriteSystemConfiguration([q EXCEPT !.filter = q.filter, !.timeout = b])
        BY <3>1, <4>1
      <4> QED BY <3>2, <4>2
    <3> QED BY <1>3, <3>3, <3>4, <3>5
  <2> QED BY <1>2, <2>1, WriteInv
<1>4. CASE \E c \in Configurations : Ng!ApplyConfiguration(c)
  BY <1>1, <1>4, ConfigureInv
<1>5. CASE \E val \in BOOLEAN : Ng!SetDoubleBuffering(val)
  BY <1>5, BuffersInv
<1> QED BY <1>3, <1>4, <1>5, InitializeInv, RestartInv, PowerInv, SleepInv DEF Ng!Next

LEMMA OnceInv ==
    ASSUME NgInv, Once
    PROVE  NgInv'
<1>1. EveryConfiguration \subseteq NgConfigurations
  BY DEF EveryConfiguration, NgConfigurations
<1> QED BY <1>1, InitializeInv, RestartInv, ConfigureInv DEF Once

LEMMA EitherNgInv == EitherSpec => []NgInv
<1>1. EitherInit => NgInv
  BY NgInitInv DEF EitherInit
<1>2. NgInv /\ [EitherNext]_<<library, vars, NgVars>> => NgInv'
  <2> SUFFICES ASSUME NgInv, [EitherNext]_<<library, vars, NgVars>> PROVE NgInv'
    OBVIOUS
  <2>1. CASE UNCHANGED NgVars
    BY <2>1 DEF NgVars, NgInv, NgTypes, AsStarted, CopiesCurrent, Ng!CopiesCurrent, KeptOverSleep,
                Ng!KeptOverSleep, Ng!Configured
  <2> QED BY <2>1, NgNextInv, OnceInv DEF EitherNext
<1> QED BY <1>1, <1>2, PTL DEF EitherSpec

\* The tuning registers hold what belongs to the rate, frequency, preamble, code and channel
\* in the chip, for every set of configurations, over sleep and restarts (DW1000Ng.cpp:793).
THEOREM NgTunedAlways == EitherSpec => []NgTuned
<1>1. NgInv => NgTuned
  BY DEF NgInv, NgTuned, Ng!NgTuned, Linked, Tuned
<1> QED BY <1>1, EitherNgInv, PTL

\* The preamble code on the air is one of the channel at its frequency, whatever code was
\* asked for (DW1000Ng.cpp:970).
THEOREM CodeAlwaysValid == EitherSpec => []CodeValid
<1>1. NgInv => CodeValid
  BY DEF NgInv, CodeValid, Ng!CodeValid, Linked
<1> QED BY <1>1, EitherNgInv, PTL

\* What is set by hand stays, what is automatic follows the channel (DW1000Ng.cpp:806).
THEOREM PowerAlwaysFollows == EitherSpec => []PowerFollows
<1>1. NgInv => PowerFollows
  BY DEF NgInv, PowerFollows, Ng!PowerFollows, Linked, Tuned
<1> QED BY <1>1, EitherNgInv, PTL

\* An awake chip has the antenna delays and the debounce clock it was given
\* (DW1000Ng.cpp:1472).
THEOREM KeptAlways == EitherSpec => []KeptOverSleep
<1> QED BY EitherNgInv, PTL DEF NgInv

\* The driver's copies are the registers of the chip, but for the choice of the buffers
\* (DW1000Ng.cpp:1708).
THEOREM CopiesAlways == EitherSpec => []CopiesCurrent
<1> QED BY EitherNgInv, PTL DEF NgInv
=============================================================================
