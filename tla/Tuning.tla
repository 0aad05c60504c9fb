------------------------------- MODULE Tuning -------------------------------
(***************************************************************************)
(* What tune() of DW1000.cpp writes into the chip's tuning registers: for  *)
(* each register a table over the settings of the driver.  Values are the  *)
(* hexadecimal constants of the code, as names.  A branch that sets        *)
(* nothing leaves the bytes that happen to be on the stack: Undefined.     *)
(***************************************************************************)
EXTENDS Naturals

Rates == {110, 850, 6800}
PulseFrequencies == {16, 64}
PreambleLengths == {64, 128, 256, 512, 1024, 1536, 2048, 4096}
Channels == {1, 2, 3, 4, 5, 7}
PreambleCodes == 1..12 \cup 17..20

Undefined == "undefined"

OfFrequency(prf, at16, at64) ==
    CASE prf = 16 -> at16 [] prf = 64 -> at64 [] OTHER -> Undefined
OfRate(rate, at110, at850, at6800) ==
    CASE rate = 110 -> at110 [] rate = 850 -> at850 [] rate = 6800 -> at6800
      [] OTHER -> Undefined
OfChannel(channel, on1, on2, on3, on4, on5, on7) ==
    CASE channel = 1 -> on1 [] channel = 2 -> on2 [] channel = 3 -> on3
      [] channel = 4 -> on4 [] channel = 5 -> on5 [] channel = 7 -> on7
      [] OTHER -> Undefined
-----------------------------------------------------------------------------
AGC_TUNE1(prf) == OfFrequency(prf, "8870", "889B")

DRX_TUNE0b(rate) == OfRate(rate, "0016", "0006", "0001")

DRX_TUNE1a(prf) == OfFrequency(prf, "0087", "008D")

\* Mutant of DRX_TUNE1b: 2048 symbols forgotten.
DRX_TUNE1bTooShort(rate, len) ==
    IF len = 4096 THEN OfRate(rate, "0064", Undefined, Undefined)
    ELSE IF len # 64 THEN OfRate(rate, Undefined, "0020", "0020")
    ELSE OfRate(rate, Undefined, Undefined, "0010")

\* A preamble has to be long enough for the slow rate and short enough for
\* the fast ones; no branch sets the register for the other combinations.
DRX_TUNE1b(rate, len) ==
    IF len \in {1536, 2048, 4096} THEN OfRate(rate, "0064", Undefined, Undefined)
    ELSE IF len # 64 THEN OfRate(rate, Undefined, "0020", "0020")
    ELSE OfRate(rate, Undefined, Undefined, "0010")

DRX_TUNE2(pac, prf) ==
    CASE pac = 8  -> OfFrequency(prf, "311A002D", "313B006B")
      [] pac = 16 -> OfFrequency(prf, "331A0052", "333B00BE")
      [] pac = 32 -> OfFrequency(prf, "351A009A", "353B015E")
      [] pac = 64 -> OfFrequency(prf, "371A011D", "373B0296")
      [] OTHER    -> Undefined

DRX_TUNE4H(len) == IF len = 64 THEN "0010" ELSE "0028"

RF_RXCTRLH(channel) == IF channel \in {4, 7} THEN "BC" ELSE "D8"

RF_TXCTRL(channel) ==
    OfChannel(channel, "005C40", "045CA0", "086CC0", "045C80", "1E3FE0", "1E7DE0")

TC_PGDELAY(channel) == OfChannel(channel, "C9", "C2", "C5", "95", "C0", "93")

\* FS_PLLCFG and FS_PLLTUNE are set by the same branches.
FS_PLL(channel) ==
    LET of24 == "08400508 26"  of57 == "0800041D BE"
    IN  OfChannel(channel, "09000407 1E", of24, "08401009 56", of24, of57, of57)

LDE_CFG2(prf) == OfFrequency(prf, "1607", "0607")

\* One eighth of the value at 110 kb/s.
LDE_REPC(code, rate) ==
    LET repc(value, eighth) == IF rate = 110 THEN eighth ELSE value
    IN  CASE code \in {1, 2}   -> repc("5998", "0B33")
          [] code \in {3, 8}   -> repc("51EA", "0A3D")
          [] code = 4          -> repc("428E", "0851")
          [] code = 5          -> repc("451E", "08A3")
          [] code = 6          -> repc("2E14", "05C2")
          [] code = 7          -> repc("8000", "1000")
          [] code = 9          -> repc("28F4", "051E")
          [] code \in {10, 17} -> repc("3332", "0666")
          [] code = 11         -> repc("3AE0", "075C")
          [] code = 12         -> repc("3D70", "07AE")
          [] code \in {18, 19} -> repc("35C2", "06B8")
          [] code = 20         -> repc("47AE", "08F5")
          [] OTHER             -> Undefined

TX_POWER(channel, prf, smart) ==
    LET power(smart16, manual16, smart64, manual64) ==
          IF smart THEN OfFrequency(prf, smart16, smart64)
                   ELSE OfFrequency(prf, manual16, manual64)
        of12 == power("15355575", "75757575", "07274767", "67676767")
    IN  OfChannel(channel, of12, of12,
          power("0F2F4F6F", "6F6F6F6F", "2B4B6B8B", "8B8B8B8B"),
          power("1F1F3F5F", "5F5F5F5F", "3A5A7A9A", "9A9A9A9A"),
          power("0E082848", "48484848", "25456585", "85858585"),
          power("32527292", "92929292", "5171B1D1", "D1D1D1D1"))
-----------------------------------------------------------------------------
(***************************************************************************)
(* All registers at once; the constant ones (AGC_TUNE2, AGC_TUNE3,         *)
(* LDE_CFG1) and the crystal trim, which is read from the chip, are left   *)
(* out.                                                                    *)
(***************************************************************************)
Tune(s) ==
    [ AGC_TUNE1  |-> AGC_TUNE1(s.prf),
      DRX_TUNE0b |-> DRX_TUNE0b(s.rate),
      DRX_TUNE1a |-> DRX_TUNE1a(s.prf),
      DRX_TUNE1b |-> DRX_TUNE1b(s.rate, s.prealen),
      DRX_TUNE2  |-> DRX_TUNE2(s.pac, s.prf),
      DRX_TUNE4H |-> DRX_TUNE4H(s.prealen),
      LDE_CFG2   |-> LDE_CFG2(s.prf),
      LDE_REPC   |-> LDE_REPC(s.code, s.rate),
      TX_POWER   |-> TX_POWER(s.channel, s.prf, s.smart),
      RF_RXCTRLH |-> RF_RXCTRLH(s.channel),
      RF_TXCTRL  |-> RF_TXCTRL(s.channel),
      TC_PGDELAY |-> TC_PGDELAY(s.channel),
      FS_PLL     |-> FS_PLL(s.channel) ]

AllDefined(tuning) == \A r \in DOMAIN tuning : tuning[r] # Undefined
=============================================================================
