------------------------------ MODULE NgTuning ------------------------------
(***************************************************************************)
(* What _tune() of DW1000Ng.cpp writes into the chip's tuning registers.   *)
(* Most tables are those of DW1000.cpp; the kind of start-of-frame         *)
(* delimiter (standardSFD) and the optimisation for an obstructed line of  *)
(* sight (nlos) come in, and channel 5 has another pulse generator delay.  *)
(***************************************************************************)
EXTENDS Tuning

agctune1(s)  == AGC_TUNE1(s.prf)
drxtune0b(s) ==
    IF s.standardSFD THEN OfRate(s.rate, "000A", "0001", "0001")
                     ELSE OfRate(s.rate, "0016", "0006", "0002")
drxtune1a(s) == DRX_TUNE1a(s.prf)
drxtune1b(s) == DRX_TUNE1b(s.rate, s.prealen)
drxtune2(s)  == DRX_TUNE2(s.pac, s.prf)
drxtune4H(s) == DRX_TUNE4H(s.prealen)
ldecfg1(s)   == IF s.nlos THEN "07" ELSE "0D"
ldecfg2(s)   == OfFrequency(s.prf, IF s.nlos THEN "0003" ELSE "1607", "0607")
lderepc(s)   == LDE_REPC(s.code, s.rate)
txpowertune(s) == TX_POWER(s.channel, s.prf, s.smart)
rfrxctrlh(s) == RF_RXCTRLH(s.channel)
rftxctrl(s)  == RF_TXCTRL(s.channel)
tcpgdelaytune(s) == IF s.channel = 5 THEN "B5" ELSE TC_PGDELAY(s.channel)
fspll(s)     == FS_PLL(s.channel)

\* All but TX_POWER and TC_PGDELAY, which the sketch may have set by hand.
tune(s) ==
    [ AGC_TUNE1  |-> agctune1(s),  DRX_TUNE0b |-> drxtune0b(s),
      DRX_TUNE1a |-> drxtune1a(s), DRX_TUNE1b |-> drxtune1b(s),
      DRX_TUNE2  |-> drxtune2(s),  DRX_TUNE4H |-> drxtune4H(s),
      LDE_CFG1   |-> ldecfg1(s),   LDE_CFG2   |-> ldecfg2(s),
      LDE_REPC   |-> lderepc(s),   RF_RXCTRLH |-> rfrxctrlh(s),
      RF_TXCTRL  |-> rftxctrl(s),  FS_PLL     |-> fspll(s) ]
=============================================================================
