---------------------- MODULE NgConfigurationProperties ----------------------
(***************************************************************************)
(* What has to hold of a chip configured by DW1000Ng.cpp, whatever was     *)
(* configured before, over sleep and over restarts of the microcontroller. *)
(***************************************************************************)
EXTENDS NgConfiguration

Configured == phase # "off" /\ chip.configured

\* The settings the chip's registers stand for.
Meant(r, nlos) ==
    [ rate |-> r.rate, prf |-> r.prf, prealen |-> r.prealen,
      pac |-> setPreambleLength(r.prealen), code |-> r.code, channel |-> r.channel,
      smart |-> r.smart, nlos |-> nlos, standardSFD |-> (r.sfd = "standard") ]

\* The tuning, written from the driver's variables (DW1000Ng.cpp:793-811), is
\* the one that belongs to what the chip's registers say, written from the
\* copies (844-848): also when the preamble code had to be corrected after
\* both were set (1801-1802), and with a special delimiter of the right length.
NgTuned ==
    Configured =>
        LET r == chip.regs
        IN  /\ chip.tuning = tune(Meant(r, settings.nlos))
            /\ r.chanPrf = r.prf
            /\ r.rxm110k = (r.rate = 110)
            /\ r.sfd # "standard" => chip.sfdLength = nonStandardSFDLength(r.rate)

\* Whatever code, channel and pulse frequency a configuration combines, the
\* code on the air is one that the channel has at that frequency
\* (DW1000Ng.cpp:970-1018, the matrices of DW1000NgConstants.hpp:75-97).
CodeValid ==
    Configured => chip.regs.code \in ValidCodes(chip.regs.channel, chip.regs.prf)

\* A transmit power or a pulse generator delay set by hand lasts until the
\* automatic one is asked for again, over configurations and sleep; an
\* automatic one is always that of the channel, the frequency and the smart
\* power bit in the chip's registers (DW1000Ng.cpp:806-809, 1874-1915).
PowerFollows ==
    Configured =>
        LET m == Meant(chip.regs, settings.nlos)
        IN  /\ chip.txpower = (IF auto.power THEN txpowertune(m) ELSE Manual)
            /\ chip.pgdelay = (IF auto.pgdelay THEN tcpgdelaytune(m) ELSE Manual)

\* While the driver believes the chip awake the chip has the antenna delays
\* and the debounce clock the sketch has set, although it forgets them in
\* sleep (DW1000Ng.cpp:1472-1487).
KeptOverSleep ==
    phase = "on" => /\ chip.antenna = antenna
                    /\ chip.debounce = debounce

\* The copies the driver writes whole registers from are those of the chip,
\* so that no write brings back an older setting; the choice of the buffers
\* is written by the next write of _syscfg only (DW1000Ng.cpp:1708).
CopiesCurrent ==
    phase # "off" => [regs EXCEPT !.double = chip.regs.double] = chip.regs
=============================================================================
