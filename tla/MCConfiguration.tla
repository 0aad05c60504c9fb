--------------------------- MODULE MCConfiguration ---------------------------
(***************************************************************************)
(* Instances of both configurations for TLC.  A node is built with one of  *)
(* the two libraries; the variables of the other one stay at their start.  *)
(* "once" is DW1000Ng with one configuration, of all that there are.       *)
(***************************************************************************)
EXTENDS ConfigurationProperties

CONSTANTS Configurations, NgDelays, Manual

VARIABLES
    library,   \* the one the node is built with
    ngSettings, auto, ngAntenna, debounce, ngRegs, ngChip, ngPhase

Ng == INSTANCE NgConfigurationProperties
        WITH AntennaDelays <- NgDelays, settings <- ngSettings, antenna <- ngAntenna, regs <- ngRegs,
             chip <- ngChip, phase <- ngPhase

ASSUME NgValues == Ng!NgAssumption

NgVars == <<ngSettings, auto, ngAntenna, debounce, ngRegs, ngChip, ngPhase>>

EveryConfiguration ==
    [ ext : BOOLEAN, reenable : {TRUE}, smart : {TRUE}, nlos : BOOLEAN,
      sfd : {"standard", "decawave"}, channel : Channels, rate : Rates,
      prf : PulseFrequencies, prealen : PreambleLengths, code : PreambleCodes ]
Once ==
    \/ Ng!Initialize \/ Ng!Restart
    \/ ~ngChip.configured /\ \E c \in EveryConfiguration : Ng!ApplyConfiguration(c)

EitherInit == library \in {"DW1000", "DW1000Ng", "once"} /\ Init /\ Ng!Init
EitherNext ==
    /\ \/ library = "DW1000"   /\ Next    /\ UNCHANGED NgVars
       \/ library = "DW1000Ng" /\ Ng!Next /\ UNCHANGED vars
       \/ library = "once" /\ Once /\ UNCHANGED vars
    /\ UNCHANGED library
EitherSpec == EitherInit /\ [][EitherNext]_<<library, vars, NgVars>>

NgTuned       == Ng!NgTuned
CodeValid     == Ng!CodeValid
PowerFollows  == Ng!PowerFollows
KeptOverSleep == Ng!KeptOverSleep
CopiesCurrent == Ng!CopiesCurrent

MCConfigurations ==
    { c \in [ ext : {FALSE}, reenable : {TRUE}, smart : BOOLEAN, nlos : BOOLEAN,
              sfd : {"standard", "decawave"}, channel : {4, 5}, rate : {110, 850},
              prf : PulseFrequencies, prealen : {256, 4096}, code : {3, 17} ] :
      /\ c.prealen = 4096 <=> c.rate = 110
      /\ c.nlos => c.smart }
=============================================================================
