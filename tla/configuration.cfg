SPECIFICATION EitherSpec
CONSTANTS
    SomeRates = {110, 850, 6800}
    SomeLengths = {64, 512, 1536}
    SomeChannels = {3, 4}
    SomeCodes = {20}
    AntennaDelays = {0}
    NgDelays = {0, 16436}
    Configurations <- MCConfigurations
    Manual = "manual"
INVARIANTS TunedForRegisters AntennaDelayApplied ModesTuned
    NgTuned CodeValid PowerFollows KeptOverSleep CopiesCurrent
