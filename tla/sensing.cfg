SPECIFICATION Spec
CONSTANTS
    Fault <- MCFault
    Severity <- MCSeverity
    Debounce <- MCDebounce
    Inhibited = {}
    StaleWindow = 2
    BiasSamples = 3
    QuietCounts = 32
    Rates <- MCRates
    BusLevels = {"low", "ok"}
    TempLevels = {"ok"}
    MaxFailures = 1
    Cuts <- MCCuts
INVARIANTS DullLatched BlameTheBroken BiasFromStillness
