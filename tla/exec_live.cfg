SPECIFICATION FairSpec
CONSTANTS
  Fault = {"COMMAND_LINK_LOSS", "WHEEL_DROPOUT"}
  Inhibited = {}
  CommandTimeout = 3
  BootCheckCycles = 3
  DetumbleDoneCycles = 2
  DetumbleEnterCycles = 2
  PulseTicks = 5
  Severity <- ShippedSeverity
  Debounce <- UnitDebounce
  Uplink <- LiveUplink
  Environment <- LiveEnvironment
PROPERTIES DetumbleEnds SilenceSafes
