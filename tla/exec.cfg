SPECIFICATION Spec
CONSTANTS
  Fault = {"COMMAND_LINK_LOSS", "UNDERVOLTAGE", "POWER_DROPOUT"}
  Inhibited = {}
  CommandTimeout = 2
  BootCheckCycles = 2
  DetumbleDoneCycles = 1
  DetumbleEnterCycles = 1
  PulseTicks = 2
  Severity <- ShippedSeverity
  Debounce <- BriefDebounce
  Uplink <- GroundUplink
  Environment <- FlightEnvironment
INVARIANTS CriticalMeansSafe PulseBounded PointsAtChosenBearing
PROPERTIES SafeLeftByGround LatchEdges BootCheckSound DisqualifiedNotHeld CommandObeyed ModesRefined
