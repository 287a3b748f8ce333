SPECIFICATION Spec
CONSTANTS
    Cap = 3
    Every = 2
    DialPhase = 1
    WirePeriod = 5
INVARIANTS BeaconsInOrder DropsRemembered
PROPERTIES BeaconLeaves
