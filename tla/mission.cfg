SPECIFICATION Spec
CONSTANTS
    LegCount = 2
    Breakaway = 2
    SweepMax = 2
    DownDepth = 1
    MaxEvents = 3
    Starts = {"shoot", "survey", "recover", "sweep"}
PROPERTIES Aimed CapturedInItsStep MacrosHonest
