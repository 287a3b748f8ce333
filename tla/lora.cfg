SPECIFICATION Spec
CONSTANTS
    MaxBeacons = 3
    MaxCommands = 3
    MaxMute = 1
    MaxLost = 1
    MaxResets = 1
INVARIANTS DeafOnlyWhileSending UnreadIsNew
PROPERTIES ListensAgain
CHECK_DEADLOCK FALSE
