SPECIFICATION Spec
CONSTANTS
  Sizes = {2}
  MaxCaptures = 2
INVARIANTS OneSelected FrameInStep
PROPERTIES ControlFirst
