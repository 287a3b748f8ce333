SPECIFICATION FairSpec
CONSTANTS
  Sizes = {1, 2}
  DoneKept = 1
  RequestMax = 2
  ReqDepth = 2
  MaxCaptures = 2
  MaxBoots = 0
  Captures = "settled"
PROPERTIES TransferRefined GapsFilled
