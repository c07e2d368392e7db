CONSTANTS
  Workers = {p1}
  Windows = {w1, w2}
  NoEntry = NoEntry
  NoTree = NoTree
  Kinds = {"read", "element", "element_observe", "coordinate", "coordinate_observe", "foreground"}
  Spill = FALSE
  TTL = 2
  MaxWindows = 1
  MaxWalk = 1
  MaxVersion = 2
SPECIFICATION FairSpec
INVARIANT
  ReadsSeeFinishedActions
PROPERTY
  EventuallyCoherent
