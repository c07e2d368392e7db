CONSTANTS
  Workers = {p1}
  Windows = {w1}
  NoEntry = NoEntry
  NoTree = NoTree
  Kinds = {"read", "coordinate_observe"}
  Spill = FALSE
  TTL = 1
  MaxWindows = 1
  MaxWalk = 1
  MaxVersion = 1
SPECIFICATION Spec
INVARIANT ObservationSeesOwnAction
