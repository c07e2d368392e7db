CONSTANTS
  Workers = {p1, p2}
  Windows = {w1, w2}
  NoEntry = NoEntry
  NoTree = NoTree
  Kinds = {"read", "element", "raise"}
  Spill = TRUE
  TTL = 1
  MaxWindows = 1
  MaxWalk = 1
  MaxVersion = 1
SPECIFICATION Spec
SYMMETRY Symmetric
INVARIANTS
  BoundedStaleness
  ReceiptSeesOwnAction
