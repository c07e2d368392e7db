CONSTANTS
  Clients = {c1}
  Modes = {"full", "since", "changed", "silent"}
  Windows = {w1, w2}
  Tokens = {t1, t2}
  MaxVersion = 1
  NoEntry = NoEntry
  NoTree = NoTree
  NoToken = NoToken
  TTL = 1
  MaxWindows = 1
  Ring = 1
  TokenTTL = 1
  Captures <- Nat
SPECIFICATION Spec
SYMMETRY Symmetric
INVARIANT DiffsNameTheirBase
PROPERTIES
  NeverBack
  ChangesFromWhatWasShown
