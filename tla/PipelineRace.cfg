CONSTANTS
  Workers = {p1, p2}
  Kinds = {"element", "coordinate", "capture"}
  MaxActions = 2
  SessionTicks = 3
  PerMinute = 1
  Minute = 1
  Unlimited = Unlimited
  NoCall = NoCall
  MaxCalls = 4
  Denied = {"element"}
  MaxSteps = 4
  MaxStumbles = 1
SPECIFICATION PipeSpec
SYMMETRY Symmetric
INVARIANTS
  OvershootBounded
  RateOvershootBounded
  CausedByNewestInput
  LedgerBalances
CHECK_DEADLOCK FALSE
