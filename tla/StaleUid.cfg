CONSTANTS
  Windows = {w1, w2}
  NoWindow = NoWindow
  NoIndex = NoIndex
  NoTitle = NoTitle
  MaxTurns = 1
  Retries = 0
  Known = {a}
  Basic = {a}
  Keyed = {{}}
  Kinds = {"element"}
  Ways = {"uid"}
  MaxBatch = 1
  MaxTasks = 1
  MaxMoves = 1
SPECIFICATION Spec
INVARIANT ClosedWindowIsGone
CHECK_DEADLOCK FALSE
