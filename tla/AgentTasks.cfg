CONSTANTS
  Windows = {w1, w2}
  NoWindow = NoWindow
  NoIndex = NoIndex
  NoTitle = NoTitle
  MaxTurns = 2
  Retries = 1
  Known = {a}
  Basic = {}
  Keyed = {{}}
  Kinds = {"observe", "element", "raise"}
  Ways = {"none", "both"}
  MaxBatch = 2
  MaxTasks = 1
  MaxMoves = 1
SPECIFICATION Spec
INVARIANTS
  CallsAreAnswered
  RequestsBounded
  CarriedOutOnce
  NamedWindowIsHit
PROPERTY TaskEnds
CHECK_DEADLOCK FALSE
