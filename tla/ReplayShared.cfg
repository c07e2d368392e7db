CONSTANTS
  Steppers = {p1, p2}
  Objects = {r1, r2}
  NoReplay = NoReplay
  Total = 3
  Modes = {"execute", "verify"}
  OnDivergence = {"stop", "warn"}
SPECIFICATION ReplaySpec
SYMMETRY Symmetric
INVARIANTS
  PositionCountsCalls
  EachRowOnce
PROPERTY
  StopsOnDivergence
