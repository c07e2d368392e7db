CONSTANTS
  Workers = {p1, p2}
  Traces = {h1, h2}
  NoTrace = NoTrace
  MaxRows = 3
SPECIFICATION Spec
SYMMETRY Symmetric
INVARIANTS
  EveryRowWritten
  ClosedIsCleared
  StartedTraceRecords
PROPERTIES
  ClosedTracesRest
  OnlyRivalsReplace
