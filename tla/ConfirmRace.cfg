CONSTANTS
  Threads = {p1, p2}
  Tokens = {t1, t2}
  Elements = {e1, e2}
  Guarded = {e1}
  Verbs = {"click_element", "drag"}
  Places = {0, 2}
  Tolerance = 1
  TTL = 1
  None = None
SPECIFICATION ConfirmSpec
SYMMETRY Symmetric
CONSTRAINT OneHardThing
INVARIANT GuardedActsAreGranted
PROPERTIES
  SpentStaysSpent
  ImplementsGrants
