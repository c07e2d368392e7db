CONSTANTS
  Scripts <- OneScript
  None = None
  Timeout = 3
  Poll = 1
  Quiet = 2
  MaxSlow = 0
  Paths = {"r.0", "r.1", "r.2"}
  Texts = {"alice"}
  Verbs = {"click_element", "type_text", "set_value"}
  WaitLists <- Waited
  Asserts <- Asserted
  Hints = {None, "tip"}
SPECIFICATION MockSpec
INVARIANTS
  LastingConditionsAreSeen
  IdleWasQuiet
  AllPassedHeld
PROPERTIES
  LoginNeedsBothFields
  TypedIntoFocused
  EveryWaitEnds
