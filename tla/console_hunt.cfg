SPECIFICATION Spec
CONSTANTS
  Calls = {c1, c2}
  Connects = {k1}
  None = None
INVARIANTS
  RingingIsHunted
CHECK_DEADLOCK FALSE
