SPECIFICATION Spec
CONSTANTS
  Callers = {s, t}
  Gens = {g1, g2, g3}
  None = None
  MaxData = 3
INVARIANTS
  TypeOK
  DataInUse
  ReleasedOnce
  OneGenerator
  ActiveHasOwner
CHECK_DEADLOCK FALSE
SYMMETRY Symmetry
