CONSTANTS
  Callers = {t1, t2, t3}
  MaxInt = 7
  Seeds = {0, 3, 5, 6, 7}
  MaxCalls = 5
SYMMETRY Symmetry
CHECK_DEADLOCK FALSE
SPECIFICATION Spec
INVARIANT IdsNonNegative
