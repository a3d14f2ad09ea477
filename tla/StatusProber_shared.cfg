SPECIFICATION Spec
CONSTANTS
  Keys = {k1, k2}
  Hashes = {h1}
  Pods = {p1}
  MaxStates = 2
  MaxURLs = 2
  Limits <- SharedLimits
INVARIANTS VerdictSound
PROPERTIES ProberImplementsContract
CHECK_DEADLOCK FALSE
