SPECIFICATION Spec
CONSTANTS
  Keys = {k1}
  Hashes = {h1, h2}
  Pods = {p1, p2}
  MaxStates = 2
  MaxURLs = 1
  Limits <- RaceLimits
INVARIANTS TypeOK PendingCountExact CallbackOnce NotReadyIsFollowedUp
SYMMETRY ProberSymmetry
CHECK_DEADLOCK FALSE
