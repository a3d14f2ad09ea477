SPECIFICATION FairSpec
CONSTANTS
  Keys = {k1}
  Hashes = {h1, h2}
  Pods = {p1}
  MaxStates = 1
  MaxURLs = 1
  Limits <- DeletionLimits
PROPERTIES DeletedPodIsDropped
CHECK_DEADLOCK FALSE
