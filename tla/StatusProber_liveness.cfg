SPECIFICATION FairSpec
CONSTANTS
  Keys = {k1}
  Hashes = {h1, h2}
  Pods = {p1}
  MaxStates = 2
  MaxURLs = 1
  Limits <- LivenessLimits
PROPERTIES CancelledIsSettled QueueDrains ProbingEnds 
CHECK_DEADLOCK FALSE
