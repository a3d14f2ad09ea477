SPECIFICATION FairSpec
CONSTANTS
  Ingresses <- ThreeIngresses
  Gateways <- TwoGateways
  Defaults <- Configured
  Populations <- Pairs
  Budgets <- SomeBudgets
INVARIANTS
  TypeOK
  ReleasedLeavesNoServer
  CopyKeptForLive
PROPERTIES
  OthersServersKept
  FinalizationEnds
  CopyRestored
CHECK_DEADLOCK FALSE
