SPECIFICATION Spec
CONSTANTS
  Specs = {a, b}
  MeshSpecs = {}
  GatewaySpecs = {b}
  TLSSpecs = {b}
  Absent = Absent
  Foreign = Foreign
  InitModes = {"gateway", "mesh"}
  Budgets <- FaultBudgets
INVARIANTS
  ObservedGenerationOrder
  FinalizerHeld
  NoProbeOfRemovedIngress
  ReadyImpliesApplied
  
PROPERTIES
  ObservedGenerationMonotone
CHECK_DEADLOCK FALSE
