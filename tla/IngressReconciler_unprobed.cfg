SPECIFICATION Spec
CONSTANTS
  Specs = {a, b}
  MeshSpecs = {}
  GatewaySpecs = {}
  TLSSpecs = {}
  Absent = Absent
  Foreign = Foreign
  InitModes = {"gateway"}
  Budgets <- FailedProbeBudgets
INVARIANTS
  ReadyImpliesProbed
CHECK_DEADLOCK FALSE
