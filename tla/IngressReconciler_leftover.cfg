SPECIFICATION Spec
CONSTANTS
  Specs = {a}
  MeshSpecs = {}
  GatewaySpecs = {a}
  TLSSpecs = {a}
  Absent = Absent
  Foreign = Foreign
  InitModes = {"gateway"}
  Budgets <- DeleteBudgets
INVARIANTS
  NothingLeftBehind
CHECK_DEADLOCK FALSE
