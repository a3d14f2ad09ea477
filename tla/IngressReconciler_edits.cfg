SPECIFICATION Spec
CONSTANTS
  Specs = {a, b}
  MeshSpecs = {a}
  GatewaySpecs = {}
  TLSSpecs = {}
  Absent = Absent
  Foreign = Foreign
  InitModes = {"gateway"}
  Budgets <- EditBudgets
INVARIANTS
  TypeOK
  ReadyImpliesProbed
  ConvergedWhenQuiescent
PROPERTIES
  ForeignNeverOverwritten
CHECK_DEADLOCK FALSE
