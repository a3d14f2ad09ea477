SPECIFICATION FairSpec
CONSTANTS
  Specs = {a, b}
  MeshSpecs = {}
  GatewaySpecs = {b}
  TLSSpecs = {b}
  Absent = Absent
  Foreign = Foreign
  InitModes = {"gateway"}
  Budgets <- LivenessBudgets
PROPERTIES
  EventuallyReady
  DeletionCompletes
CHECK_DEADLOCK FALSE
