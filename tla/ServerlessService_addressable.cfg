SPECIFICATION FairSpec
CONSTANTS
  MaxUid = 2
  Absent = Absent
  Budget <- MixedBudget
INVARIANTS
  TypeOK
  AddressableAtRest
PROPERTIES
  NeverTakenOver
  EventuallyAddressable
CHECK_DEADLOCK FALSE
