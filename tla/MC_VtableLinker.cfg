CONSTANTS
  Cls <- MCCls
  NumSlots = 2
  FaultSlots = 1
  NULL = NULL
  FaultChoices <- MCFaultsAll
SPECIFICATION Spec
INVARIANTS TypeOK InheritedSlotsDispatchToSuper LinkOutcome
PROPERTIES LinkTerminates
