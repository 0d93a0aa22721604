CONSTANTS
  Cls <- MCCls
  NumSlots = 2
  FaultSlots = 1
  NULL = NULL
  FaultChoices <- MCFaultsNone
SPECIFICATION Spec
INVARIANT LinkFollowsDeclarations
