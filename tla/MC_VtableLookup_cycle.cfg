CONSTANTS
  Kexts = {"k1", "k2", "k3"}
  MaxDeps = 2
  DepInputs <- MCDepInputs
  NULL = NULL
  NONE = NONE
SPECIFICATION Spec
CONSTRAINT StackDepthBound
INVARIANT RecursionBounded
