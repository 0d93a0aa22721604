CONSTANTS
  Kexts <- MCKexts
  MaxDeps = 2
  DepInputs <- MCDepInputs
  NULL = NULL
  NONE = NONE
  BuildOrder <- MCBuildOrder
  ScratchCap = 2
  VtableNames = {"VtA", "VtB"}
  VtableAt <- MCVtableAt
  CxxSymbolAt <- MCCxxSymbolAt
  CxxInputs <- MCCxxInputs
  Target = "VtA"
SPECIFICATION CtxSpec
CONSTRAINT StackDepthBound
INVARIANTS
  CtxTypeOK
  BuildStaysInBuffers
  LinkedVtablesAsDeclared
PROPERTIES
  RefinesLookupSpec
  LookupTerminates
