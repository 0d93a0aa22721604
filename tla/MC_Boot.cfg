CONSTANTS
  Kexts = {1, 2}
  Patches = {1}
  Blocks = {1}
  KextConfigs <- MCKextConfigs
  PatchConfigs <- MCPatchConfigs
  BlockConfigs <- MCBlockConfigs
  Versions = {1, 3}
  ReserveBase = 1
  MaxOpens = 2
  DisableResults = {TRUE}
  NumDrivers = 2
  DriverConfigs <- MCDriverConfigs
  Regions <- MCRegions
  MmioEntries <- MCMmioEntries
  HandlerMax = 5
  MaxSchedules = 6
  NULL = NULL
SPECIFICATION Spec
INVARIANTS TypeOK InjectionHasRoom InjectsLiveKexts KextBuffersOwned KernelBuffersOwned ConnectListFits HandlerWalkInBounds
VIEW BootView
