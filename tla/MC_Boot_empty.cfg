CONSTANTS
  Kexts = {1, 2}
  Patches = {1}
  Blocks = {1}
  KextConfigs <- MCEmptyPlistConfigs
  PatchConfigs <- MCPatchConfigs
  BlockConfigs <- MCBlockConfigs
  Versions = {1, 3}
  ReserveBase = 1
  MaxOpens = 2
  DisableResults = {TRUE, FALSE}
  NumDrivers = 2
  DriverConfigs <- MCDriverConfigs
  Regions <- MCRegions
  MmioEntries <- MCMmioEntries
  HandlerMax = 5
  MaxSchedules = 6
  NULL = NULL
SPECIFICATION Spec
INVARIANT HookStateSound
VIEW BootView
