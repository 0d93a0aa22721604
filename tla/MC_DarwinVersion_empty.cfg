CONSTANTS
  VersionBufLen = 8
  Texts <- MCTexts
  Windows <- MCWindows
  Versions <- MCVersions
  EmptyComponentTexts <- MCEmptyComponent
  NONE = NONE
SPECIFICATION Spec
INVARIANT EmptyComponentRejected
