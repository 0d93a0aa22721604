CONSTANTS
  Files <- MCFiles
  Calls <- MCCalls
  NULL = NULL
SPECIFICATION Spec
INVARIANT TypeOK
INVARIANT AcceptsWellFormed
INVARIANT SectionIndexIsOrdinal
INVARIANT CachedSymtabsChecked
PROPERTY CallsReturn
