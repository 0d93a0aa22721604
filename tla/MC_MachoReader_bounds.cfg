CONSTANTS
  Files <- MCFiles
  Calls <- MCCalls
  NULL = NULL
SPECIFICATION Spec
INVARIANT AccessorsStayInBounds
