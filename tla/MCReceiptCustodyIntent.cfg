SPECIFICATION Spec
CONSTANTS
  NULL = NULL
  AlignmentLevel <- MCAlignmentLevel
  Contexts <- MCContexts
  Releases <- MCReleases
  SealedPath <- MCSealedPath
  OtherPath <- MCOtherPath
  MaxAlterations = 1
INVARIANTS
  StatedIntentWasSealed
CHECK_DEADLOCK FALSE
