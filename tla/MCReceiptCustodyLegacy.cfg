SPECIFICATION Spec
CONSTANTS
  NULL = NULL
  AlignmentLevel <- MCAlignmentLevel
  Contexts <- MCContexts
  Releases <- MCReleases
  SealedPath <- MCSealedPath
  OtherPath <- MCOtherPath
  MaxAlterations = 0
INVARIANTS
  LegacyIntentContextVerifies
CHECK_DEADLOCK FALSE
