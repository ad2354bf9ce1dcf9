SPECIFICATION Spec
CONSTANTS
  NULL = NULL
  AlignmentLevel <- MCAlignmentLevel
  Contexts <- MCContexts
  Releases <- MCReleases
  SealedPath <- MCSealedPath
  OtherPath <- MCOtherPath
  MaxAlterations = 2
INVARIANTS
  TypeOK
  AcceptedFieldsAsSealed
  NoPillarGrafted
  StampedDisclosureTruthful
  UntouchedVerifies
CHECK_DEADLOCK FALSE
