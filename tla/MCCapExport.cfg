SPECIFICATION Spec
CONSTANTS
  NULL = NULL
  AlignmentLevel <- MCAlignmentLevel
  Tool <- MCTool
  IncludesRead <- MCTool
  IncludesEmail <- MCNone
  IncludesHttp <- MCNone
  StartsWithSql <- MCNone
  HopKinds <- MCHopKinds
  Recorders <- MCRecorders
  ConstraintClosures <- MCNoClosure
  Options <- MCOptions
  MaxHops = 2
  MaxFaults = 1
  MaxRelease = 2
INVARIANTS
  TypeOK
  OkBundleIsGenuine
  HandoffSound
  CheckedHandoffIsCurrent
  CompleteExportHandsOff
CHECK_DEADLOCK FALSE
