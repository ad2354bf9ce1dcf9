SPECIFICATION Spec
CONSTANTS
  NULL = NULL
  AlignmentLevel <- MCAlignmentLevel
  Tool <- MCTool
  IncludesRead <- MCTool
  IncludesEmail <- MCNone
  IncludesHttp <- MCNone
  StartsWithSql <- MCNone
  HopKinds <- MCHopKinds
  Recorders <- MCRelativeRecorders
  ConstraintClosures <- MCNoClosure
  Options <- MCOptions
  MaxHops = 2
  MaxFaults = 0
  MaxRelease = 2
INVARIANTS
  ReadyIsUniformlyEnforced
CHECK_DEADLOCK FALSE
