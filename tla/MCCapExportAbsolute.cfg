SPECIFICATION Spec
CONSTANTS
  NULL = NULL
  AlignmentLevel <- MCAlignmentLevel
  Tool <- MCTool
  IncludesRead <- MCTool
  IncludesEmail <- MCNone
  IncludesHttp <- MCNone
  StartsWithSql <- MCNone
  HopKinds <- MCHopKinds
  Recorders <- MCAbsoluteRecorders
  ConstraintClosures <- MCNoClosure
  Options <- MCOptions
  MaxHops = 2
  MaxFaults = 0
  MaxRelease = 2
INVARIANTS
  AbsoluteIndexVerifies
CHECK_DEADLOCK FALSE
