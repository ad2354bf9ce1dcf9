SPECIFICATION Spec
CONSTANTS
  NULL = NULL
  AlignmentLevel <- MCAlignmentLevel
  Tool <- MCTool
  IncludesRead <- MCTool
  IncludesEmail <- MCNone
  IncludesHttp <- MCNone
  StartsWithSql <- MCNone
  HopKinds <- MCHopKinds
  Recorders <- MCRecorders
  ConstraintClosures <- MCConstraintClosures
  Options <- MCConstraintOptions
  MaxHops = 2
  MaxFaults = 0
  MaxRelease = 2
INVARIANTS
  ConstraintClosureHonoured
CHECK_DEADLOCK FALSE
