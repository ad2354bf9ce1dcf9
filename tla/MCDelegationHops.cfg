SPECIFICATION Spec
CONSTANTS
  NULL = NULL
  AlignmentLevel <- MCAlignmentLevel
  Kinds = {"cross_org"}
  Tags = {"a", "b"}
  Issue <- MCIssue
  Verifies <- MCVerifies
  Options <- MCOptions
  Reseal <- MCReseal
  Parts <- MCParts
  Lists <- MCLists
  Promised <- MCPromised
  Earned <- MCEarned
  MaxFaults = 1
INVARIANTS
  EveryHopProved
CHECK_DEADLOCK FALSE
