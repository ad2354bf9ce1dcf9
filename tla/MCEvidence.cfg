SPECIFICATION Spec
CONSTANTS
  NULL = NULL
  AlignmentLevel <- MCAlignmentLevel
  Kinds <- MCKinds
  Tags = {"a", "b"}
  Issue <- MCIssue
  Verifies <- MCVerifies
  Options <- MCOptions
  Reseal <- MCReseal
  Parts <- MCParts
  Lists <- MCLists
  Promised <- MCPromised
  Earned <- MCEarned
  MaxFaults = 2
INVARIANTS
  TypeOK
  AcceptedWasIssuedTogether
  UntouchedVerifies
  ClaimsAreEarned
CHECK_DEADLOCK FALSE
