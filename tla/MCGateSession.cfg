SPECIFICATION Spec
CONSTANTS
  Tool <- MCTool
  IncludesRead <- MCIncludesRead
  IncludesEmail <- MCIncludesEmail
  IncludesHttp <- MCNone
  StartsWithSql <- MCNone
  NULL = NULL
  a1 = a1
  a2 = a2
  Agent <- MCAgent
  MaxSteps = 3
SYMMETRY MCSymmetry
INVARIANTS
  TypeOK
  NoLaundering
  RejectionMeansOverlap
PROPERTIES
  BudgetNeverWidens
CHECK_DEADLOCK FALSE
