SPECIFICATION Spec
CONSTANTS
  t1 = t1
  t2 = t2
  t3 = t3
  Tasks <- TwoTasks
  MaxTokens = 4
SYMMETRY TaskSymmetry
INVARIANTS TypeOK NoSessionDiesOfReuse OneUsableTokenPerSession
PROPERTIES OnlyDeadCredentialsAreErased
CHECK_DEADLOCK FALSE
