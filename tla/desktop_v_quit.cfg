SPECIFICATION Spec
CONSTANTS
  t1 = t1
  t2 = t2
  t3 = t3
  Tasks <- TwoTasks
  MaxTokens = 3
INVARIANTS SessionsSurviveQuitting
CHECK_DEADLOCK FALSE
