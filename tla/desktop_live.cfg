SPECIFICATION FairSpec
CONSTANTS
  t1 = t1
  t2 = t2
  t3 = t3
  Tasks <- TwoTasks
  MaxTokens = 3
PROPERTIES SavedSessionsComeBack OperationsEnd
CHECK_DEADLOCK FALSE
