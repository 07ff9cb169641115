SPECIFICATION Spec
CONSTANTS
  m1 = m1
  m2 = m2
  Messages <- MCMessages
  MaxVersions = 2
INVARIANT TextIsKept
CHECK_DEADLOCK FALSE
