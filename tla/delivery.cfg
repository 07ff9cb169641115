SPECIFICATION FairSpec
CONSTANTS
  m1 = m1
  m2 = m2
  Loop = loop
  Retry = retry
  Messages <- OneMessage
  MaxAttempts = 2
  MaxEvents = 2
INVARIANTS TypeOK CacheFollowsServer
PROPERTIES ExactlyOnce PendingSettles
CHECK_DEADLOCK FALSE
