SPECIFICATION FairSpec
CONSTANTS
  g1 = g1
  g2 = g2
  Users <- ThreeUsers
  Guilds <- OneGuild
  Postgres = TRUE
  Grace = 1
  BatchLimit = 2
  MaxNow = 2
  MaxRequests = 1
  MaxFaults = 0
PROPERTIES DueAccountsAreErased
CHECK_DEADLOCK FALSE
