SPECIFICATION Spec
CONSTANTS
  g1 = g1
  g2 = g2
  Users <- TwoUsers
  Guilds <- OneGuild
  Postgres = TRUE
  Grace = 1
  BatchLimit = 1
  MaxNow = 2
  MaxRequests = 2
  MaxFaults = 0
INVARIANTS ErasedProfilesHoldNoEmail
CHECK_DEADLOCK FALSE
