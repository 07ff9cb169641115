SPECIFICATION FairSpec
CONSTANTS
  g1 = g1
  g2 = g2
  Users <- TwoUsers
  Guilds <- OneGuild
  Postgres = FALSE
  Grace = 1
  BatchLimit = 1
  MaxNow = 2
  MaxRequests = 1
  MaxFaults = 1
INVARIANTS ServersHaveAnActiveOwner
PROPERTIES DueAccountsAreErasedUnlessStuck ClaimedAccountsAreErased
CHECK_DEADLOCK FALSE
