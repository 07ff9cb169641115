SPECIFICATION ServicesSpec
CONSTANTS
  ada = ada
  ben = ben
  cyd = cyd
  fay = fay
  r1 = r1
  r2 = r2
  ema = ema
  gil = gil
  None = None
  Everyone = Everyone
  Users <- Staff
  Founder = fay
  Roles <- Connections
  Grants <- Delegations
  MaxPosition = 2
  MaxOverwrites = 0
  MlsDevices <- Three
  Stock = 1
  MaxEpoch = 3
  MaxIncidents = 1
  RightsUsers <- Pair
  RightsRoles <- OneRole
  RightsGrants <- Channelled
  RightsMaxPosition = 1
  RightsMaxOverwrites = 1
  ResolverRoles <- Connections
  ResolverGrants <- Granted
  ResolverRules <- Overrides
  KeyDevices <- Addresses
  MaxKeys = 2
  MaxKeyPasswords = 3
  MaxBatches = 3
  MaxDrops = 1
  GateDevices <- Two
  Sockets <- Connections
  MaxPublished = 2
  MaxRequests = 2
  Emails <- Addresses
  Typed <- OneAddress
  Subjects <- Identities
  AppleEmail <- VerifiedEmail
  Flows <- OneFlow
  MaxCodeAttempts = 1
  MaxSessions = 2
  MaxAccountPasswords = 2
  MaxCodes = 1
  MaxProofs = 1
  People <- Three
  FileUploads <- Two
  Contents <- OneContent
  Authors <- Speakers
  Requests <- Two
  AutomodRules <- BanAndTimeout
  Threshold = 2
  MaxRuleChanges = 2
  MaxForgotten = 1
  VoiceMembers <- Two
  MaxEvictions = 3
  MaxAccessChanges = 2
  Persons <- Three
  Nicknames <- OneName
  Own <- SameName
  MaxTries = 3
  MaxFaults = 1
  Messages <- Two
  MaxVersions = 2
  MaxCacheKeys = 2
  MaxFailures = 2
INVARIANTS
  TypesOK MembersCatchUp PositionsAreDistinct ResolverAgrees PasswordOpens KeysAgree CodesAtHand
  BarredHearNothing PresenceSettles OneSessionEach RowsAgree FilesStay CacheIsCurrent
  RepeatsAreStopped OutsidersStayOut RetriesAreRecognised NamesAreKept CacheIsKept
PROPERTIES NoOverthrow NobodyRaisesThemselves JoinsOnProof
VIEW View
SYMMETRY Symmetry
CHECK_DEADLOCK FALSE
