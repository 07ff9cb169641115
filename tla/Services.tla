------------------------------ MODULE Services ------------------------------
(***************************************************************************)
(* The services that share no state, side by side: the initial state picks *)
(* one of them, which alone moves; the variables of the others stay as     *)
(* their Init leaves them.  ServerRoles is there twice, extended (roles)   *)
(* and instantiated with constants of its own for the overwrites of a      *)
(* channel (overwrites); both have the same variables and the same         *)
(* properties.                                                             *)
(***************************************************************************)
EXTENDS ServerRoles

CONSTANTS
    None,
    \* MlsDelivery
    MlsDevices, Stock, MaxEpoch, MaxIncidents,
    \* ServerRoles, with overwrites
    RightsUsers, RightsRoles, RightsGrants, RightsMaxPosition, RightsMaxOverwrites,
    \* PermissionResolver
    ResolverRoles, ResolverGrants, ResolverRules,
    \* AccountKey
    KeyDevices, MaxKeys, MaxKeyPasswords, MaxBatches, MaxDrops,
    \* Gateway
    GateDevices, Sockets, MaxPublished, MaxRequests,
    \* SignIn
    Emails, Typed, Subjects, AppleEmail, Flows, MaxCodeAttempts, MaxSessions,
    MaxAccountPasswords, MaxCodes, MaxProofs,
    \* Relationships
    People,
    \* Attachments
    FileUploads, Contents,
    \* Automod
    Authors, Requests, AutomodRules, Threshold, MaxRuleChanges, MaxForgotten,
    \* Voice
    VoiceMembers, MaxEvictions, MaxAccessChanges,
    \* Registration
    Persons, Nicknames, Own, MaxTries, MaxFaults,
    \* PrivateHistory
    Messages, MaxVersions,
    \* LocalCache
    MaxCacheKeys, MaxFailures

Parts == {"mls", "roles", "overwrites", "resolver", "key", "gateway", "signin", "pairs",
          "files", "automod", "voice", "registration", "history", "cache"}

VARIABLES
    part,
    \* MlsDelivery
    identity, packages, claims, roster, mailbox, reach, ready, group, op, stranded, incidents,
    \* PermissionResolver
    question, answer,
    \* AccountKey
    password, vault, batches, holders, local, task, shown, made, drops, unseen, twoKeys,
    \* Gateway
    authority, tokens, identities, cutDevices, cutUser, handlers, socket, connections, heard,
    published, requests, leaked, unlisted, crossed, overlapped,
    \* SignIn
    account, link, sessions, flow, callbacks, proved, code, mail, handed, recoveries,
    \* Relationships
    state, direct,
    \* Attachments
    row, objects, uploading, inspected, linking, cleanup, overran,
    \* Automod
    rules, changing, cache, message, rulesOwner, authors, silenced, ban, ruleChanges, events,
    passed, raced,
    \* Voice
    deleted, access, signing, voiceTokens, connected, evictions, changes, excused,
    \* Registration
    auth, profile, lock, request, faults, refused, overtaken,
    \* PrivateHistory
    version, sealed, texts, archive, outbox, sync, retry, read,
    \* LocalCache
    files, cacheVault, cacheKey, stage, aside, kept, keys, failed, reset, lost, failures

mlsVars == <<identity, packages, claims, roster, mailbox, reach, ready, group, op, stranded,
    incidents>>
roleTables == <<owner, members, roles, assigned, timedOut, banned, overwrites>>
rolesVars == <<roleTables, actor>>
resolverVars == <<question, answer>>
keyVars == <<password, vault, batches, holders, local, task, shown, made, drops, unseen,
    twoKeys>>
gatewayVars == <<authority, tokens, identities, unlisted, cutDevices, cutUser, handlers,
    socket, connections, heard, published, requests, leaked, crossed, overlapped>>
signInVars == <<account, link, sessions, flow, callbacks, proved, code, mail, handed,
    recoveries>>
pairsVars == <<state, direct>>
filesVars == <<row, objects, uploading, inspected, linking, cleanup, overran>>
automodVars == <<rules, changing, cache, message, rulesOwner, authors, silenced, ban,
    ruleChanges, events, passed, raced>>
voiceVars == <<deleted, access, signing, voiceTokens, connected, evictions, changes, excused>>
registrationVars == <<auth, profile, lock, request, faults, refused, overtaken>>
historyVars == <<version, sealed, texts, archive, outbox, sync, retry, read>>
cacheVars == <<files, cacheVault, cacheKey, stage, aside, kept, keys, failed, reset, lost,
    failures>>

Mls == INSTANCE MlsDelivery WITH Devices <- MlsDevices, MaxEvents <- MaxIncidents,
           local <- group, events <- incidents
Rights == INSTANCE ServerRolesProofs WITH Users <- RightsUsers, Roles <- RightsRoles,
           Grants <- RightsGrants, MaxPosition <- RightsMaxPosition,
           MaxOverwrites <- RightsMaxOverwrites
Resolver == INSTANCE PermissionResolver WITH Roles <- ResolverRoles, Grants <- ResolverGrants,
           Rules <- ResolverRules
Key == INSTANCE AccountKeyProofs WITH Devices <- KeyDevices, MaxPasswords <- MaxKeyPasswords,
           sessions <- holders, raced <- twoKeys
Gate == INSTANCE GatewayProofs WITH Devices <- GateDevices
Sign == INSTANCE SignIn WITH MaxAttempts <- MaxCodeAttempts,
           MaxPasswords <- MaxAccountPasswords, identity <- link
Pairs == INSTANCE Relationships WITH Users <- People
Files == INSTANCE Attachments WITH Uploads <- FileUploads
Mod == INSTANCE AutomodProofs WITH Rules <- AutomodRules, MaxChanges <- MaxRuleChanges,
           MaxEvents <- MaxForgotten, request <- message, owner <- rulesOwner,
           members <- authors, timedOut <- silenced, changes <- ruleChanges
Talk == INSTANCE Voice WITH Members <- VoiceMembers, MaxAttempts <- MaxEvictions,
           MaxChanges <- MaxAccessChanges, tokens <- voiceTokens
Names == INSTANCE Registration WITH Names <- Nicknames, MaxAttempts <- MaxTries
History == INSTANCE PrivateHistory WITH cache <- texts
Disk == INSTANCE LocalCache WITH MaxKeys <- MaxCacheKeys, MaxEvents <- MaxFailures,
           vault <- cacheVault, key <- cacheKey, events <- failures

\* what the theorems ask of the constants of the parts
ASSUME ServicesParameters ==
    /\ Mls!Parameters /\ Parameters /\ Rights!Parameters /\ Resolver!Parameters
    /\ Key!Parameters /\ Gate!Parameters /\ Sign!Parameters /\ Pairs!Parameters
    /\ Mod!Parameters /\ Talk!Parameters /\ Names!Parameters /\ History!Parameters
    /\ Disk!Parameters

\* what the parts that have several initial states are at rest with
SomeQuestion == CHOOSE q \in Resolver!Asked : TRUE
SomeDevice == CHOOSE d \in KeyDevices : TRUE

ServicesInit ==
    /\ part \in Parts
    /\ Mls!Init /\ Init /\ Gate!Init /\ Sign!Init /\ Pairs!Init /\ Files!Init
    /\ Mod!Init /\ Talk!Init /\ Names!Init /\ History!Init
    /\ Resolver!Init
    /\ part # "resolver" => question = SomeQuestion
    /\ Key!Init
    /\ part # "key" => vault.key = Key!NoKey /\ holders = {SomeDevice}
    /\ Disk!Init
    /\ part # "cache" => keys = 0
    \* true; evaluated here, the functions of the parts at rest are not left lazy in a
    \* state whose view does not show them
    /\ Mls!TypeOK /\ TypeOK /\ Resolver!TypeOK /\ Key!TypeOK /\ Gate!TypeOK /\ Sign!TypeOK
    /\ Pairs!TypeOK /\ Files!TypeOK /\ Mod!TypeOK /\ Talk!TypeOK /\ Names!TypeOK
    /\ History!TypeOK /\ Disk!TypeOK

ServicesNext ==
    /\ UNCHANGED part
    /\ IF part = "mls" THEN Mls!Next ELSE UNCHANGED mlsVars
    /\ CASE part = "roles" -> Next
         [] part = "overwrites" -> Rights!Next
         [] OTHER -> UNCHANGED rolesVars
    /\ IF part = "resolver" THEN Resolver!Next ELSE UNCHANGED resolverVars
    /\ IF part = "key" THEN Key!Next ELSE UNCHANGED keyVars
    /\ IF part = "gateway" THEN Gate!Next ELSE UNCHANGED gatewayVars
    /\ IF part = "signin" THEN Sign!Next ELSE UNCHANGED signInVars
    /\ IF part = "pairs" THEN Pairs!Next ELSE UNCHANGED pairsVars
    /\ IF part = "files" THEN Files!Next ELSE UNCHANGED filesVars
    /\ IF part = "automod" THEN Mod!Next ELSE UNCHANGED automodVars
    /\ IF part = "voice" THEN Talk!Next ELSE UNCHANGED voiceVars
    /\ IF part = "registration" THEN Names!Next ELSE UNCHANGED registrationVars
    /\ IF part = "history" THEN History!Next ELSE UNCHANGED historyVars
    /\ IF part = "cache" THEN Disk!Next ELSE UNCHANGED cacheVars

servicesVars == <<part, mlsVars, rolesVars, resolverVars, keyVars, gatewayVars, signInVars,
    pairsVars, filesVars, automodVars, voiceVars, registrationVars, historyVars, cacheVars>>

ServicesSpec == ServicesInit /\ [][ServicesNext]_servicesVars

-----------------------------------------------------------------------------
(* Every formula is asked of the part that moves.  A property of steps needs no guard: a *)
(* step that leaves its variables alone has it.                                          *)

\* the state of every service keeps to its types and to the limits of the code
TypesOK ==
    CASE part = "roles" -> TypeOK
      [] part = "overwrites" -> Rights!TypeOK
      [] part = "mls" -> Mls!TypeOK
      [] part = "resolver" -> Resolver!TypeOK
      [] part = "key" -> Key!TypeOK
      [] part = "gateway" -> Gate!TypeOK
      [] part = "signin" -> Sign!TypeOK
      [] part = "pairs" -> Pairs!TypeOK
      [] part = "files" -> Files!TypeOK
      [] part = "automod" -> Mod!TypeOK
      [] part = "voice" -> Talk!TypeOK
      [] part = "registration" -> Names!TypeOK
      [] part = "history" -> History!TypeOK
      [] part = "cache" -> Disk!TypeOK

\* a member that was not cut off finds in its mailbox just the commits it misses
\* (update_mls_group, process_mls_inbox)
MembersCatchUp == part = "mls" => Mls!MembersCatchUp

\* the resolver agrees with the order the overwrites are documented to have (resolve)
ResolverAgrees == part = "resolver" => Resolver!ResolverAgrees

\* the wrapped history key opens with the current password (change_password)
PasswordOpens == part = "key" => Key!PasswordOpens

\* vault, recovery codes and installations hold one key (establish_account_history_key)
KeysAgree == part = "key" => Key!KeysAgree

\* the user holds codes the server accepts (stage_recovery_codes)
CodesAtHand == part = "key" => Key!CodesAtHand

\* a suspended, revoked or leaving account hears nothing more (gateway_session)
BarredHearNothing == part = "gateway" => Gate!BarredHearNothing

\* friends end up knowing whether a session is open (publish_presence)
PresenceSettles == part = "gateway" => Gate!PresenceSettles

\* a code or a browser flow gives one session, once (complete_apple_flow)
OneSessionEach == part = "signin" => Sign!OneSessionEach

\* an Apple identity joins an account on proof of it (complete_apple_flow)
JoinsOnProof == Sign!JoinsOnProof

\* the two rows of a pair of people tell the same story (update_relationship)
RowsAgree == part = "pairs" => Pairs!RowsAgree

\* a file a message refers to stays in the store (cleanup_expired_attachments)
FilesStay == part = "files" => Files!FilesStay

\* messages are judged by the rules in force (invalidate_automod_engine)
CacheIsCurrent == part = "automod" => Mod!CacheIsCurrent

\* fewer repeats pass than a rule's threshold (automod_engine)
RepeatsAreStopped == part = "automod" => Mod!RepeatsAreStopped

\* who lost the access to a voice channel is out of it (revoke_member_voice)
OutsidersStayOut == part = "voice" => Talk!OutsidersStayOut

\* a registration sent again is not taken for another's (provisioning_matches)
RetriesAreRecognised == part = "registration" => Names!RetriesAreRecognised

\* who registered under a name gets it (ensure_authenticated_user)
NamesAreKept == part = "registration" => Names!NamesAreKept

\* the cache outlives every interruption of its encryption (encrypt_plaintext_cache)
CacheIsKept == part = "cache" => Disk!CacheIsKept

=============================================================================
