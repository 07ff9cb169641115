# ExoLink: formal models

TLA+ models of the parts of ExoLink whose correctness depends on the order in
which things happen, checked with TLC on small instances and, where it matters
most, proved with TLAPS for every value of the constants.

`PROJECT.json` is the index: components, runs, the map from definitions to
source lines, hazards, findings and theorems. Paths below are relative to the
repository; `lib.rs`, `auth.rs`, `repository.rs` and `main.rs` alone are those
of `apps/exo-monolith/src`.

## The system

ExoLink is a chat service. One Rust process (the *monolith*) serves an HTTP API
and a WebSocket gateway; a Tauri desktop application (a Rust process and a
TypeScript renderer) is the client.

### Parts, their state and what makes them correct

| Part | State | Operations | What has to hold |
| --- | --- | --- | --- |
| Auth store, `auth.rs` | one SQLite connection behind a mutex: users, sessions, tokens, deletion schedule, recovery codes, key vaults, challenges | register, login, authenticate, refresh, logout, password and recovery operations, codes, Apple flows, schedule/cancel/claim/finalize a deletion, suspend, reinstate | a token, a code and a flow are used once; a claim is final; the wrapped key opens with the current password; a retry is recognised |
| Repository, `repository.rs` | PostgreSQL, or one in-memory structure behind a lock: profiles, servers, members, roles, channels, messages, relationships, devices, MLS groups, attachments | about 150 operations, one transaction each | every live server has an active owner; nonces are used once; one winner per MLS epoch; nobody acts above their rank; the two rows of a pair agree |
| Handlers, `lib.rs` | in-process sets of suspended users and revoked devices, compiled rules, presence counts, the gateway's broadcast channel, the registration lock | one handler per route: calls on the auth store, then on the repository, then on the sets and the broadcast | what was checked in the first store still holds, or is checked again, in the second; a barred account hears nothing |
| Workers, `main.rs` | none | deletion pass, attachment cleanup, device cleanup | every pass can be interrupted anywhere and repeated |
| Media, `media.rs` | objects in a directory or in R2 | upload, inspect, delete | a file a message shows is in the store |
| Voice | evictions under way; rooms and tokens in an external media server | sign a token, evict | who lost the access is out |
| Safety, `crates/exo-safety` | arrival times per bucket, open challenges, repeats seen | rate limit, proof of work, automoderation | rules in force are applied; repeats are counted together |
| Permissions, `crates/exo-domain` | none | resolve | the order everyone, roles, member; owner and administrator first |
| Client transport, `crates/exo-client/src/remote.rs` | session in memory, refresh lock | authenticated call with one refresh and retry | no spent token of a session in use is presented |
| Client store, `crates/exo-client/src/store.rs` | SQLite cache, sealed with SQLCipher; outboxes | open, encrypt, recover, upgrade; enqueue, attempt, acknowledge, fail, requeue | every message is posted once and shown as the server has it; the cache survives its own encryption |
| Desktop core, `apps/desktop/src-tauri/src` | credential vault, active account, MLS state | login, restore, logout, synchronization loop, delivery, maintenance, reset of the cache | the saved credential is the one that works; a text that was shown can be shown again |
| Renderer, `apps/desktop/src` | view model, voice room | apply deltas, reconcile results | a view of the core's state |
| Crypto, `crates/exo-crypto` | OpenMLS group state | encrypt, decrypt, commit | left to the libraries |

### How the parts interact

A handler runs on a tokio task. It calls the auth store (a short SQLite
transaction under a mutex) and the repository (a PostgreSQL transaction) one
after the other; **no transaction spans the two**, so between any two calls
another handler or a worker may run, the client may hang up (axum drops the
handler at its next await) or the process may stop. Events go to the gateway
over a broadcast channel after the write has been committed. The desktop runs
one task for the synchronization loop and one per Tauri command; they share the
in-memory session (a lock around each read and each write, none around a
sequence of them) and the credential vault (separate calls to the operating
system).

### Where it is hard

* two databases without a common transaction, and a worker that must survive a
  stop between any two of its calls (deletion, registration);
* checks made in one store and used after an await in another
  (`require_active_account`, `voice_access`, `automod_engine`, Apple's callback);
* PostgreSQL at READ COMMITTED: a later statement of a transaction sees what
  others committed since the earlier one (erasure, ownership, attachments);
* tokens that may be presented once, held in two places by concurrent tasks
  (desktop session);
* retries of requests whose reply was lost (messages, registration, recovery,
  refresh, changes of an MLS group);
* one text that can be decrypted once, kept in a cache that every full
  synchronization empties (private history);
* files replaced by renames while the process may end (cache, its reset);
* broadcast receivers that lag, and sets of cut connections that are not
  written together with the database (gateway).

`PROJECT.json` lists each hazard at its line with the property that covers it,
or why none does.

## Modules

| Module | What it is |
| --- | --- |
| `AccountLifecycle`, `AccountLifecycleProofs`, `MCAccountLifecycle` | account deletion across auth store, repository and worker |
| `DesktopSession`, `DesktopSessionProofs`, `MCDesktopSession` | rotating tokens, the session in memory and the credential vault |
| `MessageDelivery`, `MessageDeliveryProofs`, `MCMessageDelivery` | outbox, server and cache of a message |
| `ExactlyOnceChannel` | what the outbox promises, refined by `MessageDelivery` |
| `AccountKey`, `AccountKeyProofs` | passwords, recovery codes and the wrapped history key |
| `SignIn` | email codes and Sign in with Apple |
| `Registration` | accounts and names across auth store and repository |
| `Gateway`, `GatewayProofs` | gateway connections, what cuts them off, presence |
| `ServerRoles`, `ServerRolesProofs` | roles, ranks, moderation and overwrites of a server |
| `PermissionResolver` | the resolution of permissions in a channel |
| `Relationships` | friendships, blocks, direct channels |
| `MlsDelivery` | key packages, epochs and mailboxes of an MLS group |
| `PrivateHistory`, `MCPrivateHistory` | cached texts and their archives |
| `Attachments` | uploads and the cleanup of the object store |
| `Automod`, `AutomodProofs`, `MCAutomod` | rules, the cached engine, enforcement |
| `Voice` | tokens and evictions of a voice channel |
| `LocalCache` | the cache file: encryption, recovery, upgrade, reset |
| `Services`, `ServicesProofs`, `MCServices` | the services that share no state, side by side; what is proved of them; their instance for one run |

An operator whose comment begins with `mutant:` is an operation, or a part of
one, with a plausible mistake; it is not part of `Next`. Replacing the operation
by it makes TLC refute a property, which is how each property is known to bite.

History variables are marked `history:`; only properties read them.

### AccountLifecycle

**State.** `dueAt`, `claimed`, `anonymized`, `signedIn` are columns and rows of
the auth store; `owner`, `members`, `live`, `retired`, `frozen`, `invited` are
the servers in the repository (`frozen` is `owner_deletion_pending_at`);
`transfers` are the open transactions of `transfer_guild_ownership`, which hold
the lock of the server's row;
`tombstoned` and `emails` are the profile; `requests` are the handlers between
two store calls, each known by the call it makes next; `worker` is the deletion
pass with the row locks of its open transaction.

**Actions.** One per store call. `schedule_account_deletion` is `Prepare`
(freeze the servers, or report blockers), `ScheduleAuth` (set the deadline), and
`CancelPreparation` when the second call fails; `cancel_account_deletion` is
`CancelAuth`, then `CancelPreparation`. A login is `Login`, `ReadUsername`,
`EnsureUser`. Any request that passed `require_active_account` is a `guild`
request and may still create, transfer, delete, invite, join or remove after its
account was scheduled, claimed or erased. The worker is `WorkerList`,
`WorkerClaim`, then with PostgreSQL `WorkerLock` and `WorkerCommit` (the rows are
locked and counted in one statement, changed in later ones) or
`WorkerEraseInMemory`, then `WorkerFinalize`. A transfer of ownership is one step
in memory; with PostgreSQL it is `TransferCheck` (lock the server, find the target
among its members and not erased, without locking the target) and
`TransferCommit` (the `UPDATE`, which does not look again), and an erasure of the
target may commit in between. Environment: `Tick`, `DropRequest`, `DropTransfer`,
`WorkerFails`, `Restart`.

**Abstractions.** A server has at most one reusable invite without a use limit.
Profile, messages, devices and attachments of an account are one bit:
`tombstoned`. Sessions are one bit per account; `finalize` destroys them.
Identical handlers in flight are one member of the set `requests`.

### DesktopSession

**State.** Tokens are numbers in the order of issue; a number stands for an
access and its refresh token, and a session is named by its first token.
`session`, `spent`, `ended`, `expired` are the auth store's tables for the
account; `memory` is `ApiClient.session`; `vault` the saved refresh token;
`lock` is `refresh_lock`; `task` is what each task of the process is doing and
the token it carries. `reused`, `left` and `happened` are history variables that
only properties read.

**Actions.** One per read or write of memory or vault and one per server
answer; the network travels between them. `send_authenticated` is `BeginCall`,
`Attempt`, then after a 401 `AcquireLock` (read memory again under the lock),
`Exchange` (the whole of `AuthStore::refresh`), `Granted` or
`Refused`, and `Retry`. `restore_session` is `BeginRestore`, `Load`, `Exchange`,
then `Granted`, `Save` or `Refused`, `Check`, `Erase`, `Forget`.
`cancel_account_deletion` refreshes once more without the lock (`Refresh`), as
the code does. A `call` may end without saving the session (`perform_mls_maintenance` and
others never do) or with `Persist` and `Save`. Reads of memory with no await
between them are one step. Environment: `Expire`, `RevokeSession`, `Lost`,
`Quit`; `Restart` is `app.restart()` after a logout or a switch.

**Abstractions.** One account on one desktop; the single-instance plugin keeps a
second process away. A registration is in memory only until
`activate_authenticated_account` saves it and restarts: here a call that saves,
then `Quit`. Access tokens expire in the order of issue, and none
expires in a task that was already running when it was received: its life is
fifteen minutes, a request's timeout ten seconds. Failures of the vault itself
are left out.

### MessageDelivery

**State.** `post`, `version`, `rows` and `unpublished` are the server's row, its
edits, the rows ever inserted for the nonce and the events not yet on the
broadcast; `late` are requests nobody waits for that the server still executes.
`inbox`, `stage` and `snap` belong to the synchronization loop; `entry`,
`attempts`, `due` and `cached` are the encrypted store; `task` is what each task
does: the one `send_message` spawns, the loop's flush, the retry command.

**Actions.** A delivery is `Ask`, `Look` (the check of the nonce), `Create` (the
reservation and the row), then `Acknowledge`, `Refuse` or `Fail`, the record of
the reply in the outbox; a request given up goes on at the server (`LateLook`,
`LateStore`). The loop is `Fetch`,
`Apply`, `Flush`, `Connect`, `Handle`, `Maintain`, `Refetch`, `Reapply`.
Environment: `Edit`, `Delete`, `Publish` in any order, `Disconnect`, `Restart`.

**Abstractions.** PostgreSQL only. A plaintext and an encrypted message differ in
whether an event of it can be read: one that cannot marks the message
`disturbed`. A refused and a failed request are merged with `record_attempt` and
`mark_failed`. Identical late requests are one. Attempts stop counting at
`MaxAttempts`, back-off is the flag `due`.

**ExactlyOnceChannel** says what the person who sends may rely on: each message
is posted at most once, "sent" is said only of what was posted and is the last
word. The refinement maps its `posts` to `rows`, its `status` to outbox and
acknowledgement.

### AccountKey, SignIn, Registration

`AccountKey` follows the key that encrypts the private history: wrapped by the
password (`vault`), wrapped by each batch of recovery codes (`batches`), plain in
the credential vault of each installation (`local`). `task` is the request an
installation is at; other installations come between any two. Keys, passwords
and batches are numbers in the order they are made; what a code or a password is
does not matter. The older `recover_password`, which knows no wrapped key, is
left out.

`SignIn` has an action for each transaction of the auth store; what is done
before a transaction (a password verified, the flow looked up) or awaited (mail,
Apple) is kept in `proved`, `mail` and `callbacks` until it. An account is named
by its address. `Typed` are the addresses people type, the others are only known
from Apple.

`Registration` has two stores: `auth` (account, password, name) and `profile`
(the name others see). A registration takes the lock, looks at the name, writes
the account, then the profile; the client repeats it up to `MaxAttempts` times
with the same account id. A sign-in by code makes a missing profile without the
lock, with a suffix if the name is taken. Changes of a profile are left out.

### Gateway

`authority` and `tokens` are the auth store, `identities` the devices that have
registered an MLS identity in the repository; `cutDevices` and `cutUser` the sets
in memory; `handlers` the requests between the stores. Scheduling a deletion lists
the devices by their identities (`ListDevices`), writes the auth store
(`ScheduleDeletion`) and cuts off the devices it listed (`TellGateway`): a device
without an identity, or one that registers in between, is `unlisted` and stays
connected. A connection is accepted
(`Accept`, the checks), opened (`Open`, the subscription and the count), announces
presence, receives an event, looks at the sets and sends (`Receive`, `Send`).
An announcement of presence may fail to load its audience: then the friends hear
`"nothing"` (`Publishes`). `unlisted`, `leaked`, `crossed` and `overlapped` are
history: see the properties.
An event published while its account or device is barred is marked in the queue:
it must not be sent. Lifting the bar clears the marks (`Forgiven`), since the
event may then go out; a second bar concerns the events published under it.

### ServerRoles, PermissionResolver

`roles` maps the roles there are to position and permissions, `assigned` is
`member_roles`; every action is one transaction under the lock of the server's
row. `CreateOnTop` is the owner's way to make a role, `CreateBelow` a delegate's,
which pushes roles up. `MaxPosition` stands for the largest 32-bit integer, `Bits` for groups of
permission bits that the code treats alike. `actor` is history: who made the
last change.

`PermissionResolver` asks every question there is in its instance and answers it
the way `resolve` computes; `ResolverAgrees` compares with a definition by the
strongest rule that speaks of a bit.

### Relationships, Attachments, Voice, Automod

`Relationships` has the two directed rows of each pair and the pairs with a
direct channel.

`Attachments` has `row` (the uploads of one author), `objects` (the store, by
content, so that uploads share objects), and what is under way: bytes being
stored, objects inspected, messages that hold rows locked, and the `cleanup`
with the object it has locked and what it saw. PostgreSQL only.

`Voice` has the members with `access`, those for whom a token is being signed,
`tokens` still good, participants `connected`, whether the channel is `deleted`,
and `evictions` with what they do next and their failed attempts. The media server
is external: it admits any good token and never asks again. An eviction that a
request about a member or a role leaves behind first looks up the channels
(`LookUp`), finds those not deleted by then, and has its attempts for that; one of
a request about the channel itself knows its room. Changes of access that leave no
eviction behind are `Unattended`: a transfer of ownership, which takes the implicit
access of the former owner; the erasure of an account, or a request dropped after
its commit (`Interrupted`, `InterruptedDeletion`); and members who come back.
`excused` are members no eviction is sure to reach; an eviction that does reach
them ends that.

`Automod` has the enabled `rules`, changes that have not yet emptied the cache,
the `cache` with the rules of its engine and what that engine has seen, and
requests that hit, miss, load and put. Taking an engine and asking it is one
step, as nothing is awaited in between. All messages have one text, which every
pattern matches.

### MlsDelivery, PrivateHistory

`MlsDelivery` is one encrypted channel: `packages` and `claims` of one-time key
packages, `roster` (the members at each epoch so far), a `mailbox` per device,
and the client: the epoch it has sealed (`local`) and the change it is at (`op`).
A hint, which can come at any time, or a pending removal starts a change
(`Hint`); the device claims packages and changes the group in memory (`Claim`, or
`GiveUp`), asks the server (`Accept` or `Refuse`) and seals the group when the
reply comes (`Seal`, or `Lose`). A request that is executed late
is a lost reply. `stranded` is history: devices a lost reply or missing access
has cut off.

`PrivateHistory` is one device: a version of a message can be decrypted as long
as it is in `sealed`, which reading it ends; `cache` and `archive` hold texts; a
synchronization fetches, empties the cache and restores it. Deleted messages and
messages outside the snapshot are left out.

### LocalCache

`files` are the database, the copy being sealed and the backup of the plaintext,
each with its form, key and schema; `vault` and `key` are the key saved and the
key this start has loaded; `stage` is where `open_encrypted` or the reset is. A
step is one change of the file system or the vault. `StartFails` and the other
`...Fails` are failures of an operation, `Stop` ends the process anywhere,
`LoseKey` removes the key from the vault. The write-ahead log and the journal of
a database are not told apart from it; all schema upgrades are one; the content
of a cache made after a reset is not followed.

### Services

The services from `AccountKey` to `LocalCache` share no state. `Services` puts
them side by side: `part` is chosen at the start, that part alone moves, and the
variables of the others keep their initial values. `ServerRoles` is extended,
and instantiated a second time with an overwrite of a channel; both have the same
variables. A property of a part is stated as `part = ... => Part!Property`;
properties of two states need no such guard. `ServicesParameters` collects what
the theorems ask of the constants.

`MCServices` is the instance TLC explores in one run; the view leaves out the
parts at rest. Symmetry exchanges two people (devices, uploads, requests) and two
roles (connections), which no part tells apart.

## What TLC checks

All runs set `CHECK_DEADLOCK FALSE`: with every bound used up there may be
nothing left to do.

| Run | Instance | Shows |
| --- | --- | --- |
| `lifecycle_safety` | PostgreSQL, 2 accounts, 1 server, 3 handlers in flight, 1 fault, clock 0..2 | type invariant, three invariants and two action properties |
| `lifecycle_memory` | in-memory, 2 accounts, 1 server, 1 handler, 1 fault, fair | active owners; due and claimed accounts are erased |
| `lifecycle_v_owner` | PostgreSQL | *refuted*: a live server is left without an active owner |
| `lifecycle_v_email` | PostgreSQL | *refuted*: an email address returns to an erased profile |
| `lifecycle_v_starved` | fair | *refuted*: one conflicting account holds up all later ones |
| `desktop_safety` | 2 tasks, 4 tokens | type invariant, two invariants, one action property |
| `desktop_live` | 2 tasks, 3 tokens, fair | sessions come back; operations end |
| `desktop_v_quit` | 2 tasks, 3 tokens | *refuted*: a clean quit can cost the session |
| `delivery` | 1 message, 3 tasks, 2 attempts, 2 events, fair | refinement of `ExactlyOnceChannel`; the cache follows the server; nothing stays pending |
| `services` | fourteen parts, see below; 935,857 states | type invariant and twenty properties of the services |
| `history_v_lost` | 2 messages, 2 versions | *refuted*: a text that was shown is lost |
| `automod_v_stale` | 2 authors, 2 requests, 2 changes | *refuted*: an engine of older rules stays in the cache |

### Properties of AccountLifecycle

* `ErasedAccountsAreNotRestored`: an account whose profile is erased is claimed,
  and finished or still scheduled.
* `FrozenServersStaySolo`: a frozen server is live, has at most one member and no
  usable invite.
* `ActiveAccountsServersThaw`: without a fault, an account that is not scheduled
  and has no handler in flight owns no frozen server. With a fault (a handler
  dropped between freeze and schedule) this is false in the code too: the next
  schedule or cancel repairs it.
* `ErasureRetiresOnlySoloServers`: what an erasure retires has one member at the
  moment it commits.
* `ErasedAccountsStayOut`: no step makes an erased account a member of a server,
  no transfer to one begins, and one becomes an owner only by a transfer that had
  found it before it was erased.
* `ServersHaveAnActiveOwner`: holds in memory, refuted for PostgreSQL.
* `DueAccountsAreErasedUnlessStuck`, `ClaimedAccountsAreErased`: liveness; the
  first without its escape is `DueAccountsAreErased`, refuted.

### Properties of DesktopSession

* `NoSessionDiesOfReuse`: while nothing disturbs the process (no quit, loss,
  cancellation or revocation, and no restore or login that crosses another) none
  of its tasks ends a session in use by presenting a spent token. With three tasks
  the last exception is needed: a restore refused late drops a session that a
  login opened meanwhile (`lib.rs:2503` of the desktop), a restore can replace it,
  and a call saves the copy it took of the session before over the newer one
  (`lib.rs:2686`). Two tasks, which TLC explores, do not get that far; the attempt
  to prove the property for any number of tasks showed it.
* `OneUsableTokenPerSession`: in every state, with every disturbance.
* `OnlyDeadCredentialsAreErased`: a refused restore decides to erase only a
  credential that no longer works.
* `SavedSessionsComeBack`, `OperationsEnd`: liveness.
* `SessionsSurviveQuitting`: refuted.

### Properties of MessageDelivery

* `ExactlyOnce`: `ExactlyOnceChannel!Spec` under the refinement mapping.
* `CacheFollowsServer`: while connected and with nothing to handle, the cached row
  is the server's, except for a message a change of which may have been missed:
  it fell between snapshot and subscription, was skipped or could not be read.
* `PendingSettles`: an entry of the outbox does not stay pending for ever.

### Properties of the services

Each exception named here is a history variable, so that a property says what
holds in every behaviour without that one event.

| Property | Says | Except |
| --- | --- | --- |
| `PasswordOpens` | the wrapped history key opens with the current password | |
| `KeysAgree` | vault, recovery codes and installations hold one key | two installations made keys for an account that had none |
| `CodesAtHand` | the user holds codes the server accepts, or is about to be shown them | the reply to an activation was lost |
| `OneSessionEach` | a code or a browser flow gives one session, handed out once | |
| `JoinsOnProof` | an Apple identity joins an existing account only if its address was verified, or by a link proved since the last recovery | |
| `RetriesAreRecognised` | a repeated registration is not taken for a second person | a sign-in by code took the name |
| `NamesAreKept` | who registered under a name gets it | the same |
| `BarredHearNothing` | no event published after a suspension, revocation or scheduled deletion was answered is sent to a device it concerns | suspension and reinstatement overlapped; the scheduling of the deletion did not list the device |
| `PresenceSettles` | what friends heard last is whether a session is open | two announcements crossed, or the last one was dropped |
| `PositionsAreDistinct` | no two roles of a server share a position | |
| `NoOverthrow` | whatever demotes a member is done by the owner or somebody of a higher rank | |
| `NobodyRaisesThemselves` | no member but the owner widens what its roles could ever let it do | |
| `ResolverAgrees` | the resolver gives each bit what the strongest rule about it says | |
| `RowsAgree` | friendships are mutual, requests pend on both sides, a block stands alone | |
| `MembersCatchUp` | the mailbox of a member takes it from the epoch it holds to the current one, each commit once, in order | the device lost a reply or its access |
| `FilesStay` | a file that a message shows or may still show is stored | a reservation ran out while its message was being created |
| `CacheIsCurrent` | the cached engine is of the rules in force | a request put back rules it had loaded before the change: `RulesTakeEffect`, refuted |
| `RepeatsAreStopped` | fewer repeats pass than the threshold | the same |
| `OutsidersStayOut` | who lost the access is neither in the room nor able to return, once evictions are done | no eviction was spawned (transfer of ownership, erasure, request cut short), it found the channel deleted, gave up or was lost, a token was signed after the loss or outlived a reset of the room; each until an eviction puts the member out |
| `CacheIsKept` | no copy of the cache that can be read is ever destroyed; a start that succeeds opened the cache itself; a start in which nothing failed is blocked only after a lost key, a reset, or an upgrade cut short | |

### Bounds, and why they are enough

*Lifecycle.* The interactions are between one account that goes away and one
that stays, or two that both go away: two accounts. One server is owned, shared,
transferred and retired; accounts interact through one server at a time. Three
handlers in flight give every pair of a schedule, a cancel and a third writer,
with the worker as a fourth process. `Grace = 1` and a clock to 2 let two
accounts have different deadlines, both of which pass. `BatchLimit = 1` makes the
batch order matter. One fault is enough for each property, since a fault is
itself a cut of a sequence and the model continues from every cut.

*Desktop.* Two tasks show every race for memory, vault and lock; the lock's
comparison needs just two. Four tokens give a login, a refresh by each task and
one more. `Room` reserves, when a task begins, the pairs that it and those in
flight may still need, so that the bound never stops a task half-way. `Quit` and
`Lost` happen once each. `TaskSymmetry` is used only by the safety run.

*Delivery.* Messages only share the order in which a task takes them; one message
shows every race of its three tasks, its late requests, its events and the loop.
Two attempts make the limit reachable. `MaxEvents = 2` counts edits, deletions,
retries asked for and faults together: any one on top of another.

*Services.* Each part has the two actors its races need (three where a pair is
watched by a third: groups, roles, friendships, names) and a count of events
that lets a second one fall into the handling of the first.

| Part | Instance |
| --- | --- |
| mls | 3 devices, one package at a time, 3 epochs, 1 fault |
| roles, overwrites | 3 people, 2 roles, 2 positions; 2 people, 1 role, 1 overwrite |
| resolver | every question with 2 roles, 4 sets of grants, 5 rules |
| key | 2 installations, 2 keys, 3 passwords, 3 batches, 1 loss |
| gateway | 2 devices, 2 connections, 2 events, 2 requests, registrations or restarts, any devices registered before |
| signin | 2 addresses, one known to Apple only, 2 identities, 1 flow, 1 code, 2 sessions |
| pairs | 3 people |
| files | 2 uploads of one content |
| automod | 2 authors, 2 requests, 2 rules, threshold 2, 2 changes |
| voice | 2 members, 3 attempts, 2 changes |
| registration | 3 people and one name, 3 attempts, 1 fault |
| history | 2 messages, 2 versions |
| cache | 2 keys, 2 failures (a third adds states, no violation) |

### Fairness

*Lifecycle.* `WF(WorkerStep)`: `run_account_deletion_cleanup` is an endless loop.
`WF` of each handler's next step: handlers are tokio tasks that run to their end
unless dropped, which is a separate, bounded action. Nothing is assumed of
clients.

*Desktop.* `WF(Continue(k))`: requests are answered or time out (10 s). Strong
fairness of `AcquireLock(k)`: the tokio mutex serves its waiters in order. `WF`
of `BeginRestore`: the synchronization loop calls `restore_session` on every
turn and never ends. Nothing is assumed of users, the network or expiry.

*Delivery.* `WF` of every task's next step, of the loop's steps and of `CoolDown`
(time passes). Strong fairness of `Maintain`: it is one arm of a `select!` whose
other arm, an event, may be ready again and again, but the interval's tick waits
for its turn. Nothing is assumed of users, of `Publish` or of faults, whose
number is bounded.

*Services.* Safety only.

## Where code and documents disagree

Six runs end in a counterexample to a sentence of the documentation;
`PROJECT.json` quotes them.

1. *An active server can be left without an active owner*
   (`docs/server-ownership-lifecycle.md:3`), PostgreSQL only: the erasure locks
   the servers the account owns; one that it comes to own after that statement
   is not among them, and then loses its only member. A transfer that found its
   target before the erasure gives it a server after it, too.
2. *An erased profile can get its email address back*
   (`docs/account-data-privacy.md:92`): `ensure_user` upserts it without asking
   for `deleted_at`.
3. *One account can hold up the deletion of all later ones*
   (`docs/account-data-privacy.md:84`): a conflict leaves the pass.
4. *Closing the application can cost the saved session*
   (`docs/implementation-status.md:284`): a background call rotates the token and
   does not save it.
5. *A text that was read can be lost* (`docs/end-to-end-encryption.md:51`): an
   archive that was queued is made from the cache later, which a synchronization
   has emptied.
6. *Messages can be judged by rules that were changed* (`docs/abuse-controls.md:11`):
   a request that loaded the rules before the change puts its engine into the
   cache after it was emptied.

Met while modelling, without a run of their own:

* `docs/conversation-actions.md:93` says deletes remove the cached row. A deletion
  between the snapshot and the subscription, or skipped by a receiver that lags,
  leaves it until the next full synchronization (`disturbed`).
* `docs/local-cache-encryption.md:6` counts on a restart-safe outbox. An upgrade of
  the schema that is cut short blocks every later start (`store.rs:1435`;
  `Upgrade`, schema `torn`), and the reset that remains puts the outbox aside.
* `docs/local-cache-encryption.md:65` says a verified encrypted temporary file is
  promoted when the main file is missing, and the plaintext backup restored
  otherwise. The code restores the backup whenever there is one and removes the
  temporary file unverified (`store.rs:1337`). `CacheIsKept` holds either way.
* `docs/server-ownership-lifecycle.md:11` asks for a current, non-deleted target of
  a transfer. It is looked for without a lock before the owner is updated
  (`repository.rs:4309`; `TransferCheck`, `TransferCommit`).
* `docs/account-data-privacy.md:56` says scheduling a deletion "marks known gateway
  devices for disconnect". Known are those with an MLS identity listed before the
  auth store is written (`lib.rs:1731`); another connected device goes on hearing
  events (`unlisted`), though its session is revoked.
* `docs/direct-messages-presence.md` says the last disconnect publishes offline. When
  the audience cannot be loaded nothing is published, and nothing tries again
  (`lib.rs:5705`; `Publishes`).
* `docs/voice-media.md:71` says an eviction removes the participant and revokes
  earlier tokens after a kick. It looks the channels up later and misses one deleted
  meanwhile (`lib.rs:3801`; `LookUp`); a transfer of ownership evicts nobody
  (`lib.rs:3260`; `TransferOwnership`), and no document says it should.
* After a cancelled deletion the account's devices stay in the gateway's set
  until the server restarts (`lib.rs:1766`).

## What is proved

Every safety property that a passing run checks is proved for any set of
accounts, servers, people, devices and tasks and any bounds; the theorems that
state them are listed in `PROJECT.json`. The assumptions are named in the modules
or the theorems: identifiers of accounts are positive numbers, `Grace`,
`BatchLimit`, `MaxAttempts` and `Threshold` are positive, the other bounds are
natural numbers, `NoTask`, `Room` and `Everyone` are none of the sets they are
told apart from, a founder is a user, the addresses people type are addresses.
TLC evaluates the named assumptions on each instance.

**AccountLifecycleProofs.** `TypeCorrect` is inductive as it stands. For
`ErasedAccountsAreNotRestored` it is not: one has to know that a claim is only
made of a scheduled, lapsed account, that erased accounts are a subset of the
claimed ones, that the worker only erases an account it holds the claim of, that
erased accounts are members of no server (whether they own one is left open), and
that handlers still in flight were admitted before the account was claimed.
`ErasureInv` is the conjunction of these facts (`ClaimsAreDue`, `ErasureOrder`,
`WorkerHoldsAClaim`, `AdmittedAreActive`, `ErasedHaveLeft`); TLC does not need
it, the induction does. `ErasedAccountsStayOut` follows from it step by step, and
so does `ClaimsAreFinal`: a claim is never withdrawn and the deadline of a claimed
account never moves, which is proved only. `FrozenServersStaySolo` and
`ErasureRetiresOnlySoloServers` rest on `ServerInv`, which adds
`HeldServersAreSolo`: while the worker holds row locks, the locked servers keep
the single member they were counted with. `InMemoryServersHaveAnActiveOwner`
proves, for the in-memory repository, the property that PostgreSQL violates; it
needs that owners are members. `ActiveAccountsServersThaw` follows from
`FrozenServersStaySolo`: what a handler freezes, rolls back or thaws is frozen
only while that handler has its next call to make, and a frozen server never comes
to another account, as a transfer lifts the freeze.

**DesktopSessionProofs.** `TypeCorrect`, split into what the tasks carry
(`TasksOK`) and the rest (`StoresOK`). `OneUsableToken`: inductive together with
the type invariant, since only `Exchange` and `Login` touch the token list
(`QuietSteps`); a rotation spends what it replaces, a login opens a session with
a number never used before. `OnlyDeadErased`: the invariant `RefusedAreDead` says
that the token of a task that was refused does not work, and `DeadStaysDead` that
it never will again; a decision to erase compares the vault with that token.
`NoReuse` needs to know, of each of the three copies of a token (memory, vault,
a task about to save), whose doing it is when the copy is spent: `QuietInv` says
that only the task that is about to replace it can have left it so (`Copies`),
that a call exchanges what memory holds, under the lock, and no stale token
(`Refreshes`), and that what a task knew when it began is older than what it is
given (`Ages`).

**MessageDeliveryProofs.** `TypeCorrect`, in three parts (server, client, tasks).
`OutboxIsExactlyOnce` is the refinement: every step of the outbox, the server and
the cache is a step of `ExactlyOnceChannel` or leaves its variables alone. The
induction needs, next to the types, `ServerLinked` (a row is there as often as it
was inserted, at most once) and `TasksLinked` (a task at its acknowledgement has
a reply that speaks of an inserted row). `CacheFollowsServer` comes from
`FollowInv`: of a message no change of which was missed, the event of the latest
change is the last one on its way, not yet published or last in the inbox; the
inbox is in the order of the changes; and with nothing on its way the row, or the
snapshot about to be written, is the server's.

**ServicesProofs.** A behaviour of `Services` is one of each part, so that what
holds of a part holds there; the lemmas `XPart` say so. The two instances of
`ServerRoles` share their variables: a behaviour is one of the instance that
moves. All of `TypesOK` is proved, and each property of the table above, from the
invariants of the parts:

* *AccountKey* (`AccountKeyProofs`): `PasswordOpens` and `CodesAtHand` are
  inductive with the types; `KeysAgree` follows from `KeysAreMade`: every key in
  use was made, and only one was, unless two installations made one for an empty
  vault. `Counted` bounds what tasks carry by what was made, for the types.
* *Gateway* (`GatewayProofs`): `GateInv`. For `BarredHearNothing`, the sets in
  memory hold every bar whose handler is done and that lists the device (`Watched`), a marked event waits in
  a queue whose next check will find the bar, and the event a connection is about
  to send carries no mark (`Behind`). For `PresenceSettles`, the count is the
  number of opened connections, and with nobody announcing, the last announcement
  was the right one (`Settling`).
* *Automod* (`AutomodProofs`): `Current` adds to `CacheIsCurrent` the requests
  that hold loaded rules; `SeenWhatPassed` says the engine has seen what was let
  through, from which `RepeatsAreStopped` follows.
* *ServerRoles* (`ServerRolesProofs`): `PositionsAreDistinct` needs `Rooted`:
  `@everyone` keeps position 0 and every other role is at 1 or above, so that
  pushing roles up never meets it. For `NoOverthrow`, the rank of a member, a
  `CHOOSE` of the greatest position, is first replaced by what it means (`Ranked`,
  by the least-number principle on natural numbers); then each action either
  leaves the order of the members' roles alone or is done from above.
  `NobodyRaisesThemselves` looks at the roles a member has and what it may grant.
* *PermissionResolver*: the nested overrides of `resolve` against the strongest
  rule, by the cases of who speaks of a bit.
* *Relationships*: the two rows are always put together, so that only the pair of
  an action needs a look.
* *Voice*: `Covered` strengthens `OutsidersStayOut`: a token needs an eviction of
  its member, for that of a room takes no token back; a participant needs one of
  the member or of the room. Whether an eviction `Reaches` a member is kept by its
  lookup, unless the channel is deleted by then, and by a failure short of the last.
* *Attachments*: `FilesStay` from `Held`, what the cleanup knows of the object it
  has locked (what was due stays due, and with no live reference all rows of the
  object are due), and `Stored`, which adds the objects inspected for a row.
* *Registration*: what a request knows of its account (`Consistent`), and that two
  persons who chose one name do not both have an account with a password
  (`Apart`), which the lock and the second look at the name give.
* *SignIn*: sessions are numbered without gaps and an origin that was used is used
  up (`CodesSpent`, `FlowsSpent`), which gives `OneSessionEach`. `JoinsOnProof`
  needs `Linking`: an open link was begun since the last recovery of the password,
  or the session it needs has ended.
* *LocalCache*: `CacheInv`. `Layout` says how the three files go together (there is
  a copy beside a backup only while the backup is the plaintext cache, and short of
  a reset the main file is missing only then), `Located` what is known of them at
  each stage of a start; with them no step destroys the last copy that opens.
* *MlsDelivery*: `MlsInv`. A member that was not cut off is caught up by its
  mailbox (`Following`), which holds because members are enrolled devices, a
  change in progress was made of an epoch its device was a member of (`OfEnrolled`,
  `Grounded`), and who is not a member holds and gets nothing (`Strangers`), so
  that a welcome always opens an empty box.
* *PrivateHistory*: types only; that a text is not lost is refuted.

**Only model-checked**: the five liveness properties (`DueAccountsAreErasedUnlessStuck`,
`ClaimedAccountsAreErased`, `SavedSessionsComeBack`, `OperationsEnd`,
`PendingSettles`), since the prover has no support for fairness and ENABLED, and
the six refuted ones.

## Not modelled

* The rate limiter, proof of work and snowflake generator: arithmetic on clocks
  under one lock, without interaction.
* Channels, reports, the audit log: single transactions that nothing races with
  beyond what `ServerRoles` and `Voice` have of them.
* Cached ranges (`ranges.rs`): no other code uses them.
* The renderer, with its join generations and its merge of deltas: every snapshot
  of the core replaces its view.
* Cryptography (left to OpenMLS and the AEAD crates), matching of text, wire
  types, layout, Discord types, deployment, vendored crates.
* Of modelled parts: invite limits and expiry, expiry of refresh tokens and of key
  packages, changes of profiles, search, read states, replies and reactions,
  typing and voice states, the cache of servers and channels, several MLS groups
  at once, the older `recover_password`.

## What could come next

Invites with limits in `AccountLifecycle`; the renderer's join generations composed
with `Voice`; a delivery instance with two messages, which the present bounds of
time exclude; a reference specification for `AccountKey` and `PrivateHistory` that
says what a device may ever read.
