-------------------------- MODULE AccountLifecycle --------------------------
(***************************************************************************)
(* Account deletion across the two stores of the monolith.                 *)
(*                                                                         *)
(* The auth store (auth.rs, one SQLite connection behind a mutex) holds    *)
(* the deletion schedule, the erasure claim and the sessions.  The         *)
(* repository (repository.rs, PostgreSQL) holds the profile, the servers,  *)
(* their members and invites.  No transaction spans the two: a handler of  *)
(* lib.rs calls one store, then the other, and between the calls other     *)
(* requests and the deletion worker run, the client may hang up (which     *)
(* drops the handler) and the process may stop.  One action here is one    *)
(* call on one store, that is, one committed transaction.                  *)
(*                                                                         *)
(* Postgres = FALSE is the in-memory repository of development, where      *)
(* anonymize_user runs under one write lock.                               *)
(***************************************************************************)
EXTENDS Integers, FiniteSets

CONSTANTS
    Users,        \* account ids, Snowflakes: positive integers
    Guilds,       \* server ids that may be created
    Postgres,     \* TRUE: the PostgreSQL repository, FALSE: the in-memory one
    Grace,        \* ACCOUNT_DELETION_GRACE_DAYS, in clock steps
    BatchLimit,   \* accounts a worker pass takes (main.rs passes 100)
    MaxNow,       \* bound: the clock stops there
    MaxRequests,  \* bound: handlers in flight at once
    MaxFaults     \* bound: dropped handlers, storage errors and restarts

ASSUME UsersAssumption == Users \subseteq Nat \ {0}
ASSUME GraceAssumption == Grace \in Nat \ {0}
ASSUME BoundsAssumption ==
    /\ Postgres \in BOOLEAN
    /\ BatchLimit \in Nat \ {0}
    /\ MaxNow \in Nat /\ MaxRequests \in Nat /\ MaxFaults \in Nat

NoUser == 0       \* owner of a server that was never created

VARIABLES
    now,          \* the clock
    dueAt,        \* auth_users.deletion_due_at, 0 for NULL
    claimed,      \* accounts with anonymization_started_at set
    anonymized,   \* accounts with anonymized_at set
    signedIn,     \* accounts with a session that authenticates
    live,         \* servers with deleted_at NULL
    retired,      \* servers with deleted_at set
    owner,        \* guilds.owner_id
    members,      \* guild_members
    frozen,       \* servers with owner_deletion_pending_at set
    invited,      \* servers with an invite that is neither revoked nor used up
    tombstoned,   \* users with deleted_at set
    emails,       \* users whose profile row holds an email address
    requests,     \* handlers between two store calls
    transfers,    \* open transactions of transfer_guild_ownership
    worker,       \* the deletion worker
    faults        \* faults so far

authVars  == <<dueAt, claimed, anonymized, signedIn>>
guildVars == <<live, retired, owner, members, frozen, invited>>
userVars  == <<tombstoned, emails>>
vars == <<now, authVars, guildVars, userVars, requests, transfers, worker, faults>>

(***************************************************************************)
(* A handler in flight is known by the store call it makes next:           *)
(*   prepare, schedule, rollback   schedule_account_deletion               *)
(*   cancel, thaw                  cancel_account_deletion                 *)
(*   signin, profile               a login, then ensure_authenticated_user *)
(*   guild                         any request that passed                 *)
(*                                 require_active_account                  *)
(***************************************************************************)
Kinds == {"prepare", "schedule", "rollback", "cancel", "thaw",
          "signin", "profile", "guild"}
Request == [kind : Kinds, user : Users]
Stages == {"idle", "next", "anonymize", "commit", "finalize"}
Worker == [stage : Stages, queue : SUBSET Users,
           user : Users \cup {NoUser}, held : SUBSET Guilds]

\* PostgreSQL: the server is row-locked and the member found, not yet the owner
Transfer == [guild : Guilds, to : Users]

\* stage, accounts still listed, account in hand, servers row-locked
IdleWorker == [stage |-> "idle", queue |-> {}, user |-> NoUser,
               held |-> {}]

TypeOK ==
    /\ now \in Nat
    /\ dueAt \in [Users -> Nat]
    /\ claimed \subseteq Users
    /\ anonymized \subseteq Users
    /\ signedIn \subseteq Users
    /\ live \subseteq Guilds
    /\ retired \subseteq Guilds
    /\ owner \in [Guilds -> Users \cup {NoUser}]
    /\ members \in [Guilds -> SUBSET Users]
    /\ frozen \subseteq Guilds
    /\ invited \subseteq Guilds
    /\ tombstoned \subseteq Users
    /\ emails \subseteq Users
    /\ requests \subseteq Request
    /\ transfers \subseteq Transfer
    /\ ~Postgres => transfers = {}
    /\ worker \in Worker
    /\ worker.stage \in {"anonymize", "commit", "finalize"} => worker.user \in Users
    /\ faults \in Nat

Init ==
    /\ now = 0
    /\ dueAt = [u \in Users |-> 0]
    /\ claimed = {} /\ anonymized = {} /\ signedIn = Users
    /\ live = {} /\ retired = {}
    /\ owner = [g \in Guilds |-> NoUser]
    /\ members = [g \in Guilds |-> {}]
    /\ frozen = {} /\ invited = {}
    /\ tombstoned = {} /\ emails = Users
    /\ requests = {} /\ transfers = {}
    /\ worker = IdleWorker
    /\ faults = 0

-----------------------------------------------------------------------------
Scheduled(u) == dueAt[u] # 0
Lapsed(u) == Scheduled(u) /\ dueAt[u] <= now /\ u \notin anonymized
Owned(u) == {g \in live : owner[g] = u}
\* COUNT(*) FROM guild_members is at most one
Solo(g) == \A u, v \in members[g] : u = v
\* no open transaction, of the worker or of a transfer, holds a row FOR UPDATE
Unlocked(S) == S \cap (worker.held \cup {t.guild : t \in transfers}) = {}

CanArrive == Cardinality(requests) + Cardinality(transfers) < MaxRequests
Arrive(kind, u) == requests' = requests \cup {[kind |-> kind, user |-> u]}
Advance(r, kind) ==
    requests' = (requests \ {r}) \cup {[kind |-> kind, user |-> r.user]}
Finish(r) == requests' = requests \ {r}

\* authenticated_principal: a live session of an account not yet erased
Authenticates(u) == u \in signedIn \ anonymized

-----------------------------------------------------------------------------
(* Arrivals: the first store call of each kind of request. *)

\* login_password and the other logins: refused once the account is erased
Login(u) ==
    /\ CanArrive
    /\ u \notin anonymized
    /\ signedIn' = signedIn \cup {u}
    /\ Arrive("signin", u)
    /\ UNCHANGED <<now, dueAt, claimed, anonymized, guildVars, userVars, transfers, worker, faults>>

\* these two do not ask whether a deletion is already pending
DeletionRequest(u, kind) ==
    /\ CanArrive
    /\ Authenticates(u)
    /\ kind \in {"prepare", "cancel"}
    /\ Arrive(kind, u)
    /\ UNCHANGED <<now, authVars, guildVars, userVars, transfers, worker, faults>>

\* mutant: without require_active_account
GuildRequest_NoActiveCheck(u) ==
    /\ CanArrive
    /\ Authenticates(u)
    /\ Arrive("guild", u)
    /\ UNCHANGED <<now, authVars, guildVars, userVars, transfers, worker, faults>>

\* authenticated_user: authenticate, then require_active_account
GuildRequest(u) ==
    /\ CanArrive
    /\ Authenticates(u)
    /\ ~Scheduled(u)
    /\ Arrive("guild", u)
    /\ UNCHANGED <<now, authVars, guildVars, userVars, transfers, worker, faults>>

-----------------------------------------------------------------------------
(* schedule_account_deletion *)

\* mutant: the refusal commits the freeze instead of rolling it back
Prepare_CommitsBlocked(r) ==
    /\ r.kind = "prepare"
    /\ Unlocked(Owned(r.user))
    /\ frozen' = frozen \cup Owned(r.user)
    /\ invited' = invited \ Owned(r.user)
    /\ IF \E g \in Owned(r.user) : ~Solo(g) THEN Finish(r) ELSE Advance(r, "schedule")
    /\ UNCHANGED <<now, authVars, live, retired, owner, members, userVars, transfers, worker, faults>>

\* prepare_account_deletion: lock and count the owned servers, freeze them
Prepare(r) ==
    /\ r.kind = "prepare"
    /\ Unlocked(Owned(r.user))
    /\ \/ /\ \E g \in Owned(r.user) : ~Solo(g)
          /\ Finish(r)
          /\ UNCHANGED <<frozen, invited>>
       \/ /\ \A g \in Owned(r.user) : Solo(g)
          /\ frozen' = frozen \cup Owned(r.user)
          /\ invited' = invited \ Owned(r.user)
          /\ Advance(r, "schedule")
    /\ UNCHANGED <<now, authVars, live, retired, owner, members, userVars, transfers, worker, faults>>

\* the first deadline is kept, every session is revoked
ScheduleAuth(r) ==
    /\ r.kind = "schedule"
    /\ \/ /\ r.user \notin anonymized
          /\ dueAt' = [dueAt EXCEPT ![r.user] =
                          IF Scheduled(r.user) THEN @ ELSE now + Grace]
          /\ signedIn' = signedIn \ {r.user}
          /\ Finish(r)
       \/ /\ r.user \in anonymized
          /\ Advance(r, "rollback")
          /\ UNCHANGED <<dueAt, signedIn>>
    /\ UNCHANGED <<now, claimed, anonymized, guildVars, userVars, transfers, worker, faults>>

\* cancel_account_deletion_preparation, after a cancel or a failed schedule
CancelPreparation(r) ==
    /\ r.kind \in {"rollback", "thaw"}
    /\ Unlocked(Owned(r.user))
    /\ frozen' = frozen \ Owned(r.user)
    /\ Finish(r)
    /\ UNCHANGED <<now, authVars, live, retired, owner, members, invited, userVars, transfers, worker, faults>>

(* cancel_account_deletion: refused once the worker has claimed the account *)
CancelAuth(r) ==
    /\ r.kind = "cancel"
    /\ \/ /\ r.user \notin claimed \cup anonymized
          /\ dueAt' = [dueAt EXCEPT ![r.user] = 0]
          /\ Advance(r, "thaw")
       \/ /\ r.user \in claimed \cup anonymized
          /\ Finish(r)
          /\ UNCHANGED dueAt
    /\ UNCHANGED <<now, claimed, anonymized, signedIn, guildVars, userVars, transfers, worker, faults>>

-----------------------------------------------------------------------------
(* ensure_authenticated_user: read the username, then upsert the profile *)

ReadUsername(r) ==
    /\ r.kind = "signin"
    /\ IF r.user \in anonymized THEN Finish(r) ELSE Advance(r, "profile")
    /\ UNCHANGED <<now, authVars, guildVars, userVars, transfers, worker, faults>>

\* ON CONFLICT (id) DO UPDATE SET email = COALESCE(EXCLUDED.email, users.email)
EnsureUser(r) ==
    /\ r.kind = "profile"
    /\ emails' = IF Postgres THEN emails \cup {r.user} ELSE emails
    /\ Finish(r)
    /\ UNCHANGED <<now, authVars, guildVars, tombstoned, transfers, worker, faults>>

-----------------------------------------------------------------------------
(* One server transaction of a request that passed require_active_account.  *)
(* Roles are abstracted: any member may hold the permission the call needs. *)

\* create_guild asks for nothing but the owner's row
CreateGuild(r, g) ==
    /\ g \notin live \cup retired
    /\ live' = live \cup {g}
    /\ owner' = [owner EXCEPT ![g] = r.user]
    /\ members' = [members EXCEPT ![g] = {r.user}]
    /\ UNCHANGED <<retired, frozen, invited>>

\* mutant: does not ask whether the owner's deletion is pending
CreateInvite_IgnoresFreeze(r, g) ==
    /\ g \in live /\ Unlocked({g})
    /\ r.user \in members[g]
    /\ invited' = invited \cup {g}
    /\ UNCHANGED <<live, retired, owner, members, frozen>>

CreateInvite(r, g) ==
    /\ g \in live /\ Unlocked({g})
    /\ r.user \in members[g]
    /\ g \notin frozen
    /\ invited' = invited \cup {g}
    /\ UNCHANGED <<live, retired, owner, members, frozen>>

\* mutant: reads the server without FOR UPDATE
AcceptInvite_NoRowLock(r, g) ==
    /\ g \in live
    /\ g \in invited \ frozen
    /\ r.user \notin members[g]
    /\ members' = [members EXCEPT ![g] = @ \cup {r.user}]
    /\ UNCHANGED <<live, retired, owner, frozen, invited>>

\* the last use of an invite may be the one that spends it
AcceptInvite(r, g) ==
    /\ g \in live /\ Unlocked({g})
    /\ g \in invited \ frozen
    /\ r.user \notin members[g]
    /\ members' = [members EXCEPT ![g] = @ \cup {r.user}]
    /\ invited' \in {invited, invited \ {g}}
    /\ UNCHANGED <<live, retired, owner, frozen>>

\* mutant: the target need not be a member
TransferOwnership_AnyTarget(r, g, v) ==
    /\ ~Postgres
    /\ g \in live
    /\ owner[g] = r.user
    /\ v # r.user
    /\ owner' = [owner EXCEPT ![g] = v]
    /\ frozen' = frozen \ {g}
    /\ UNCHANGED <<live, retired, members, invited>>

\* in memory, under one lock: the target is a current member; whether it has
\* scheduled deletion is not asked, and the freeze is lifted
TransferOwnership(r, g, v) ==
    /\ ~Postgres
    /\ g \in live
    /\ owner[g] = r.user
    /\ v \in members[g] \ {r.user}
    /\ owner' = [owner EXCEPT ![g] = v]
    /\ frozen' = frozen \ {g}
    /\ UNCHANGED <<live, retired, members, invited>>

DeleteGuild(r, g) ==
    /\ g \in live /\ Unlocked({g})
    /\ owner[g] = r.user
    /\ live' = live \ {g}
    /\ retired' = retired \cup {g}
    /\ frozen' = frozen \ {g}
    /\ invited' = invited \ {g}
    /\ UNCHANGED <<owner, members>>

\* kick_member, ban_member: never the actor, never the owner
RemoveMember(r, g, v) ==
    /\ g \in live /\ Unlocked({g})
    /\ r.user \in members[g]
    /\ v \in members[g] \ {r.user, owner[g]}
    /\ members' = [members EXCEPT ![g] = @ \ {v}]
    /\ UNCHANGED <<live, retired, owner, frozen, invited>>

\* PostgreSQL: the server is locked, the target only read, by a plain EXISTS of
\* a current member without a tombstone
TransferCheck(r, g, v) ==
    /\ Postgres
    /\ g \in live /\ Unlocked({g})
    /\ owner[g] = r.user
    /\ v \in members[g] \ ({r.user} \cup tombstoned)
    /\ transfers' = transfers \cup {[guild |-> g, to |-> v]}
    /\ UNCHANGED guildVars

\* PostgreSQL: the UPDATE and its commit ask nothing more of the target
TransferCommit(t) ==
    /\ owner' = [owner EXCEPT ![t.guild] = t.to]
    /\ frozen' = frozen \ {t.guild}
    /\ transfers' = transfers \ {t}
    /\ UNCHANGED <<now, authVars, live, retired, members, invited, userVars, requests, worker, faults>>

\* not found, forbidden, or anything that leaves the servers alone
Refused == UNCHANGED guildVars

GuildStep(r) ==
    /\ r.kind = "guild"
    /\ \/ /\ \/ \E g \in Guilds : CreateGuild(r, g)
             \/ \E g \in Guilds : CreateInvite(r, g)
             \/ \E g \in Guilds : AcceptInvite(r, g)
             \/ \E g \in Guilds : DeleteGuild(r, g)
             \/ \E g \in Guilds, v \in Users : TransferOwnership(r, g, v)
             \/ \E g \in Guilds, v \in Users : RemoveMember(r, g, v)
             \/ Refused
          /\ UNCHANGED transfers
       \/ \E g \in Guilds, v \in Users : TransferCheck(r, g, v)
    /\ Finish(r)
    /\ UNCHANGED <<now, authVars, userVars, worker, faults>>

-----------------------------------------------------------------------------
(* finalize_due_account_deletions *)

\* ORDER BY deletion_due_at, id
Before(u, v) == dueAt[u] < dueAt[v] \/ (dueAt[u] = dueAt[v] /\ u < v)
\* mutant: an interrupted claim is not listed again
Due_SkipsClaimed == {u \in Users : Lapsed(u) /\ u \notin claimed}
Due == {u \in Users : Lapsed(u)}
DueBatch == {u \in Due : Cardinality({v \in Due : Before(v, u)}) < BatchLimit}

\* due_account_deletions
WorkerList ==
    /\ worker.stage = "idle"
    /\ DueBatch # {}
    /\ worker' = [IdleWorker EXCEPT !.stage = "next", !.queue = DueBatch]
    /\ UNCHANGED <<now, authVars, guildVars, userVars, requests, transfers, faults>>

\* mutant: the account is handed to the repository without a durable claim
WorkerClaim_NotStored(u) ==
    /\ worker.stage = "next"
    /\ u \in worker.queue
    /\ \A v \in worker.queue \ {u} : Before(u, v)
    /\ worker' = IF Lapsed(u) THEN [worker EXCEPT !.stage = "anonymize", !.user = u]
                               ELSE [worker EXCEPT !.queue = @ \ {u}]
    /\ UNCHANGED <<now, authVars, guildVars, userVars, requests, transfers, faults>>

\* begin_account_anonymization: claim, or skip an account that was cancelled
WorkerClaim(u) ==
    /\ worker.stage = "next"
    /\ u \in worker.queue
    /\ \A v \in worker.queue \ {u} : Before(u, v)
    /\ \/ /\ Lapsed(u)
          /\ claimed' = claimed \cup {u}
          /\ worker' = [worker EXCEPT !.stage = "anonymize", !.user = u]
       \/ /\ ~Lapsed(u)
          /\ worker' = [worker EXCEPT !.queue = @ \ {u}]
          /\ UNCHANGED claimed
    /\ UNCHANGED <<now, dueAt, anonymized, signedIn, guildVars, userVars, requests, transfers, faults>>

\* the effects of anonymize_user on the servers and the profile
Erase(u, doomed) ==
    /\ live' = live \ doomed
    /\ retired' = retired \cup doomed
    /\ frozen' = frozen \ doomed
    /\ invited' = invited \ doomed
    /\ members' = [g \in Guilds |-> members[g] \ {u}]
    /\ tombstoned' = tombstoned \cup {u}
    /\ emails' = emails \ {u}
    /\ UNCHANGED owner

\* a conflict ends the whole pass, whoever else was listed
WorkerConflict ==
    /\ worker.stage = "anonymize"
    /\ Unlocked(Owned(worker.user))
    /\ \E g \in Owned(worker.user) : ~Solo(g)
    /\ worker' = IdleWorker
    /\ UNCHANGED <<now, authVars, guildVars, userVars, requests, transfers, faults>>

\* mutant: forgets whose servers it locked
WorkerLock_ForgetsUser ==
    /\ Postgres
    /\ worker.stage = "anonymize"
    /\ Unlocked(Owned(worker.user))
    /\ \A g \in Owned(worker.user) : Solo(g)
    /\ worker' = [worker EXCEPT !.stage = "commit", !.held = Owned(worker.user),
                                !.user = NoUser]
    /\ UNCHANGED <<now, authVars, guildVars, userVars, requests, transfers, faults>>

\* PostgreSQL: SELECT the owned servers FOR UPDATE and count their members
WorkerLock ==
    /\ Postgres
    /\ worker.stage = "anonymize"
    /\ Unlocked(Owned(worker.user))
    /\ \A g \in Owned(worker.user) : Solo(g)
    /\ worker' = [worker EXCEPT !.stage = "commit", !.held = Owned(worker.user)]
    /\ UNCHANGED <<now, authVars, guildVars, userVars, requests, transfers, faults>>

\* PostgreSQL: the statements that follow see what was committed meanwhile
WorkerCommit ==
    /\ worker.stage = "commit"
    /\ Erase(worker.user, worker.held)
    /\ worker' = [worker EXCEPT !.stage = "finalize", !.held = {}]
    /\ UNCHANGED <<now, authVars, requests, transfers, faults>>

\* the in-memory repository does both under its write lock
WorkerEraseInMemory ==
    /\ ~Postgres
    /\ worker.stage = "anonymize"
    /\ \A g \in Owned(worker.user) : Solo(g)
    /\ Erase(worker.user, Owned(worker.user))
    /\ worker' = [worker EXCEPT !.stage = "finalize"]
    /\ UNCHANGED <<now, authVars, requests, transfers, faults>>

\* finalize_account_deletion destroys the sessions and clears the deadline
WorkerFinalize ==
    /\ worker.stage = "finalize"
    /\ IF Lapsed(worker.user)
         THEN /\ anonymized' = anonymized \cup {worker.user}
              /\ dueAt' = [dueAt EXCEPT ![worker.user] = 0]
              /\ signedIn' = signedIn \ {worker.user}
         ELSE UNCHANGED <<anonymized, dueAt, signedIn>>
    /\ worker' = [worker EXCEPT !.stage = "next", !.queue = @ \ {worker.user},
                                !.user = NoUser]
    /\ UNCHANGED <<now, claimed, guildVars, userVars, requests, transfers, faults>>

WorkerPassEnds ==
    /\ worker.stage = "next" /\ worker.queue = {}
    /\ worker' = IdleWorker
    /\ UNCHANGED <<now, authVars, guildVars, userVars, requests, transfers, faults>>

WorkerStep ==
    \/ WorkerList \/ (\E u \in Users : WorkerClaim(u)) \/ WorkerConflict
    \/ WorkerLock \/ WorkerCommit \/ WorkerEraseInMemory
    \/ WorkerFinalize \/ WorkerPassEnds

-----------------------------------------------------------------------------
(* The environment *)

\* A step of the clock is a day and the grace period is thirty: no request and
\* no worker pass outlives the step, so none spans an account's whole grace.
Tick ==
    /\ now < MaxNow
    /\ requests = {} /\ transfers = {}
    /\ worker.stage = "idle"
    /\ now' = now + 1
    /\ UNCHANGED <<authVars, guildVars, userVars, requests, transfers, worker, faults>>

\* the client hangs up, or a store call fails: the handler ends where it is
DropRequest(r) ==
    /\ faults < MaxFaults
    /\ faults' = faults + 1
    /\ Finish(r)
    /\ UNCHANGED <<now, authVars, guildVars, userVars, transfers, worker>>

\* the same inside the transaction of a transfer: it rolls back
DropTransfer(t) ==
    /\ faults < MaxFaults
    /\ faults' = faults + 1
    /\ transfers' = transfers \ {t}
    /\ UNCHANGED <<now, authVars, guildVars, userVars, requests, worker>>

\* a storage error ends the pass; an open transaction rolls back
WorkerFails ==
    /\ faults < MaxFaults
    /\ worker.stage # "idle"
    /\ faults' = faults + 1
    /\ worker' = IdleWorker
    /\ UNCHANGED <<now, authVars, guildVars, userVars, requests, transfers>>

\* the process restarts: both stores survive, nothing in flight does
Restart ==
    /\ faults < MaxFaults
    /\ faults' = faults + 1
    /\ requests' = {} /\ transfers' = {}
    /\ worker' = IdleWorker
    /\ UNCHANGED <<now, authVars, guildVars, userVars>>

HandlerStep(r) ==
    \/ Prepare(r) \/ ScheduleAuth(r) \/ CancelPreparation(r) \/ CancelAuth(r)
    \/ ReadUsername(r) \/ EnsureUser(r) \/ GuildStep(r)

Next ==
    \/ \E u \in Users :
         Login(u) \/ GuildRequest(u) \/ \E kind \in {"prepare", "cancel"} : DeletionRequest(u, kind)
    \/ \E r \in requests : HandlerStep(r) \/ DropRequest(r)
    \/ \E t \in transfers : TransferCommit(t) \/ DropTransfer(t)
    \/ WorkerStep
    \/ Tick \/ WorkerFails \/ Restart

Spec == Init /\ [][Next]_vars

\* the worker loop runs for ever (main.rs) and a handler runs to its end
Fairness ==
    /\ WF_vars(WorkerStep)
    /\ \A k \in Kinds, u \in Users :
         LET r == [kind |-> k, user |-> u] IN WF_vars(r \in requests /\ HandlerStep(r))
    /\ \A t \in Transfer : WF_vars(t \in transfers /\ TransferCommit(t))
FairSpec == Spec /\ Fairness

-----------------------------------------------------------------------------
(* Properties *)

\* Once the repository has erased a profile, the auth store still refuses the
\* account: its deletion is claimed, and either finished or still scheduled,
\* so that no cancel, login or retry gives back an account without its data.
ErasedAccountsAreNotRestored ==
    \A u \in tombstoned :
        /\ u \in claimed
        /\ u \in anonymized \/ Scheduled(u)

\* A frozen server (owner_deletion_pending_at) is a live server with at most
\* one member and no usable invite, whatever runs between freeze and erasure.
FrozenServersStaySolo ==
    \A g \in frozen : g \in live /\ Solo(g) /\ g \notin invited

\* Every live server is owned by one of its members whose account is not
\* erased (docs/server-ownership-lifecycle.md: "exactly one active owner").
ServersHaveAnActiveOwner ==
    \A g \in live : owner[g] \in members[g] \ tombstoned

Unsettled(u) ==
    \E r \in requests : r.user = u /\ r.kind \in {"schedule", "rollback", "thaw"}

\* Unless a handler was cut short, no interleaving of schedules and cancels of
\* one account leaves the servers of an account that is not scheduled frozen.
ActiveAccountsServersThaw ==
    faults = 0 =>
        \A u \in Users \ (tombstoned \cup anonymized) :
            ~Scheduled(u) /\ ~Unsettled(u) => Owned(u) \cap frozen = {}

\* An erased profile holds no email address again (anonymize_user nulls it).
ErasedProfilesHoldNoEmail == tombstoned \cap emails = {}

\* A claim is never withdrawn, and the deadline of a claimed account changes
\* only by the end of its erasure (begin_account_anonymization against cancel).
ClaimsAreFinal ==
    [][\A u \in claimed :
          /\ u \in claimed'
          /\ dueAt'[u] = dueAt[u] \/ u \in anonymized']_vars

Erasing == worker'.stage = "finalize" /\ worker.stage # "finalize"

\* Erasure retires no server with several members, although the members were
\* counted in an earlier statement (anonymize_user counts under row locks).
ErasureRetiresOnlySoloServers ==
    [][Erasing => \A g \in live \ live' : Solo(g)]_vars

\* An erased account joins no server, no transfer to it begins, and a server
\* comes to it only by a transfer begun before the erasure: transfer_guild_ownership
\* finds its target by an unlocked EXISTS and does not look again.
ErasedAccountsStayOut ==
    [][\A u \in tombstoned :
          /\ \A g \in Guilds :
                /\ u \in members'[g] => u \in members[g]
                /\ owner'[g] = u =>
                      owner[g] = u \/ \E t \in transfers : t.guild = g /\ t.to = u
          /\ \A t \in transfers' \ transfers : t.to # u]_vars

\* A due account that owns a server with other members stops every pass.
Stuck == \E v \in Users : Lapsed(v) /\ \E g \in Owned(v) : ~Solo(g)

\* A due account is erased in the end, or cancelled in time, or some due
\* account's server holds up the worker.
DueAccountsAreErasedUnlessStuck ==
    \A u \in Users :
        Lapsed(u) ~> (u \in anonymized \/ ~Scheduled(u) \/ Stuck)

\* What the schedule promises: a due account that owns no shared server is
\* erased, or was cancelled in time, whatever the other due accounts own.
DueAccountsAreErased ==
    \A u \in Users :
        (Lapsed(u) /\ [](\A g \in Owned(u) : Solo(g)))
            ~> (u \in anonymized \/ ~Scheduled(u))

\* Once claimed, an account that owns no shared server is erased whatever the
\* other due accounts own: claims are made in the order the deadlines fall.
ClaimedAccountsAreErased ==
    \A u \in Users :
        (u \in claimed /\ [](\A g \in Owned(u) : Solo(g))) ~> u \in anonymized

=============================================================================
