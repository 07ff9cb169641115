----------------------- MODULE AccountLifecycleProofs -----------------------
(* Theorems about AccountLifecycle, for every value of its constants. *)
EXTENDS AccountLifecycle, TLAPS

USE UsersAssumption, GraceAssumption, BoundsAssumption DEF NoUser

LEMMA InitTypeOK == Init => TypeOK
BY DEF Init, TypeOK, IdleWorker, Worker, Stages

\* Every step keeps the types.
LEMMA NextTypeOK == TypeOK /\ [Next]_vars => TypeOK'
<1> SUFFICES ASSUME TypeOK, [Next]_vars PROVE TypeOK'
  OBVIOUS
<1> USE DEF authVars, guildVars, userVars
<1>1. ASSUME NEW u \in Users, Login(u) PROVE TypeOK'
  BY <1>1 DEF TypeOK, Login, Arrive, Request, Kinds
<1>2. ASSUME NEW u \in Users, NEW kind \in {"prepare", "cancel"},
             DeletionRequest(u, kind) PROVE TypeOK'
  BY <1>2 DEF TypeOK, DeletionRequest, Arrive, Request, Kinds
<1>3. ASSUME NEW u \in Users, GuildRequest(u) PROVE TypeOK'
  BY <1>3 DEF TypeOK, GuildRequest, Arrive, Request, Kinds
<1>4. ASSUME NEW r \in requests, HandlerStep(r) PROVE TypeOK'
  <2>0. r \in Request
    BY DEF TypeOK
  <2>1. CASE Prepare(r)
    BY <2>0, <2>1 DEF TypeOK, Prepare, Advance, Finish, Request, Kinds, Owned
  <2>2. CASE ScheduleAuth(r)
    <3>1. dueAt' \in [Users -> Nat]
      BY <2>0, <2>2 DEF TypeOK, ScheduleAuth, Request
    <3>2. requests' \subseteq Request
      BY <2>0, <2>2 DEF TypeOK, ScheduleAuth, Advance, Finish, Request, Kinds
    <3>3. signedIn' \subseteq Users
      BY <2>2 DEF TypeOK, ScheduleAuth
    <3>4. QED
      BY <2>2, <3>1, <3>2, <3>3 DEF TypeOK, ScheduleAuth
  <2>3. CASE CancelPreparation(r)
    BY <2>0, <2>3 DEF TypeOK, CancelPreparation, Finish, Request
  <2>4. CASE CancelAuth(r)
    BY <2>0, <2>4 DEF TypeOK, CancelAuth, Advance, Finish, Request, Kinds
  <2>5. CASE ReadUsername(r)
    BY <2>0, <2>5 DEF TypeOK, ReadUsername, Advance, Finish, Request, Kinds
  <2>6. CASE EnsureUser(r)
    BY <2>0, <2>6 DEF TypeOK, EnsureUser, Finish, Request
  <2>7. CASE GuildStep(r)
    <3>1. /\ live' \subseteq Guilds /\ retired' \subseteq Guilds
          /\ frozen' \subseteq Guilds /\ invited' \subseteq Guilds
      BY <2>0, <2>7 DEF TypeOK, GuildStep, CreateGuild, CreateInvite,
         AcceptInvite, TransferOwnership, TransferCheck, DeleteGuild, RemoveMember, Refused,
         guildVars
    <3>2. owner' \in [Guilds -> Users \cup {NoUser}]
      BY <2>0, <2>7 DEF TypeOK, GuildStep, CreateGuild, CreateInvite, Request,
         AcceptInvite, TransferOwnership, TransferCheck, DeleteGuild, RemoveMember, Refused,
         guildVars
    <3>3. members' \in [Guilds -> SUBSET Users]
      <4>1. r.user \in Users
        BY <2>0 DEF Request
      <4>2. ASSUME NEW g \in Guilds, CreateGuild(r, g) PROVE members' \in [Guilds -> SUBSET Users]
        BY <4>1, <4>2 DEF TypeOK, CreateGuild
      <4>3. ASSUME NEW g \in Guilds, AcceptInvite(r, g) PROVE members' \in [Guilds -> SUBSET Users]
        BY <4>1, <4>3 DEF TypeOK, AcceptInvite
      <4>4. ASSUME NEW g \in Guilds, NEW v \in Users, RemoveMember(r, g, v) PROVE members' \in [Guilds -> SUBSET Users]
        BY <4>4 DEF TypeOK, RemoveMember
      <4>5. QED
        BY <2>7, <4>2, <4>3, <4>4 DEF TypeOK, GuildStep, CreateInvite,
           TransferOwnership, TransferCheck, DeleteGuild, Refused, guildVars
    <3>4. transfers' \subseteq Transfer /\ (~Postgres => transfers' = {})
      <4>1. CASE UNCHANGED transfers
        BY <4>1 DEF TypeOK
      <4>2. ASSUME NEW g \in Guilds, NEW v \in Users, TransferCheck(r, g, v)
            PROVE  transfers' \subseteq Transfer /\ Postgres
        BY <4>2 DEF TypeOK, TransferCheck, Transfer
      <4>3. QED
        BY <2>7, <4>1, <4>2 DEF GuildStep
    <3>5. QED
      BY <2>7, <3>1, <3>2, <3>3, <3>4 DEF TypeOK, GuildStep, Finish
  <2>8. QED
    BY <1>4, <2>1, <2>2, <2>3, <2>4, <2>5, <2>6, <2>7 DEF HandlerStep
<1>5. ASSUME NEW r \in requests, DropRequest(r) PROVE TypeOK'
  BY <1>5 DEF TypeOK, DropRequest, Finish
<1>5a. ASSUME NEW t \in transfers, TransferCommit(t) \/ DropTransfer(t) PROVE TypeOK'
  <2>1. t.to \in Users
    BY DEF TypeOK, Transfer
  <2>2. CASE TransferCommit(t)
    <3>1. owner' \in [Guilds -> Users \cup {NoUser}]
      BY <2>1, <2>2 DEF TypeOK, TransferCommit
    <3>2. QED
      BY <2>2, <3>1 DEF TypeOK, TransferCommit
  <2>3. CASE DropTransfer(t)
    BY <2>3 DEF TypeOK, DropTransfer
  <2>4. QED
    BY <1>5a, <2>2, <2>3
<1>6. ASSUME WorkerStep PROVE TypeOK'
  <2>1. CASE WorkerList
    BY <2>1 DEF TypeOK, WorkerList, DueBatch, Due, IdleWorker, Worker, Stages
  <2>2. ASSUME NEW u \in Users, WorkerClaim(u) PROVE TypeOK'
    <3>1. CASE Lapsed(u)
      BY <2>2, <3>1 DEF TypeOK, WorkerClaim, Worker, Stages
    <3>2. CASE ~Lapsed(u)
      BY <2>2, <3>2 DEF TypeOK, WorkerClaim, Worker, Stages
    <3>3. QED
      BY <3>1, <3>2
  <2>3. CASE WorkerConflict
    BY <2>3 DEF TypeOK, WorkerConflict, IdleWorker, Worker, Stages
  <2>4. CASE WorkerLock
    BY <2>4 DEF TypeOK, WorkerLock, Owned, Worker, Stages
  <2>5. CASE WorkerCommit
    <3>1. worker' \in Worker
      BY <2>5 DEF TypeOK, WorkerCommit, Worker, Stages
    <3>2. members' \in [Guilds -> SUBSET Users]
      BY <2>5 DEF TypeOK, WorkerCommit, Erase
    <3>3. QED
      BY <2>5, <3>1, <3>2 DEF TypeOK, WorkerCommit, Erase, Worker
  <2>6. CASE WorkerEraseInMemory
    <3>1. worker' \in Worker
      BY <2>6 DEF TypeOK, WorkerEraseInMemory, Worker, Stages
    <3>2. members' \in [Guilds -> SUBSET Users]
      BY <2>6 DEF TypeOK, WorkerEraseInMemory, Erase
    <3>3. QED
      BY <2>6, <3>1, <3>2 DEF TypeOK, WorkerEraseInMemory, Erase, Owned, Worker
  <2>7. CASE WorkerFinalize
    <3>1. worker' \in Worker
      BY <2>7 DEF TypeOK, WorkerFinalize, Worker, Stages
    <3>2. dueAt' \in [Users -> Nat]
      BY <2>7 DEF TypeOK, WorkerFinalize
    <3>3. anonymized' \subseteq Users /\ signedIn' \subseteq Users
      BY <2>7 DEF TypeOK, WorkerFinalize, Lapsed, Scheduled
    <3>4. QED
      BY <2>7, <3>1, <3>2, <3>3 DEF TypeOK, WorkerFinalize
  <2>8. CASE WorkerPassEnds
    BY <2>8 DEF TypeOK, WorkerPassEnds, IdleWorker, Worker, Stages
  <2>9. QED
    BY <1>6, <2>1, <2>2, <2>3, <2>4, <2>5, <2>6, <2>7, <2>8 DEF WorkerStep
<1>7. CASE Tick
  BY <1>7 DEF TypeOK, Tick
<1>8. CASE WorkerFails
  BY <1>8 DEF TypeOK, WorkerFails, IdleWorker, Worker, Stages
<1>9. CASE Restart
  BY <1>9 DEF TypeOK, Restart, IdleWorker, Worker, Stages
<1>10. CASE UNCHANGED vars
  BY <1>10 DEF TypeOK, vars
<1>11. QED
  BY <1>1, <1>2, <1>3, <1>4, <1>5, <1>5a, <1>6, <1>7, <1>8, <1>9, <1>10 DEF Next

\* The two stores, the servers, the handlers in flight and the worker keep
\* their shape in every reachable state.
THEOREM TypeCorrect == Spec => []TypeOK
BY InitTypeOK, NextTypeOK, PTL DEF Spec

-----------------------------------------------------------------------------
(***************************************************************************)
(* The inductive strengthening of the erasure properties.  A claim is only *)
(* set on a due account, a due account has no ordinary request in flight   *)
(* (those were admitted before the deletion was scheduled), and the worker *)
(* erases only what it has claimed; so nothing brings an erased account    *)
(* back into a server.                                                     *)
(***************************************************************************)
ClaimsAreDue ==
    \A u \in claimed \ anonymized : Scheduled(u) /\ dueAt[u] <= now

ErasureOrder == anonymized \subseteq tombstoned /\ tombstoned \subseteq claimed

WorkerHoldsAClaim ==
    /\ worker.stage \in {"anonymize", "commit", "finalize"} =>
          worker.user \in claimed \ anonymized
    /\ worker.stage = "finalize" => worker.user \in tombstoned

\* a request admitted by require_active_account belongs to nobody who is due
AdmittedAreActive ==
    \A r \in requests : r.kind = "guild" =>
        /\ r.user \notin claimed
        /\ dueAt[r.user] = 0 \/ dueAt[r.user] > now

ErasedHaveLeft == \A u \in tombstoned, g \in Guilds : u \notin members[g]

ErasureInv ==
    /\ ClaimsAreDue
    /\ ErasureOrder
    /\ WorkerHoldsAClaim
    /\ AdmittedAreActive
    /\ ErasedHaveLeft

LEMMA InitErasureInv == Init => ErasureInv
BY DEF Init, ErasureInv, ClaimsAreDue, ErasureOrder, WorkerHoldsAClaim,
       AdmittedAreActive, ErasedHaveLeft, IdleWorker

\* A request that only starts, moves on or ends as another kind keeps the
\* invariant when it leaves the stores and the worker alone.
LEMMA RequestsOnly ==
    ASSUME TypeOK, ErasureInv,
           UNCHANGED <<now, dueAt, claimed, anonymized, members, tombstoned, worker>>,
           \A r \in requests' : r.kind = "guild" => r \in requests
    PROVE  ErasureInv'
BY DEF ErasureInv, ClaimsAreDue, ErasureOrder, WorkerHoldsAClaim,
       AdmittedAreActive, ErasedHaveLeft, Scheduled

LEMMA ScheduleAuthErasureInv ==
    ASSUME TypeOK, ErasureInv, NEW r \in requests, ScheduleAuth(r)
    PROVE  ErasureInv'
<1> USE DEF authVars, guildVars, userVars
<1>0. r \in Request /\ r.user \in Users
  BY DEF TypeOK, Request
<1>1. CASE r.user \in anonymized
  <2>1. \A q \in requests' : q.kind = "guild" => q \in requests
    BY <1>0, <1>1 DEF ScheduleAuth, Advance, Request
  <2>2. QED
    BY <1>1, <2>1, RequestsOnly DEF ScheduleAuth
<1>2. CASE r.user \notin anonymized
  <2>1. \A u \in Users : dueAt'[u] = dueAt[u] \/ (dueAt[u] = 0 /\ dueAt'[u] = now + Grace)
    BY <1>0, <1>2 DEF ScheduleAuth, TypeOK, Scheduled
  <2>2. requests' \subseteq requests
    BY <1>2 DEF ScheduleAuth, Finish
  <2>3. UNCHANGED <<now, claimed, anonymized, members, tombstoned, worker>>
    BY DEF ScheduleAuth
  <2>4. now \in Nat /\ claimed \subseteq Users /\ requests \subseteq Request
    BY DEF TypeOK
  <2>5. ClaimsAreDue'
    BY <2>1, <2>3, <2>4 DEF ErasureInv, ClaimsAreDue, Scheduled
  <2>6. AdmittedAreActive'
    <3>1. SUFFICES ASSUME NEW q \in requests', q.kind = "guild"
                   PROVE  /\ q.user \notin claimed
                          /\ dueAt'[q.user] = 0 \/ dueAt'[q.user] > now
      BY <2>3 DEF AdmittedAreActive
    <3>2. /\ q.user \in Users /\ q.user \notin claimed
          /\ dueAt[q.user] = 0 \/ dueAt[q.user] > now
      BY <2>2, <2>4, <3>1 DEF ErasureInv, AdmittedAreActive, Request
    <3>3. now + Grace > now
      BY <2>4
    <3>4. dueAt'[q.user] = dueAt[q.user] \/ dueAt'[q.user] = now + Grace
      BY <2>1, <3>2
    <3>5. QED
      BY <3>2, <3>3, <3>4
  <2>7. QED
    BY <2>3, <2>5, <2>6 DEF ErasureInv, ErasureOrder, WorkerHoldsAClaim, ErasedHaveLeft
<1>3. QED
  BY <1>1, <1>2

LEMMA CancelAuthErasureInv ==
    ASSUME TypeOK, ErasureInv, NEW r \in requests, CancelAuth(r)
    PROVE  ErasureInv'
<1> USE DEF authVars, guildVars, userVars
<1>0. r \in Request /\ r.user \in Users
  BY DEF TypeOK, Request
<1>1. \A q \in requests' : q.kind = "guild" => q \in requests
  BY <1>0 DEF CancelAuth, Advance, Finish, Request
<1>2. CASE r.user \in claimed \cup anonymized
  BY <1>1, <1>2, RequestsOnly DEF CancelAuth
<1>3. CASE r.user \notin claimed \cup anonymized
  <2>1. \A u \in Users : dueAt'[u] = dueAt[u] \/ (u = r.user /\ dueAt'[u] = 0)
    BY <1>0, <1>3 DEF CancelAuth, TypeOK
  <2>2. UNCHANGED <<now, claimed, anonymized, members, tombstoned, worker>>
    BY DEF CancelAuth
  <2>3. claimed \subseteq Users /\ requests \subseteq Request
    BY DEF TypeOK
  <2>4. ClaimsAreDue'
    BY <1>3, <2>1, <2>2, <2>3 DEF ErasureInv, ClaimsAreDue, Scheduled
  <2>5. AdmittedAreActive'
    BY <1>1, <2>1, <2>2, <2>3 DEF ErasureInv, AdmittedAreActive, Request
  <2>6. QED
    BY <2>2, <2>4, <2>5 DEF ErasureInv, ErasureOrder, WorkerHoldsAClaim, ErasedHaveLeft
<1>4. QED
  BY <1>2, <1>3

\* An ordinary request is that of an account no claim has reached, so the
\* members it adds are not erased ones.
LEMMA GuildStepErasureInv ==
    ASSUME TypeOK, ErasureInv, NEW r \in requests, GuildStep(r)
    PROVE  ErasureInv'
<1> USE DEF authVars, guildVars, userVars
<1>0. r.user \in Users /\ r.user \notin tombstoned
  BY DEF TypeOK, Request, ErasureInv, AdmittedAreActive, ErasureOrder, GuildStep
<1>1. UNCHANGED <<now, dueAt, claimed, anonymized, tombstoned, worker>>
      /\ requests' \subseteq requests
  BY DEF GuildStep, Finish
<1>2. \A g \in Guilds : members'[g] \subseteq members[g] \cup {r.user}
  <2>1. ASSUME NEW g \in Guilds, CreateGuild(r, g) PROVE \A h \in Guilds : members'[h] \subseteq members[h] \cup {r.user}
    BY <1>0, <2>1 DEF TypeOK, CreateGuild
  <2>2. ASSUME NEW g \in Guilds, AcceptInvite(r, g) PROVE \A h \in Guilds : members'[h] \subseteq members[h] \cup {r.user}
    BY <1>0, <2>2 DEF TypeOK, AcceptInvite
  <2>3. ASSUME NEW g \in Guilds, NEW v \in Users, RemoveMember(r, g, v) PROVE \A h \in Guilds : members'[h] \subseteq members[h] \cup {r.user}
    BY <2>3 DEF TypeOK, RemoveMember
  <2>4. QED
    BY <2>1, <2>2, <2>3 DEF TypeOK, GuildStep, CreateInvite, TransferOwnership,
       TransferCheck, DeleteGuild, Refused
<1>3. ErasedHaveLeft'
  BY <1>0, <1>1, <1>2 DEF ErasureInv, ErasedHaveLeft
<1>4. QED
  BY <1>1, <1>3 DEF ErasureInv, ClaimsAreDue, Scheduled, ErasureOrder,
     WorkerHoldsAClaim, AdmittedAreActive

LEMMA WorkerClaimErasureInv ==
    ASSUME TypeOK, ErasureInv, NEW u \in Users, WorkerClaim(u)
    PROVE  ErasureInv'
<1> USE DEF authVars, guildVars, userVars
<1>1. CASE ~Lapsed(u)
  <2>1. claimed' = claimed /\ worker'.stage = "next"
    BY <1>1 DEF WorkerClaim, TypeOK, Worker
  <2>2. QED
    BY <2>1 DEF WorkerClaim, ErasureInv, ClaimsAreDue, Scheduled, ErasureOrder,
       WorkerHoldsAClaim, AdmittedAreActive, ErasedHaveLeft
<1>2. CASE Lapsed(u)
  <2>1. /\ claimed' = claimed \cup {u}
        /\ worker'.stage = "anonymize" /\ worker'.user = u
        /\ UNCHANGED <<now, dueAt, anonymized, members, tombstoned, requests>>
    BY <1>2 DEF WorkerClaim, TypeOK, Worker
  <2>2. u \notin anonymized /\ dueAt[u] # 0 /\ dueAt[u] <= now
    BY <1>2 DEF Lapsed, Scheduled
  <2>3. \A r \in requests : r.kind = "guild" => r.user # u
    BY <2>2 DEF ErasureInv, AdmittedAreActive, TypeOK
  <2>4. ClaimsAreDue' /\ ErasureOrder' /\ WorkerHoldsAClaim'
    BY <2>1, <2>2 DEF ErasureInv, ClaimsAreDue, ErasureOrder, WorkerHoldsAClaim, Scheduled
  <2>5. AdmittedAreActive' /\ ErasedHaveLeft'
    BY <2>1, <2>3 DEF ErasureInv, AdmittedAreActive, ErasedHaveLeft
  <2>6. QED
    BY <2>4, <2>5 DEF ErasureInv
<1>3. QED
  BY <1>1, <1>2

\* WorkerCommit and WorkerEraseInMemory
LEMMA EraseErasureInv ==
    ASSUME TypeOK, ErasureInv, NEW doomed, Erase(worker.user, doomed),
           worker.stage \in {"anonymize", "commit"},
           worker'.stage = "finalize", worker'.user = worker.user,
           UNCHANGED <<now, authVars, requests>>
    PROVE  ErasureInv'
<1> USE DEF authVars
<1>1. /\ tombstoned' = tombstoned \cup {worker.user}
      /\ members' = [g \in Guilds |-> members[g] \ {worker.user}]
  BY DEF Erase
<1>2. worker.user \in claimed \ anonymized
  BY DEF ErasureInv, WorkerHoldsAClaim
<1>3. ErasedHaveLeft'
  BY <1>1 DEF ErasureInv, ErasedHaveLeft
<1>4. ErasureOrder' /\ WorkerHoldsAClaim'
  BY <1>1, <1>2 DEF ErasureInv, ErasureOrder, WorkerHoldsAClaim
<1>5. ClaimsAreDue' /\ AdmittedAreActive'
  BY DEF ErasureInv, ClaimsAreDue, Scheduled, AdmittedAreActive
<1>6. QED
  BY <1>3, <1>4, <1>5 DEF ErasureInv

LEMMA WorkerFinalizeErasureInv ==
    ASSUME TypeOK, ErasureInv, WorkerFinalize
    PROVE  ErasureInv'
<1> USE DEF authVars, guildVars, userVars
<1>1. worker.user \in Users /\ worker.user \in tombstoned /\ worker.user \in claimed
  BY DEF TypeOK, ErasureInv, WorkerHoldsAClaim, WorkerFinalize
<1>2. worker'.stage = "next"
  BY DEF WorkerFinalize, TypeOK, Worker
<1>3. \/ anonymized' = anonymized /\ dueAt' = dueAt
      \/ /\ anonymized' = anonymized \cup {worker.user}
         /\ \A u \in Users \ {worker.user} : dueAt'[u] = dueAt[u]
  BY DEF WorkerFinalize, TypeOK
<1>4. UNCHANGED <<now, claimed, members, tombstoned, requests>>
  BY DEF WorkerFinalize
<1>5. claimed \subseteq Users /\ requests \subseteq Request
  BY DEF TypeOK
<1>6. ClaimsAreDue'
  BY <1>3, <1>4, <1>5 DEF ErasureInv, ClaimsAreDue, Scheduled
<1>7. ErasureOrder' /\ WorkerHoldsAClaim' /\ ErasedHaveLeft'
  BY <1>1, <1>2, <1>3, <1>4 DEF ErasureInv, ErasureOrder, WorkerHoldsAClaim, ErasedHaveLeft
<1>8. AdmittedAreActive'
  BY <1>1, <1>3, <1>4, <1>5 DEF ErasureInv, AdmittedAreActive, Request
<1>9. QED
  BY <1>6, <1>7, <1>8 DEF ErasureInv

LEMMA NextErasureInv == TypeOK /\ ErasureInv /\ [Next]_vars => ErasureInv'
<1> SUFFICES ASSUME TypeOK, ErasureInv, [Next]_vars PROVE ErasureInv'
  OBVIOUS
<1> USE DEF authVars, guildVars, userVars
<1>1. ASSUME NEW u \in Users, Login(u) PROVE ErasureInv'
  <2>1. \A r \in requests' : r.kind = "guild" => r \in requests
    BY <1>1 DEF Login, Arrive
  <2>2. QED
    BY <1>1, <2>1, RequestsOnly DEF Login
<1>2. ASSUME NEW u \in Users, NEW kind \in {"prepare", "cancel"},
             DeletionRequest(u, kind) PROVE ErasureInv'
  <2>1. \A r \in requests' : r.kind = "guild" => r \in requests
    BY <1>2 DEF DeletionRequest, Arrive
  <2>2. QED
    BY <1>2, <2>1, RequestsOnly DEF DeletionRequest
<1>3. ASSUME NEW u \in Users, GuildRequest(u) PROVE ErasureInv'
  <2>1. u \notin anonymized /\ dueAt[u] = 0
    BY <1>3 DEF GuildRequest, Authenticates, Scheduled
  <2>2. u \notin claimed
    BY <2>1 DEF ErasureInv, ClaimsAreDue, Scheduled
  <2>3. \A r \in requests' : r \in requests \/ r.user = u
    BY <1>3 DEF GuildRequest, Arrive
  <2>4. AdmittedAreActive'
    BY <1>3, <2>1, <2>2, <2>3 DEF GuildRequest, ErasureInv, AdmittedAreActive
  <2>5. QED
    BY <1>3, <2>4 DEF GuildRequest, ErasureInv, ClaimsAreDue, Scheduled, ErasureOrder,
       WorkerHoldsAClaim, ErasedHaveLeft
<1>4. ASSUME NEW r \in requests, HandlerStep(r) PROVE ErasureInv'
  <2>0. r \in Request
    BY DEF TypeOK
  <2>1. CASE Prepare(r) \/ CancelPreparation(r) \/ ReadUsername(r) \/ EnsureUser(r)
    <3>1. \A q \in requests' : q.kind = "guild" => q \in requests
      BY <2>1 DEF Prepare, CancelPreparation, ReadUsername, EnsureUser, Finish, Advance
    <3>2. UNCHANGED <<now, dueAt, claimed, anonymized, members, tombstoned, worker>>
      BY <2>1 DEF Prepare, CancelPreparation, ReadUsername, EnsureUser
    <3>3. QED
      BY <3>1, <3>2, RequestsOnly
  <2>2. QED
    BY <1>4, <2>1, ScheduleAuthErasureInv, CancelAuthErasureInv, GuildStepErasureInv
       DEF HandlerStep
<1>5. ASSUME NEW r \in requests, DropRequest(r) PROVE ErasureInv'
  BY <1>5, RequestsOnly DEF DropRequest, Finish
<1>5a. ASSUME NEW t \in transfers, TransferCommit(t) \/ DropTransfer(t) PROVE ErasureInv'
  BY <1>5a, RequestsOnly DEF TransferCommit, DropTransfer
<1>6. ASSUME WorkerStep PROVE ErasureInv'
  <2>1. CASE WorkerList \/ WorkerConflict \/ WorkerPassEnds
    <3>1. worker'.stage \in {"next", "idle"}
      <4>1. CASE WorkerList
        BY <4>1 DEF WorkerList, IdleWorker
      <4>2. CASE WorkerConflict
        BY <4>2 DEF WorkerConflict, IdleWorker
      <4>3. CASE WorkerPassEnds
        BY <4>3 DEF WorkerPassEnds, IdleWorker
      <4>4. QED
        BY <2>1, <4>1, <4>2, <4>3
    <3>2. UNCHANGED <<now, dueAt, claimed, anonymized, members, tombstoned, requests>>
      BY <2>1 DEF WorkerList, WorkerConflict, WorkerPassEnds
    <3>3. QED
      BY <3>1, <3>2 DEF ErasureInv, ClaimsAreDue, Scheduled, ErasureOrder,
         WorkerHoldsAClaim, AdmittedAreActive, ErasedHaveLeft
  <2>2. CASE WorkerLock
    <3>1. worker.stage = "anonymize" /\ worker'.stage = "commit" /\ worker'.user = worker.user
      BY <2>2 DEF WorkerLock, TypeOK, Worker
    <3>2. QED
      BY <2>2, <3>1 DEF WorkerLock, ErasureInv, ClaimsAreDue, Scheduled, ErasureOrder,
         WorkerHoldsAClaim, AdmittedAreActive, ErasedHaveLeft
  <2>3. CASE WorkerCommit
    <3>1. worker'.stage = "finalize" /\ worker'.user = worker.user
      BY <2>3 DEF WorkerCommit, TypeOK, Worker
    <3>2. QED
      BY <2>3, <3>1, EraseErasureInv DEF WorkerCommit
  <2>4. CASE WorkerEraseInMemory
    <3>1. worker'.stage = "finalize" /\ worker'.user = worker.user
      BY <2>4 DEF WorkerEraseInMemory, TypeOK, Worker
    <3>2. QED
      BY <2>4, <3>1, EraseErasureInv DEF WorkerEraseInMemory
  <2>5. QED
    BY <1>6, <2>1, <2>2, <2>3, <2>4, WorkerClaimErasureInv, WorkerFinalizeErasureInv
       DEF WorkerStep
<1>7. CASE Tick
  <2>1. now' = now + 1 /\ requests' = {}
        /\ UNCHANGED <<dueAt, claimed, anonymized, members, tombstoned, worker>>
    BY <1>7 DEF Tick
  <2>2. ClaimsAreDue'
    BY <2>1 DEF ErasureInv, ClaimsAreDue, Scheduled, TypeOK
  <2>3. QED
    BY <2>1, <2>2 DEF ErasureInv, ErasureOrder, WorkerHoldsAClaim,
       AdmittedAreActive, ErasedHaveLeft
<1>8. CASE WorkerFails \/ Restart
  <2>1. worker'.stage = "idle" /\ requests' \subseteq requests
        /\ UNCHANGED <<now, dueAt, claimed, anonymized, members, tombstoned>>
    BY <1>8 DEF WorkerFails, Restart, IdleWorker
  <2>2. QED
    BY <2>1 DEF ErasureInv, ClaimsAreDue, Scheduled, ErasureOrder,
       WorkerHoldsAClaim, AdmittedAreActive, ErasedHaveLeft
<1>9. CASE UNCHANGED vars
  BY <1>9 DEF vars, ErasureInv, ClaimsAreDue, Scheduled, ErasureOrder,
     WorkerHoldsAClaim, AdmittedAreActive, ErasedHaveLeft
<1>10. QED
  BY <1>1, <1>2, <1>3, <1>4, <1>5, <1>5a, <1>6, <1>7, <1>8, <1>9 DEF Next

LEMMA SpecErasureInv == Spec => []ErasureInv
BY InitErasureInv, NextErasureInv, TypeCorrect, PTL DEF Spec

\* Once the repository has erased a profile no login, cancel, retry or crash
\* gives the account back: its claim stands until the erasure is finished.
THEOREM ErasedAccountsAreNotRestoredThm == Spec => []ErasedAccountsAreNotRestored
<1>1. ErasureInv => ErasedAccountsAreNotRestored
  BY DEF ErasureInv, ErasureOrder, ClaimsAreDue, ErasedAccountsAreNotRestored
<1>2. QED
  BY <1>1, SpecErasureInv, PTL

\* A claimed account can only be erased: no step withdraws the claim or moves
\* the deadline, except the end of the erasure.
THEOREM ClaimsAreFinalThm == Spec => ClaimsAreFinal
<1> DEFINE Step == \A u \in claimed :
                     /\ u \in claimed'
                     /\ dueAt'[u] = dueAt[u] \/ u \in anonymized'
<1>1. TypeOK /\ ErasureInv /\ [Next]_vars => Step
  <2> SUFFICES ASSUME TypeOK, ErasureInv, [Next]_vars PROVE Step
    OBVIOUS
  <2> USE DEF authVars, guildVars, userVars
  <2>0. claimed \subseteq Users
    BY DEF TypeOK
  <2>1. ASSUME NEW r \in requests, HandlerStep(r) PROVE Step
    <3>0. r.user \in Users
      BY DEF TypeOK, Request
    <3>1. CASE ScheduleAuth(r)
      <4>1. \A u \in claimed : Scheduled(u) \/ u \in anonymized
        BY DEF ErasureInv, ClaimsAreDue
      <4>2. UNCHANGED <<claimed, anonymized>>
        BY <3>1 DEF ScheduleAuth
      <4>3. \A u \in Users : dueAt'[u] = dueAt[u] \/ (dueAt[u] = 0 /\ u \notin anonymized)
        BY <3>0, <3>1 DEF ScheduleAuth, TypeOK, Scheduled
      <4>4. QED
        BY <2>0, <4>1, <4>2, <4>3 DEF Scheduled
    <3>2. CASE CancelAuth(r)
      <4>1. \A u \in Users : dueAt'[u] = dueAt[u] \/ u \notin claimed
        BY <3>0, <3>2 DEF CancelAuth, TypeOK
      <4>2. QED
        BY <2>0, <3>2, <4>1 DEF CancelAuth
    <3>3. QED
      BY <2>1, <3>1, <3>2 DEF HandlerStep, Prepare, CancelPreparation, ReadUsername,
         EnsureUser, GuildStep
  <2>2. ASSUME WorkerStep PROVE Step
    <3>1. CASE WorkerFinalize
      <4>1. \A u \in Users : dueAt'[u] = dueAt[u] \/ u \in anonymized'
        BY <3>1 DEF WorkerFinalize, TypeOK
      <4>2. QED
        BY <2>0, <3>1, <4>1 DEF WorkerFinalize
    <3>2. QED
      BY <2>2, <3>1 DEF WorkerStep, WorkerList, WorkerClaim, WorkerConflict, WorkerLock,
         WorkerCommit, WorkerEraseInMemory, WorkerPassEnds
  <2>3. QED
    BY <2>1, <2>2 DEF Next, vars, Login, DeletionRequest, GuildRequest, DropRequest,
       TransferCommit, DropTransfer, Tick, WorkerFails, Restart
<1>2. TypeOK /\ ErasureInv /\ [Next]_vars => [Step]_vars
  BY <1>1
<1>3. QED
  BY <1>2, TypeCorrect, SpecErasureInv, PTL DEF Spec, ClaimsAreFinal

\* An erased account joins no server, no transfer to it begins, and a server
\* comes to it only by the commit of a transfer that found it before the erasure.
THEOREM ErasedAccountsStayOutThm == Spec => ErasedAccountsStayOut
<1> DEFINE Handed(u, g) ==
             owner'[g] = u => owner[g] = u \/ \E t \in transfers : t.guild = g /\ t.to = u
           Step == \A u \in tombstoned :
                     /\ \A g \in Guilds :
                          /\ u \in members'[g] => u \in members[g]
                          /\ Handed(u, g)
                     /\ \A t \in transfers' \ transfers : t.to # u
<1>1. TypeOK /\ ErasureInv /\ ErasureInv' /\ [Next]_vars => Step
  <2> SUFFICES ASSUME TypeOK, ErasureInv, ErasureInv', [Next]_vars,
                      NEW u \in tombstoned
               PROVE  /\ \A g \in Guilds :
                           /\ u \in members'[g] => u \in members[g]
                           /\ Handed(u, g)
                      /\ \A t \in transfers' \ transfers : t.to # u
    OBVIOUS
  <2> USE DEF authVars, guildVars, userVars
  <2>1. u \in tombstoned'
    BY DEF Next, vars, Login, DeletionRequest, GuildRequest, HandlerStep, DropRequest,
       WorkerStep, Tick, WorkerFails, Restart, Prepare, ScheduleAuth, CancelPreparation,
       CancelAuth, ReadUsername, EnsureUser, GuildStep, TransferCommit, DropTransfer,
       WorkerList, WorkerClaim, WorkerConflict, WorkerLock, WorkerCommit,
       WorkerEraseInMemory, Erase, WorkerFinalize, WorkerPassEnds
  <2>2. \A g \in Guilds : u \notin members'[g]
    BY <2>1 DEF ErasureInv, ErasedHaveLeft
  <2>3. ASSUME NEW r \in requests, GuildStep(r)
        PROVE  /\ \A g \in Guilds : Handed(u, g)
               /\ \A t \in transfers' \ transfers : t.to # u
    <3>1. r.user \notin tombstoned
      BY <2>3 DEF GuildStep, ErasureInv, AdmittedAreActive, ErasureOrder
    <3>2. ASSUME NEW h \in Guilds, CreateGuild(r, h)
          PROVE  \A g \in Guilds : owner'[g] = u => owner[g] = u
      BY <3>1, <3>2 DEF CreateGuild, TypeOK
    <3>3. ASSUME NEW h \in Guilds, NEW v \in Users, TransferOwnership(r, h, v)
          PROVE  \A g \in Guilds : owner'[g] = u => owner[g] = u
      <4>1. v \notin tombstoned
        BY <3>3 DEF TransferOwnership, ErasureInv, ErasedHaveLeft
      <4>2. QED
        BY <3>3, <4>1 DEF TransferOwnership, TypeOK
    <3>4. ASSUME NEW h \in Guilds, NEW v \in Users, TransferCheck(r, h, v)
          PROVE  /\ owner' = owner
                 /\ \A t \in transfers' \ transfers : t.to # u
      BY <3>4 DEF TransferCheck
    <3>5. QED
      BY <2>3, <3>2, <3>3, <3>4 DEF GuildStep, CreateInvite, AcceptInvite, DeleteGuild,
         RemoveMember, Refused
  <2>4. ASSUME NEW t \in transfers, TransferCommit(t)
        PROVE  \A g \in Guilds : Handed(u, g)
    <3>1. \A g \in Guilds : owner'[g] = owner[g] \/ (g = t.guild /\ owner'[g] = t.to)
      BY <2>4 DEF TransferCommit, TypeOK
    <3>2. QED
      BY <3>1
  <2>5. CASE owner' = owner /\ transfers' \subseteq transfers
    BY <2>2, <2>5
  <2>6. QED
    BY <2>2, <2>3, <2>4, <2>5 DEF Next, vars, Login, DeletionRequest, GuildRequest,
       HandlerStep, DropRequest, TransferCommit, DropTransfer, WorkerStep, Tick,
       WorkerFails, Restart, Prepare, ScheduleAuth, CancelPreparation, CancelAuth,
       ReadUsername, EnsureUser, WorkerList, WorkerClaim, WorkerConflict, WorkerLock,
       WorkerCommit, WorkerEraseInMemory, Erase, WorkerFinalize, WorkerPassEnds
<1>2. TypeOK /\ ErasureInv /\ ErasureInv' /\ [Next]_vars => [Step]_vars
  BY <1>1
<1>3. QED
  BY <1>2, TypeCorrect, SpecErasureInv, PTL DEF Spec, ErasedAccountsStayOut

-----------------------------------------------------------------------------
(***************************************************************************)
(* Servers.  The worker's row locks are what carries the member count from *)
(* the statement that reads it to the one that retires the server.         *)
(***************************************************************************)
HeldServersAreSolo ==
    /\ worker.stage # "commit" => worker.held = {}
    /\ worker.stage = "commit" => Postgres
    /\ \A g \in worker.held : g \in live /\ Solo(g)

ServerInv == FrozenServersStaySolo /\ HeldServersAreSolo

LEMMA InitServerInv == Init => ServerInv
BY DEF Init, ServerInv, FrozenServersStaySolo, HeldServersAreSolo, IdleWorker

LEMMA ServersUntouched ==
    ASSUME ServerInv, UNCHANGED guildVars, worker'.held = {}, worker'.stage # "commit"
    PROVE  ServerInv'
BY DEF ServerInv, FrozenServersStaySolo, HeldServersAreSolo, Solo, guildVars

LEMMA GuildStepServerInv ==
    ASSUME TypeOK, ServerInv, NEW r \in requests, GuildStep(r)
    PROVE  ServerInv'
<1> USE DEF Unlocked, Solo
<1>0. worker' = worker
  BY DEF GuildStep
<1>1. ASSUME NEW g \in Guilds, CreateGuild(r, g) PROVE ServerInv'
  BY <1>0, <1>1 DEF ServerInv, FrozenServersStaySolo, HeldServersAreSolo, CreateGuild, TypeOK
<1>2. ASSUME NEW g \in Guilds, CreateInvite(r, g) PROVE ServerInv'
  BY <1>0, <1>2 DEF ServerInv, FrozenServersStaySolo, HeldServersAreSolo, CreateInvite
<1>3. ASSUME NEW g \in Guilds, AcceptInvite(r, g) PROVE ServerInv'
  <2>1. \A h \in Guilds \ {g} : members'[h] = members[h]
    BY <1>3 DEF AcceptInvite, TypeOK
  <2>2. g \notin frozen /\ g \notin worker.held
    BY <1>3 DEF AcceptInvite
  <2>3. frozen' = frozen /\ live' = live /\ invited' \subseteq invited
    BY <1>3 DEF AcceptInvite
  <2>4. frozen \subseteq Guilds /\ live \subseteq Guilds
    BY DEF TypeOK
  <2>5. QED
    BY <1>0, <2>1, <2>2, <2>3, <2>4 DEF ServerInv, FrozenServersStaySolo, HeldServersAreSolo
<1>4. ASSUME NEW g \in Guilds, DeleteGuild(r, g) PROVE ServerInv'
  BY <1>0, <1>4 DEF ServerInv, FrozenServersStaySolo, HeldServersAreSolo, DeleteGuild
<1>5. ASSUME NEW g \in Guilds, NEW v \in Users, TransferOwnership(r, g, v) PROVE ServerInv'
  BY <1>0, <1>5 DEF ServerInv, FrozenServersStaySolo, HeldServersAreSolo, TransferOwnership
<1>6. ASSUME NEW g \in Guilds, NEW v \in Users, RemoveMember(r, g, v) PROVE ServerInv'
  <2>1. \A h \in Guilds : members'[h] \subseteq members[h]
    BY <1>6 DEF RemoveMember, TypeOK
  <2>2. frozen \subseteq Guilds /\ live \subseteq Guilds
    BY DEF TypeOK
  <2>3. QED
    BY <1>0, <1>6, <2>1, <2>2 DEF ServerInv, FrozenServersStaySolo, HeldServersAreSolo, RemoveMember
<1>7. CASE UNCHANGED guildVars
  BY <1>0, <1>7 DEF ServerInv, FrozenServersStaySolo, HeldServersAreSolo, guildVars
<1>8. QED
  BY <1>1, <1>2, <1>3, <1>4, <1>5, <1>6, <1>7 DEF GuildStep, TransferCheck, Refused

LEMMA EraseServerInv ==
    ASSUME TypeOK, ServerInv, NEW u, NEW doomed, Erase(u, doomed),
           worker'.held = {}, worker'.stage # "commit"
    PROVE  ServerInv'
<1>1. \A h \in Guilds : members'[h] \subseteq members[h]
  BY DEF Erase
<1>2. frozen \subseteq Guilds
  BY DEF TypeOK
<1>3. QED
  BY <1>1, <1>2 DEF ServerInv, FrozenServersStaySolo, HeldServersAreSolo, Solo, Erase

LEMMA NextServerInv == TypeOK /\ ServerInv /\ [Next]_vars => ServerInv'
<1> SUFFICES ASSUME TypeOK, ServerInv, [Next]_vars PROVE ServerInv'
  OBVIOUS
<1> USE DEF authVars, userVars
<1>1. CASE UNCHANGED <<guildVars, worker>>
  BY <1>1 DEF ServerInv, FrozenServersStaySolo, HeldServersAreSolo, Solo, guildVars
<1>2. ASSUME NEW r \in requests, Prepare(r) PROVE ServerInv'
  <2>1. UNCHANGED <<live, members, worker>>
    BY <1>2 DEF Prepare
  <2>2. \/ frozen' = frozen /\ invited' = invited
        \/ /\ \A g \in Owned(r.user) : Solo(g)
           /\ frozen' = frozen \cup Owned(r.user)
           /\ invited' = invited \ Owned(r.user)
    BY <1>2 DEF Prepare
  <2>3. Owned(r.user) \subseteq live
    BY DEF Owned
  <2>4. QED
    BY <2>1, <2>2, <2>3 DEF ServerInv, FrozenServersStaySolo, HeldServersAreSolo, Solo
<1>3. ASSUME NEW r \in requests, CancelPreparation(r) PROVE ServerInv'
  BY <1>3 DEF CancelPreparation, ServerInv, FrozenServersStaySolo, HeldServersAreSolo, Solo
<1>4. ASSUME NEW u \in Users, WorkerClaim(u) PROVE ServerInv'
  <2>1. worker'.stage # "commit" /\ worker'.held = worker.held /\ worker.stage # "commit"
    BY <1>4 DEF WorkerClaim, TypeOK, Worker
  <2>2. QED
    BY <1>4, <2>1, ServersUntouched DEF WorkerClaim, ServerInv, HeldServersAreSolo
<1>5. CASE WorkerLock
  <2>1. worker'.stage = "commit" /\ worker'.held = Owned(worker.user)
    BY <1>5 DEF WorkerLock, TypeOK, Worker
  <2>2. \A g \in Owned(worker.user) : g \in live /\ Solo(g)
    BY <1>5 DEF WorkerLock, Owned
  <2>3. QED
    BY <1>5, <2>1, <2>2 DEF WorkerLock, ServerInv, FrozenServersStaySolo,
       HeldServersAreSolo, Solo, guildVars
<1>6. CASE WorkerCommit
  <2>1. worker'.stage # "commit" /\ worker'.held = {}
    BY <1>6 DEF WorkerCommit, TypeOK, Worker
  <2>2. QED
    BY <1>6, <2>1, EraseServerInv DEF WorkerCommit
<1>7. CASE WorkerEraseInMemory
  <2>1. worker'.stage # "commit" /\ worker'.held = {}
    BY <1>7 DEF WorkerEraseInMemory, TypeOK, Worker, ServerInv, HeldServersAreSolo
  <2>2. QED
    BY <1>7, <2>1, EraseServerInv DEF WorkerEraseInMemory
<1>8. CASE WorkerFinalize
  <2>1. worker'.stage # "commit" /\ worker'.held = {}
    BY <1>8 DEF WorkerFinalize, TypeOK, Worker, ServerInv, HeldServersAreSolo
  <2>2. QED
    BY <1>8, <2>1, ServersUntouched DEF WorkerFinalize
<1>9. CASE WorkerList
  BY <1>9, ServersUntouched DEF WorkerList, IdleWorker
<1>10. CASE WorkerConflict \/ WorkerPassEnds \/ WorkerFails \/ Restart
  <2>1. worker' = IdleWorker /\ UNCHANGED guildVars
    BY <1>10 DEF WorkerConflict, WorkerPassEnds, WorkerFails, Restart
  <2>2. QED
    BY <2>1, ServersUntouched DEF IdleWorker
<1>11. ASSUME NEW t \in transfers, TransferCommit(t) PROVE ServerInv'
  BY <1>11 DEF TransferCommit, ServerInv, FrozenServersStaySolo, HeldServersAreSolo, Solo
<1>12. QED
  BY <1>1, <1>2, <1>3, <1>4, <1>5, <1>6, <1>7, <1>8, <1>9, <1>10, <1>11, GuildStepServerInv
     DEF Next, vars, Login, DeletionRequest, GuildRequest, HandlerStep, DropRequest,
         DropTransfer, WorkerStep, Tick, ScheduleAuth, CancelAuth, ReadUsername, EnsureUser

LEMMA SpecServerInv == Spec => []ServerInv
BY InitServerInv, NextServerInv, TypeCorrect, PTL DEF Spec

\* From the freeze to the erasure a server has one member and no invite.
THEOREM FrozenServersStaySoloThm == Spec => []FrozenServersStaySolo
BY SpecServerInv, PTL DEF ServerInv

\* Erasure retires no server that other members use, although they were
\* counted in an earlier statement of the transaction.
THEOREM ErasureRetiresOnlySoloServersThm == Spec => ErasureRetiresOnlySoloServers
<1> DEFINE Step == Erasing => \A g \in live \ live' : Solo(g)
<1>1. TypeOK /\ ServerInv /\ [Next]_vars => Step
  <2> SUFFICES ASSUME TypeOK, ServerInv, [Next]_vars, Erasing
               PROVE  \A g \in live \ live' : Solo(g)
    OBVIOUS
  <2>1. worker' # worker /\ worker'.stage = "finalize"
    BY DEF Erasing
  <2>2. CASE WorkerCommit
    BY <2>2 DEF WorkerCommit, Erase, ServerInv, HeldServersAreSolo
  <2>3. CASE WorkerEraseInMemory
    BY <2>3 DEF WorkerEraseInMemory, Erase
  <2>4. CASE WorkerList \/ WorkerConflict \/ WorkerLock \/ WorkerFinalize \/ WorkerPassEnds
    BY <2>4 DEF WorkerList, WorkerConflict, WorkerLock, WorkerFinalize, WorkerPassEnds, guildVars
  <2>5. ASSUME NEW u \in Users, WorkerClaim(u) PROVE live' = live
    BY <2>5 DEF WorkerClaim, guildVars
  <2>6. QED
    BY <2>1, <2>2, <2>3, <2>4, <2>5 DEF Next, vars, Login, DeletionRequest, GuildRequest,
       HandlerStep, DropRequest, WorkerStep, Tick, WorkerFails, Restart, Prepare,
       ScheduleAuth, CancelPreparation, CancelAuth, ReadUsername, EnsureUser, GuildStep,
       TransferCommit, DropTransfer, guildVars
<1>2. TypeOK /\ ServerInv /\ [Next]_vars => [Step]_vars
  BY <1>1
<1>3. QED
  BY <1>2, TypeCorrect, SpecServerInv, PTL DEF Spec, ErasureRetiresOnlySoloServers

-----------------------------------------------------------------------------
OwnersAreMembers == \A g \in live : owner[g] \in members[g]

LEMMA GuildStepOwners ==
    ASSUME ~Postgres, TypeOK, OwnersAreMembers, NEW r \in requests, GuildStep(r)
    PROVE  OwnersAreMembers'
<1>0. live \subseteq Guilds
  BY DEF TypeOK
<1>1. ASSUME NEW g \in Guilds, CreateGuild(r, g) PROVE OwnersAreMembers'
  BY <1>0, <1>1 DEF OwnersAreMembers, CreateGuild, TypeOK
<1>2. ASSUME NEW g \in Guilds, AcceptInvite(r, g) PROVE OwnersAreMembers'
  BY <1>0, <1>2 DEF OwnersAreMembers, AcceptInvite, TypeOK
<1>3. ASSUME NEW g \in Guilds, NEW v \in Users, TransferOwnership(r, g, v) PROVE OwnersAreMembers'
  BY <1>0, <1>3 DEF OwnersAreMembers, TransferOwnership, TypeOK
<1>4. ASSUME NEW g \in Guilds, NEW v \in Users, RemoveMember(r, g, v) PROVE OwnersAreMembers'
  <2>1. /\ \A h \in Guilds \ {g} : members'[h] = members[h]
        /\ members'[g] = members[g] \ {v}
    BY <1>4 DEF RemoveMember, TypeOK
  <2>2. v # owner[g] /\ owner' = owner /\ live' = live
    BY <1>4 DEF RemoveMember
  <2>3. QED
    BY <1>0, <2>1, <2>2 DEF OwnersAreMembers
<1>5. QED
  BY <1>1, <1>2, <1>3, <1>4 DEF GuildStep, CreateInvite, DeleteGuild, Refused,
     TransferCheck, guildVars, OwnersAreMembers

\* With the in-memory repository, whose erasure is one write-locked step, every
\* live server has an owner who is a member and not erased.  (With PostgreSQL
\* it does not hold: the owned servers are read before the memberships go.)
THEOREM InMemoryServersHaveAnActiveOwner ==
    ASSUME ~Postgres
    PROVE  Spec => []ServersHaveAnActiveOwner
<1>1. Init => OwnersAreMembers
  BY DEF Init, OwnersAreMembers
<1>2. TypeOK /\ ServerInv /\ OwnersAreMembers /\ [Next]_vars => OwnersAreMembers'
  <2> SUFFICES ASSUME TypeOK, ServerInv, OwnersAreMembers, [Next]_vars
               PROVE  OwnersAreMembers'
    OBVIOUS
  <2> USE DEF authVars, guildVars, userVars
  <2>1. CASE UNCHANGED <<live, owner, members>>
    BY <2>1 DEF OwnersAreMembers
  <2>2. CASE WorkerEraseInMemory
    BY <2>2 DEF WorkerEraseInMemory, Erase, Owned, OwnersAreMembers, TypeOK
  <2>3. ~WorkerCommit
    BY DEF WorkerCommit, ServerInv, HeldServersAreSolo
  <2>4. transfers = {}
    BY DEF TypeOK
  <2>5. QED
    BY <2>1, <2>2, <2>3, <2>4, GuildStepOwners DEF Next, vars, Login, DeletionRequest,
       GuildRequest, HandlerStep, DropRequest, WorkerStep, Tick, WorkerFails, Restart,
       Prepare, ScheduleAuth, CancelPreparation, CancelAuth, ReadUsername, EnsureUser,
       WorkerList, WorkerClaim, WorkerConflict, WorkerLock, WorkerFinalize, WorkerPassEnds
<1>3. TypeOK /\ ErasureInv /\ OwnersAreMembers => ServersHaveAnActiveOwner
  BY DEF ErasureInv, ErasedHaveLeft, OwnersAreMembers, ServersHaveAnActiveOwner, TypeOK
<1>4. QED
  BY <1>1, <1>2, <1>3, TypeCorrect, SpecErasureInv, SpecServerInv, PTL DEF Spec

-----------------------------------------------------------------------------
(***************************************************************************)
(* Thawing.  A frozen server of an account that is not scheduled is always *)
(* the work of a handler still to come: the schedule that froze it, its    *)
(* rollback, or the second call of a cancel.                               *)
(***************************************************************************)
Settled(u) == u \notin tombstoned \cup anonymized /\ ~Scheduled(u) /\ ~Unsettled(u)

LEMMA ThawStep ==
    ASSUME TypeOK, FrozenServersStaySolo, ActiveAccountsServersThaw, [Next]_vars,
           faults' = 0,
           NEW u \in Users, Settled(u)', NEW g, g \in Owned(u)', g \in frozen'
    PROVE  FALSE
<1> USE DEF authVars, userVars
<1>0. faults = 0
  <2>1. ASSUME NEW r \in requests, HandlerStep(r) PROVE faults' = faults
    BY <2>1 DEF HandlerStep, Prepare, ScheduleAuth, CancelPreparation, CancelAuth,
       ReadUsername, EnsureUser, GuildStep
  <2>2. ASSUME WorkerStep PROVE faults' = faults
    BY <2>2 DEF WorkerStep, WorkerList, WorkerClaim, WorkerConflict, WorkerLock,
       WorkerCommit, WorkerEraseInMemory, WorkerFinalize, WorkerPassEnds
  <2>3. faults \in Nat
    BY DEF TypeOK
  <2>4. faults' \in {faults, faults + 1}
    BY <2>1, <2>2 DEF Next, vars, Login, DeletionRequest, GuildRequest, DropRequest, Tick,
       TransferCommit, DropTransfer, WorkerFails, Restart
  <2>5. QED
    BY <2>3, <2>4
<1>1. ASSUME Settled(u), g \in Owned(u) PROVE g \notin frozen
  BY <1>0, <1>1 DEF ActiveAccountsServersThaw, Settled
<1>2. CASE UNCHANGED <<dueAt, anonymized, guildVars, tombstoned>> /\ ~Unsettled(u)
  BY <1>1, <1>2 DEF Settled, Scheduled, Owned, guildVars
<1>3. ASSUME NEW v \in Users, Login(v) PROVE FALSE
  BY <1>2, <1>3 DEF Login, Arrive, Settled, Unsettled
<1>4. ASSUME NEW v \in Users, GuildRequest(v) PROVE FALSE
  BY <1>2, <1>4 DEF GuildRequest, Arrive, Settled, Unsettled
<1>5. ASSUME NEW v \in Users, NEW kind \in {"prepare", "cancel"}, DeletionRequest(v, kind)
      PROVE  FALSE
  BY <1>2, <1>5 DEF DeletionRequest, Arrive, Settled, Unsettled
<1>6. ASSUME NEW r \in requests, HandlerStep(r) PROVE FALSE
  <2>0. r \in Request
    BY DEF TypeOK
  <2>1. CASE Prepare(r)
    <3>1. CASE Advance(r, "schedule")
      <4>1. u # r.user
        <5>1. [kind |-> "schedule", user |-> r.user] \in requests'
          BY <3>1 DEF Advance
        <5>2. QED
          BY <5>1 DEF Settled, Unsettled
      <4>2. Settled(u) /\ g \in Owned(u)
        BY <2>1, <3>1 DEF Prepare, Advance, Settled, Unsettled, Scheduled, Owned
      <4>3. g \notin Owned(r.user)
        BY <4>1, <4>2 DEF Owned
      <4>4. QED
        BY <1>1, <2>1, <4>2, <4>3 DEF Prepare
    <3>2. CASE Finish(r) /\ UNCHANGED <<frozen, invited>>
      BY <1>2, <2>1, <3>2 DEF Prepare, Finish, Settled, Unsettled, guildVars
    <3>3. QED
      BY <2>1, <3>1, <3>2 DEF Prepare
  <2>2. CASE ScheduleAuth(r)
    <3>1. CASE r.user \notin anonymized
      <4>1. dueAt'[r.user] # 0 /\ \A v \in Users \ {r.user} : dueAt'[v] = dueAt[v]
        BY <2>0, <2>2, <3>1 DEF ScheduleAuth, Scheduled, TypeOK, Request
      <4>2. u # r.user
        BY <4>1 DEF Settled, Scheduled
      <4>3. Settled(u) /\ g \in Owned(u)
        BY <2>2, <3>1, <4>1, <4>2 DEF ScheduleAuth, Finish, Settled, Scheduled, Unsettled,
           Owned, guildVars
      <4>4. QED
        BY <1>1, <2>2, <4>3 DEF ScheduleAuth, guildVars
    <3>2. CASE r.user \in anonymized
      <4>1. u # r.user
        BY <2>2, <3>2 DEF ScheduleAuth, Settled
      <4>2. QED
        BY <1>2, <2>2, <3>2, <4>1 DEF ScheduleAuth, Advance, Settled, Unsettled
    <3>3. QED
      BY <3>1, <3>2
  <2>3. CASE CancelPreparation(r)
    <3>1. CASE u = r.user
      BY <2>3, <3>1 DEF CancelPreparation, Owned
    <3>2. CASE u # r.user
      <4>1. Settled(u) /\ g \in Owned(u)
        BY <2>3, <3>2 DEF CancelPreparation, Finish, Settled, Scheduled, Unsettled, Owned
      <4>2. QED
        BY <1>1, <2>3, <4>1 DEF CancelPreparation
    <3>3. QED
      BY <3>1, <3>2
  <2>4. CASE CancelAuth(r)
    <3>1. CASE Finish(r) /\ UNCHANGED dueAt
      BY <1>2, <2>4, <3>1 DEF CancelAuth, Finish, Settled, Unsettled
    <3>2. CASE Advance(r, "thaw") /\ dueAt' = [dueAt EXCEPT ![r.user] = 0]
      <4>1. u # r.user
        <5>1. [kind |-> "thaw", user |-> r.user] \in requests'
          BY <3>2 DEF Advance
        <5>2. QED
          BY <5>1 DEF Settled, Unsettled
      <4>2. dueAt'[u] = dueAt[u]
        BY <3>2, <4>1 DEF TypeOK
      <4>3. Settled(u) /\ g \in Owned(u)
        BY <2>4, <3>2, <4>2 DEF CancelAuth, Advance, Settled, Scheduled, Unsettled, Owned,
           guildVars
      <4>4. QED
        BY <1>1, <2>4, <4>3 DEF CancelAuth, guildVars
    <3>3. QED
      BY <2>4, <3>1, <3>2 DEF CancelAuth
  <2>5. CASE ReadUsername(r)
    BY <1>2, <2>5 DEF ReadUsername, Advance, Finish, Settled, Unsettled
  <2>6. CASE EnsureUser(r)
    BY <1>2, <2>6 DEF EnsureUser, Finish, Settled, Unsettled
  <2>7. CASE GuildStep(r)
    <3>1. Settled(u)
      BY <2>7 DEF GuildStep, Finish, Settled, Scheduled, Unsettled
    <3>2. /\ frozen' \subseteq frozen
          /\ g \notin Owned(u) => owner'[g] # owner[g] \/ g \notin live
      BY <2>7 DEF GuildStep, CreateGuild, CreateInvite, AcceptInvite, TransferOwnership,
         TransferCheck, DeleteGuild, RemoveMember, Refused, Owned, guildVars
    <3>3. g \in frozen /\ g \in live
      BY <3>2 DEF FrozenServersStaySolo
    <3>4. g \in Guilds /\ owner'[g] # owner[g]
      BY <1>1, <3>1, <3>2, <3>3 DEF TypeOK
    <3>5. ASSUME NEW h \in Guilds, CreateGuild(r, h) PROVE owner'[g] = owner[g]
      BY <3>3, <3>4, <3>5 DEF CreateGuild, TypeOK
    <3>6. ASSUME NEW h \in Guilds, NEW v \in Users, TransferOwnership(r, h, v)
          PROVE  owner'[g] = owner[g]
      BY <3>4, <3>6 DEF TransferOwnership, TypeOK
    <3>7. QED
      BY <2>7, <3>4, <3>5, <3>6 DEF GuildStep, CreateInvite, AcceptInvite, DeleteGuild,
         TransferCheck, RemoveMember, Refused, guildVars
  <2>8. QED
    BY <1>6, <2>1, <2>2, <2>3, <2>4, <2>5, <2>6, <2>7 DEF HandlerStep
<1>7. ASSUME NEW v, NEW doomed, Erase(v, doomed), UNCHANGED <<dueAt, anonymized, requests>>
      PROVE  FALSE
  <2>1. Settled(u) /\ g \in Owned(u)
    BY <1>7 DEF Erase, Settled, Scheduled, Unsettled, Owned
  <2>2. QED
    BY <1>1, <1>7, <2>1 DEF Erase
<1>8. CASE WorkerFinalize
  <2>1. \A v \in Users : dueAt'[v] # dueAt[v] => v \in anonymized'
    BY <1>8 DEF WorkerFinalize, TypeOK
  <2>2. Settled(u)
    BY <1>8, <2>1 DEF WorkerFinalize, Settled, Scheduled, Unsettled
  <2>3. QED
    BY <1>1, <1>8, <2>2 DEF WorkerFinalize, Owned, guildVars
<1>9. CASE /\ UNCHANGED <<dueAt, anonymized, guildVars, tombstoned, requests>>
  BY <1>2, <1>9 DEF Settled, Unsettled
<1>10. CASE WorkerStep
  BY <1>7, <1>8, <1>9, <1>10 DEF WorkerStep, WorkerList, WorkerClaim, WorkerConflict, WorkerLock,
     WorkerCommit, WorkerEraseInMemory, WorkerPassEnds
<1>11. /\ ~Restart /\ ~WorkerFails
       /\ \A r \in requests : ~DropRequest(r)
       /\ \A t \in transfers : ~DropTransfer(t)
  BY <1>0 DEF Restart, WorkerFails, DropRequest, DropTransfer
<1>12. CASE Tick
  BY <1>9, <1>12 DEF Tick
<1>13. CASE UNCHANGED vars
  BY <1>9, <1>13 DEF vars
<1>14. ASSUME NEW t \in transfers, TransferCommit(t) PROVE FALSE
  <2>1. Settled(u) /\ g \in live /\ g \in frozen /\ g # t.guild
    BY <1>14 DEF TransferCommit, Settled, Scheduled, Unsettled, Owned
  <2>2. owner'[g] = owner[g]
    BY <1>14, <2>1 DEF TransferCommit, TypeOK
  <2>3. QED
    BY <1>1, <2>1, <2>2 DEF Owned
<1>15. QED
  BY <1>3, <1>4, <1>5, <1>6, <1>10, <1>11, <1>12, <1>13, <1>14 DEF Next

\* However schedules, cancels, transfers and erasures interleave, without a
\* fault no server stays frozen whose owner's deletion was not scheduled or was
\* cancelled, once the handlers of that account are done.
THEOREM ActiveAccountsServersThawThm == Spec => []ActiveAccountsServersThaw
<1>1. Init => ActiveAccountsServersThaw
  BY DEF Init, ActiveAccountsServersThaw
<1>2. TypeOK /\ FrozenServersStaySolo /\ ActiveAccountsServersThaw /\ [Next]_vars
        => ActiveAccountsServersThaw'
  BY ThawStep DEF ActiveAccountsServersThaw, Settled
<1>3. QED
  BY <1>1, <1>2, TypeCorrect, FrozenServersStaySoloThm, PTL DEF Spec

=============================================================================
