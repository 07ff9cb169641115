---------------------------- MODULE ServerRoles ----------------------------
(***************************************************************************)
(* Who may do what in one server: roles and their positions, the roles of  *)
(* the members, timeouts, kicks and bans, and the overwrites of a channel, *)
(* as repository.rs changes them under the lock of the server's row.       *)
(*                                                                         *)
(* A member that is not the owner acts with the authority of its roles on  *)
(* what ranks below its highest one.  A role made by such a member goes    *)
(* right below that role, which may push other roles up.                   *)
(***************************************************************************)
EXTENDS Naturals, FiniteSets

CONSTANTS
    Users,
    Founder,        \* the user that creates the server
    Roles,          \* ids of roles that may be created
    Everyone,       \* the @everyone role; it has position 0 and is implicit
    Grants,         \* sets of permissions that roles and overwrites are asked to have
    MaxPosition,    \* i32::MAX
    MaxOverwrites   \* bound: overwrites of the channel at once

(***************************************************************************)
(* moderate stands for the bits of timeouts, kicks and bans; view for the  *)
(* two bits a timeout leaves; converse for what it takes; e2ee for the two *)
(* bits that ADMINISTRATOR does not include.                               *)
(***************************************************************************)
Bits == {"administrator", "manage_roles", "moderate", "manage_channels", "view", "converse",
         "e2ee"}
AllGuild == Bits \ {"e2ee"}
MemberDefault == {"view", "converse"}
TimedOutBits == {"view"}

VARIABLES
    owner,
    members,
    roles,        \* the roles there are: position and permissions
    assigned,     \* member_roles
    timedOut,     \* members whose timeout_until has not passed
    banned,       \* users with a ban that has not expired
    overwrites,   \* of one channel: target, allow, deny
    actor         \* history: who made the last change; Everyone: time did

vars == <<owner, members, roles, assigned, timedOut, banned, overwrites, actor>>

Role == [position : 0 .. MaxPosition, permissions : SUBSET Bits]
Overwrite == [target : Users \cup Roles \cup {Everyone}, allow : SUBSET Bits, deny : SUBSET Bits]
Given == DOMAIN roles \ {Everyone}

\* what the theorems ask of the constants
Parameters ==
    /\ MaxPosition \in Nat
    /\ Founder \in Users
    /\ Everyone \notin Roles
    /\ Grants \subseteq SUBSET Bits

TypeOK ==
    /\ owner \in members /\ members \subseteq Users
    /\ DOMAIN roles \subseteq Roles \cup {Everyone} /\ Everyone \in DOMAIN roles
    /\ \A r \in DOMAIN roles : roles[r] \in Role
    /\ assigned \subseteq members \X Given
    /\ timedOut \subseteq members
    /\ banned \subseteq Users \ members
    /\ overwrites \subseteq Overwrite
    /\ \A o \in overwrites : o.target \in members \cup DOMAIN roles
    /\ actor \in Users \cup {Everyone}

Init ==
    /\ owner = Founder /\ members = {Founder}
    /\ roles = [r \in {Everyone} |-> [position |-> 0, permissions |-> MemberDefault]]
    /\ assigned = {} /\ timedOut = {} /\ banned = {} /\ overwrites = {}
    /\ actor = Founder

-----------------------------------------------------------------------------
(* The authority of a member *)

Has(u) == {r \in Given : <<u, r>> \in assigned}
Raw(u) == roles[Everyone].permissions \cup UNION {roles[r].permissions : r \in Has(u)}

Top(S) == CHOOSE n \in S : \A m \in S : m <= n
Highest(u) == Top({0} \cup {roles[r].position : r \in Has(u)})

\* actor_context_from_row, of a member that is not the owner
Permissions(u) ==
    LET full == IF "administrator" \in Raw(u) THEN AllGuild ELSE Raw(u)
    IN  IF u \in timedOut THEN full \cap TimedOutBits ELSE full

-----------------------------------------------------------------------------
(* What a change needs *)

\* mutant: who manages roles grants anything
MayGrant_Anything(a, permissions) == a = owner \/ "manage_roles" \in Permissions(a)

\* require_manageable_permissions
MayGrant(a, permissions) ==
    a = owner \/ ("manage_roles" \in Permissions(a) /\ permissions \subseteq Permissions(a))

\* mutant: a role of the same rank may be managed
MayManage_OwnRank(a, r) ==
    a = owner \/ ("manage_roles" \in Permissions(a) /\ roles[r].position <= Highest(a))
\* require_manageable_role
MayManage(a, r) ==
    a = owner \/ ("manage_roles" \in Permissions(a) /\ roles[r].position < Highest(a))

MayModerate(a) == a = owner \/ "moderate" \in Permissions(a)

\* require_moderatable_target
Moderatable(a, u) == u # a /\ u # owner /\ (a = owner \/ Highest(u) < Highest(a))

Acts(a) == a \in members /\ actor' = a

-----------------------------------------------------------------------------
(* Roles *)

\* mutant: only the roles above the new one make room
Shifted_Above(p) ==
    [r \in DOMAIN roles |-> IF roles[r].position > p
                            THEN [roles[r] EXCEPT !.position = @ + 1] ELSE roles[r]]

\* every role from position p on moves up by one
Shifted(p) ==
    [r \in DOMAIN roles |-> IF roles[r].position >= p
                            THEN [roles[r] EXCEPT !.position = @ + 1] ELSE roles[r]]

Positions == {roles[r].position : r \in DOMAIN roles}

\* create_role of the owner: on top; a position past i32::MAX is an error
CreateOnTop(a, r, permissions) ==
    /\ Acts(a) /\ a = owner /\ r \in Roles \ DOMAIN roles
    /\ Top(Positions) < MaxPosition
    /\ roles' = [x \in DOMAIN roles \cup {r} |->
                   IF x = r THEN [position |-> Top(Positions) + 1, permissions |-> permissions]
                   ELSE roles[x]]
    /\ UNCHANGED <<owner, members, assigned, timedOut, banned, overwrites>>

\* create_role of a delegate: right below its own highest role
CreateBelow(a, r, permissions) ==
    LET p == IF Highest(a) > 1 THEN Highest(a) - 1 ELSE 1
        collides == p \in Positions
    IN  /\ Acts(a) /\ a # owner /\ r \in Roles \ DOMAIN roles
        /\ MayGrant(a, permissions)
        /\ Highest(a) > 0
        /\ collides => Top(Positions) < MaxPosition
        /\ roles' = [x \in DOMAIN roles \cup {r} |->
                       IF x = r THEN [position |-> p, permissions |-> permissions]
                       ELSE IF collides THEN Shifted(p)[x] ELSE roles[x]]
        /\ UNCHANGED <<owner, members, assigned, timedOut, banned, overwrites>>

\* update_role, of @everyone too
UpdateRole(a, r, permissions) ==
    /\ Acts(a) /\ r \in DOMAIN roles
    /\ MayGrant(a, permissions) /\ MayManage(a, r)
    /\ roles' = [roles EXCEPT ![r].permissions = permissions]
    /\ UNCHANGED <<owner, members, assigned, timedOut, banned, overwrites>>

\* mutant: the overwrites stay
Without_Overwrites(target) == overwrites

\* the triggers of migration 0006 on roles and guild_members
Without(target) == {o \in overwrites : o.target # target}

DeleteRole(a, r) ==
    /\ Acts(a) /\ r \in Given /\ MayManage(a, r)
    /\ roles' = [x \in DOMAIN roles \ {r} |-> roles[x]]
    /\ assigned' = {pair \in assigned : pair[2] # r}
    /\ overwrites' = Without(r)
    /\ UNCHANGED <<owner, members, timedOut, banned>>

\* set_member_role
SetMemberRole(a, u, r) ==
    /\ Acts(a) /\ u \in members /\ r \in Given
    /\ MayManage(a, r)
    /\ a = owner \/ (u # a /\ u # owner /\ Highest(u) < Highest(a))
    /\ assigned' = IF <<u, r>> \in assigned THEN assigned \ {<<u, r>>}
                   ELSE assigned \cup {<<u, r>>}
    /\ UNCHANGED <<owner, members, roles, timedOut, banned, overwrites>>

-----------------------------------------------------------------------------
(* Members *)

\* accept_invite of a user that no ban keeps out
Join(u) ==
    /\ u \in Users \ (members \cup banned)
    /\ members' = members \cup {u} /\ actor' = u
    /\ UNCHANGED <<owner, roles, assigned, timedOut, banned, overwrites>>

\* timeout_member, which also ends a timeout
TimeoutMember(a, u) ==
    /\ Acts(a) /\ u \in members /\ MayModerate(a) /\ Moderatable(a, u)
    /\ timedOut' = IF u \in timedOut THEN timedOut \ {u} ELSE timedOut \cup {u}
    /\ UNCHANGED <<owner, members, roles, assigned, banned, overwrites>>

TimeoutEnds(u) ==
    /\ u \in timedOut /\ timedOut' = timedOut \ {u} /\ actor' = Everyone
    /\ UNCHANGED <<owner, members, roles, assigned, banned, overwrites>>

Leave(u) ==
    /\ members' = members \ {u}
    /\ assigned' = {pair \in assigned : pair[1] # u}
    /\ timedOut' = timedOut \ {u}
    /\ overwrites' = Without(u)

KickMember(a, u) ==
    /\ Acts(a) /\ u \in members /\ MayModerate(a) /\ Moderatable(a, u)
    /\ Leave(u)
    /\ UNCHANGED <<owner, roles, banned>>

\* ban_member, of a user that is no member too
BanMember(a, u) ==
    /\ Acts(a) /\ MayModerate(a) /\ u # a
    /\ u \in members => Moderatable(a, u)
    /\ banned' = banned \cup {u}
    /\ Leave(u)
    /\ UNCHANGED <<owner, roles>>

UnbanMember(a, u) ==
    /\ Acts(a) /\ MayModerate(a) /\ u \in banned
    /\ banned' = banned \ {u}
    /\ UNCHANGED <<owner, members, roles, assigned, timedOut, overwrites>>

BanEnds(u) ==
    /\ u \in banned /\ banned' = banned \ {u} /\ actor' = Everyone
    /\ UNCHANGED <<owner, members, roles, assigned, timedOut, overwrites>>

\* transfer_guild_ownership
Transfer(a, u) ==
    /\ Acts(a) /\ a = owner /\ u \in members \ {a}
    /\ owner' = u
    /\ UNCHANGED <<members, roles, assigned, timedOut, banned, overwrites>>

-----------------------------------------------------------------------------
(* Overwrites *)

ManagesChannels(a) == a = owner \/ "manage_channels" \in Permissions(a)

\* set_channel_overwrite: what is denied is not compared with what the actor has
SetOverwrite(a, target, allow, deny) ==
    /\ Acts(a) /\ ManagesChannels(a)
    /\ target \in members \cup DOMAIN roles
    /\ Cardinality(Without(target)) < MaxOverwrites
    /\ allow \cap deny = {}
    /\ a = owner \/ allow \subseteq Permissions(a)
    /\ overwrites' = Without(target) \cup {[target |-> target, allow |-> allow, deny |-> deny]}
    /\ UNCHANGED <<owner, members, roles, assigned, timedOut, banned>>

DeleteOverwrite(a, target) ==
    /\ Acts(a) /\ ManagesChannels(a)
    /\ \E o \in overwrites : o.target = target
    /\ overwrites' = Without(target)
    /\ UNCHANGED <<owner, members, roles, assigned, timedOut, banned>>

Next ==
    \/ \E a, u \in Users :
          \/ TimeoutMember(a, u) \/ KickMember(a, u) \/ BanMember(a, u) \/ UnbanMember(a, u)
          \/ Transfer(a, u)
          \/ \E r \in Roles : SetMemberRole(a, u, r)
    \/ \E u \in Users : Join(u) \/ TimeoutEnds(u) \/ BanEnds(u)
    \/ \E a \in Users, p \in Grants :
          \/ \E r \in Roles : CreateOnTop(a, r, p) \/ CreateBelow(a, r, p)
          \/ \E r \in Roles \cup {Everyone} : UpdateRole(a, r, p)
    \/ \E a \in Users, r \in Roles : DeleteRole(a, r)
    \/ \E a \in Users, t \in Users \cup Roles \cup {Everyone} :
          \/ DeleteOverwrite(a, t)
          \/ \E p, q \in Grants : SetOverwrite(a, t, p, q)

Spec == Init /\ [][Next]_vars

-----------------------------------------------------------------------------
(* What the hierarchy promises *)

\* no two roles share a position, wherever delegates insert theirs (create_role)
PositionsAreDistinct ==
    \A r, s \in DOMAIN roles : roles[r].position = roles[s].position => r = s

\* u leaves, is silenced, or somebody not above u gets above u
Demoted(u) ==
    \/ u \notin members'
    \/ u \in timedOut' \ timedOut
    \/ /\ <<roles, assigned>>' # <<roles, assigned>>
       /\ \E v \in members \cap members' : Highest(v) <= Highest(u) /\ Highest(v)' > Highest(u)'

\* only the owner or somebody of a higher rank demotes a member: "a non-owner cannot
\* change [...] a member whose highest role is equal to or above their own"
\* (docs/roles-permissions.md; create_role, set_member_role, require_moderatable_target)
NoOverthrow ==
    [][actor' = owner \/ \A u \in members : Demoted(u) => Highest(actor') > Highest(u)]_vars

\* what the roles of a member could ever let it do
Authority(u) == IF "administrator" \in Raw(u) THEN Raw(u) \cup AllGuild ELSE Raw(u)

\* no member but the owner widens its own authority, in one step or in a sequence of
\* its own (update_role of @everyone or of a lower role it holds, create_role)
NobodyRaisesThemselves ==
    [][\A u \in (members \cap members') \ {owner} :
         actor' = u => Authority(u)' \subseteq Authority(u)]_vars

=============================================================================
