-------------------------- MODULE ServerRolesProofs --------------------------
(***************************************************************************)
(* The hierarchy of a server holds for any members, roles and permissions. *)
(*                                                                         *)
(* Positions stay distinct because @everyone keeps 0 and a delegate never  *)
(* inserts a role below 1.  Whether one member ranks above another only    *)
(* changes where somebody above both, or the owner, acts: to see that, the *)
(* CHOOSE that Highest is made of is replaced by what it means (Ranked).   *)
(***************************************************************************)
EXTENDS ServerRoles, WellFoundedInduction, TLAPS

Rooted ==
    /\ roles[Everyone].position = 0
    /\ \A r \in Given : roles[r].position >= 1

Inv == TypeOK /\ Rooted /\ PositionsAreDistinct

\* what the highest position of a member is
Ranked(u) ==
    /\ Highest(u) \in 0 .. MaxPosition
    /\ \A r \in Has(u) : roles[r].position <= Highest(u)
    /\ Highest(u) = 0 \/ \E r \in Has(u) : roles[r].position = Highest(u)
AllRanked == \A u \in Users : Ranked(u)

-----------------------------------------------------------------------------
(* The greatest element of a bounded set of numbers *)

LEMMA Least ==
    ASSUME NEW S, S \subseteq Nat, S # {}
    PROVE  \E n \in S : \A m \in S : n <= m
<1> DEFINE R == OpToRel(<, Nat)
<1>1. IsWellFoundedOn(R, Nat)
  BY NatLessThanWellFounded
<1>2. \A m, n \in Nat : m < n => <<m, n>> \in R
  BY DEF OpToRel
<1> HIDE DEF R
<1>3. PICK n \in S : \A m \in S : ~ (<<m, n>> \in R)
  BY <1>1, WFMin
<1>4. \A m \in S : ~ (m < n)
  BY <1>2, <1>3
<1> QED
  BY <1>4

LEMMA TopIs ==
    ASSUME NEW b \in Nat, NEW S, S \subseteq 0 .. b, S # {}
    PROVE  Top(S) \in S /\ \A m \in S : m <= Top(S)
<1> DEFINE T == {n \in 0 .. b : b - n \in S}
<1>1. T \subseteq Nat /\ \A n \in S : b - n \in T /\ b - (b - n) = n
  OBVIOUS
<1>2. T # {}
  BY <1>1
<1>3. PICK t \in T : \A n \in T : t <= n
  BY <1>1, <1>2, Least
<1>4. t \in 0 .. b /\ b - t \in S
  BY <1>3
<1>5. \A m \in S : m <= b - t
  <2> SUFFICES ASSUME NEW m \in S PROVE m <= b - t
    OBVIOUS
  <2>1. t <= b - m
    BY <1>1, <1>3
  <2> QED
    BY <1>4, <2>1
<1>6. \E n \in S : \A m \in S : m <= n
  BY <1>4, <1>5
<1> QED
  BY <1>6 DEF Top

LEMMA TopPositions ==
    ASSUME Parameters, TypeOK
    PROVE  Top(Positions) \in 0 .. MaxPosition /\ \A r \in DOMAIN roles : roles[r].position <= Top(Positions)
<1>1. Positions \subseteq 0 .. MaxPosition /\ roles[Everyone].position \in Positions
  BY DEF Positions, TypeOK, Role
<1>2. Top(Positions) \in Positions /\ \A n \in Positions : n <= Top(Positions)
  BY <1>1, TopIs DEF Parameters
<1> QED
  BY <1>1, <1>2 DEF Positions

LEMMA RanksAre == Parameters /\ TypeOK => AllRanked
<1> SUFFICES ASSUME Parameters, TypeOK, NEW u \in Users PROVE Ranked(u)
  BY DEF AllRanked
<1> DEFINE S == {0} \cup {roles[r].position : r \in Has(u)}
<1>1. \A r \in Has(u) : roles[r].position \in 0 .. MaxPosition
  BY DEF Has, Given, TypeOK, Role
<1>2. S \subseteq 0 .. MaxPosition /\ S # {}
  BY <1>1 DEF Parameters
<1>3. Top(S) \in S /\ \A n \in S : n <= Top(S)
  <2> HIDE DEF S
  <2> QED
    BY <1>2, TopIs DEF Parameters
<1>4. Highest(u) = Top(S)
  BY DEF Highest
<1> HIDE DEF Ranked
<1>5. /\ Top(S) \in 0 .. MaxPosition
      /\ \A r \in Has(u) : roles[r].position <= Top(S)
      /\ Top(S) = 0 \/ \E r \in Has(u) : roles[r].position = Top(S)
  BY <1>2, <1>3
<1> QED
  BY <1>4, <1>5 DEF Ranked

LEMMA RanksAreNext ==
    ASSUME Parameters
    PROVE  TypeOK' => AllRanked'
<1>1. TypeOK => AllRanked
  BY RanksAre
<1> QED
  BY <1>1, PTL

-----------------------------------------------------------------------------
(* The roles and their positions *)

RoleChange(a) ==
    \/ \E r \in Roles, p \in Grants : CreateOnTop(a, r, p) \/ CreateBelow(a, r, p)
    \/ \E r \in Roles \cup {Everyone}, p \in Grants : UpdateRole(a, r, p)
    \/ \E r \in Roles : DeleteRole(a, r)

\* what an action may do when it leaves the roles alone
OtherChange ==
    \/ \E a, u \in Users :
          \/ TimeoutMember(a, u) \/ KickMember(a, u) \/ BanMember(a, u) \/ UnbanMember(a, u)
          \/ Transfer(a, u)
          \/ \E r \in Roles : SetMemberRole(a, u, r)
    \/ \E u \in Users : Join(u) \/ TimeoutEnds(u) \/ BanEnds(u)
    \/ \E a \in Users, t \in Users \cup Roles \cup {Everyone} :
          \/ DeleteOverwrite(a, t)
          \/ \E p, q \in Grants : SetOverwrite(a, t, p, q)

LEMMA NextIs == Next => OtherChange \/ \E a \in Users : RoleChange(a)
BY DEF Next, OtherChange, RoleChange

LEMMA OthersKeepRoles == OtherChange => UNCHANGED roles
BY DEF OtherChange, TimeoutMember, KickMember, BanMember, UnbanMember, Transfer, SetMemberRole,
       Join, TimeoutEnds, BanEnds, DeleteOverwrite, SetOverwrite, Leave

Roled ==
    /\ DOMAIN roles \subseteq Roles \cup {Everyone} /\ Everyone \in DOMAIN roles
    /\ \A r \in DOMAIN roles : roles[r] \in Role
RoleInv == Roled /\ Rooted /\ PositionsAreDistinct

LEMMA InvHasRoles == Inv => RoleInv
BY DEF Inv, RoleInv, TypeOK, Roled

\* a new role in a place no other has
LEMMA NewRole ==
    ASSUME Parameters, NEW r \in Roles, NEW p \in SUBSET Bits, NEW n \in 1 .. MaxPosition,
           NEW others, RoleInv, r \notin DOMAIN roles,
           roles' = [x \in DOMAIN roles \cup {r} |->
                       IF x = r THEN [position |-> n, permissions |-> p] ELSE others[x]],
           \A x \in DOMAIN roles : others[x] \in Role /\ others[x].position # n,
           others[Everyone].position = 0,
           \A x \in Given : others[x].position >= 1,
           \A x, y \in DOMAIN roles : others[x].position = others[y].position => x = y
    PROVE  RoleInv'
<1> DEFINE new == [position |-> n, permissions |-> p]
<1>1. new \in Role /\ new.position = n
  BY DEF Role, Parameters
<1> HIDE DEF new
<1>2. /\ DOMAIN roles' = DOMAIN roles \cup {r} /\ roles'[r] = new
      /\ \A x \in DOMAIN roles : roles'[x] = others[x]
  BY DEF new
<1>3. Everyone \in DOMAIN roles /\ Everyone # r /\ n >= 1
  BY DEF RoleInv, Roled, Parameters
<1>4. Roled'
  BY <1>1, <1>2 DEF RoleInv, Roled
<1>5. Rooted'
  BY <1>1, <1>2, <1>3 DEF Rooted, Given
<1>6. PositionsAreDistinct'
  BY <1>1, <1>2 DEF PositionsAreDistinct
<1> QED
  BY <1>4, <1>5, <1>6 DEF RoleInv

\* the roles from p on move up
LEMMA ShiftedIs ==
    ASSUME Parameters, RoleInv, NEW p \in Nat, Top(Positions) < MaxPosition, NEW x \in DOMAIN roles,
           \A r \in DOMAIN roles : roles[r].position <= Top(Positions)
    PROVE  /\ roles[x].position \in 0 .. MaxPosition
           /\ Shifted(p)[x] \in Role
           /\ Shifted(p)[x].position = IF roles[x].position >= p THEN roles[x].position + 1
                                       ELSE roles[x].position
<1>1. roles[x] \in Role /\ roles[x].position <= Top(Positions)
  BY DEF RoleInv, Roled
<1>2. roles[x].position \in 0 .. MaxPosition /\ roles[x].position < MaxPosition
  <2>1. \A n, t \in Int : n <= t /\ t < MaxPosition => n < MaxPosition
    BY DEF Parameters
  <2>2. roles[x].position \in 0 .. MaxPosition
    BY <1>1 DEF Role
  <2>3. Top(Positions) \in Int
    <3>1. Positions \subseteq 0 .. MaxPosition /\ Positions # {}
      BY DEF Positions, RoleInv, Roled, Role
    <3>2. Top(Positions) \in Positions
      BY <3>1, TopIs DEF Parameters
    <3>3. \A n \in 0 .. MaxPosition : n \in Int
      OBVIOUS
    <3> QED
      BY <3>1, <3>2, <3>3
  <2> QED
    BY <1>1, <2>1, <2>2, <2>3
<1> DEFINE up == [roles[x] EXCEPT !.position = @ + 1]
<1>3. up \in Role /\ up.position = roles[x].position + 1
  BY <1>1, <1>2 DEF Role, Parameters
<1>4. Shifted(p)[x] = IF roles[x].position >= p THEN up ELSE roles[x]
  BY DEF Shifted
<1> QED
  BY <1>1, <1>2, <1>3, <1>4

LEMMA CreateOnTopKeeps ==
    ASSUME Parameters, Inv, NEW a, NEW r \in Roles, NEW p \in Grants, CreateOnTop(a, r, p)
    PROVE  RoleInv'
<1>1. RoleInv /\ p \in SUBSET Bits
  BY InvHasRoles DEF Parameters
<1>2. Top(Positions) \in 0 .. MaxPosition /\ \A x \in DOMAIN roles : roles[x].position <= Top(Positions)
  BY TopPositions DEF Inv
<1>3. /\ r \notin DOMAIN roles /\ Top(Positions) < MaxPosition
      /\ roles' = [x \in DOMAIN roles \cup {r} |->
                     IF x = r THEN [position |-> Top(Positions) + 1, permissions |-> p]
                     ELSE roles[x]]
  BY DEF CreateOnTop
<1> DEFINE n == Top(Positions) + 1
<1>4. n \in 1 .. MaxPosition
  BY <1>2, <1>3 DEF Parameters
<1>5. \A x \in DOMAIN roles : roles[x] \in Role /\ roles[x].position # n
  <2> SUFFICES ASSUME NEW x \in DOMAIN roles PROVE roles[x] \in Role /\ roles[x].position # n
    OBVIOUS
  <2>1. roles[x] \in Role /\ roles[x].position \in 0 .. MaxPosition
    BY <1>1 DEF RoleInv, Roled, Role
  <2> QED
    BY <1>2, <2>1
<1>6. /\ roles[Everyone].position = 0
      /\ \A x \in Given : roles[x].position >= 1
      /\ \A x, y \in DOMAIN roles : roles[x].position = roles[y].position => x = y
  BY <1>1 DEF RoleInv, Rooted, PositionsAreDistinct
<1> HIDE DEF n
<1>7. roles' = [x \in DOMAIN roles \cup {r} |->
                  IF x = r THEN [position |-> n, permissions |-> p] ELSE roles[x]]
  BY <1>3 DEF n
<1> QED
  BY <1>1, <1>3, <1>4, <1>5, <1>6, <1>7, NewRole

LEMMA CreateBelowKeeps ==
    ASSUME Parameters, Inv, NEW a \in Users, NEW r \in Roles, NEW p \in Grants, CreateBelow(a, r, p)
    PROVE  RoleInv'
<1> DEFINE n == IF Highest(a) > 1 THEN Highest(a) - 1 ELSE 1
           collides == n \in Positions
           others == [x \in DOMAIN roles |-> IF collides THEN Shifted(n)[x] ELSE roles[x]]
<1>1. RoleInv /\ p \in SUBSET Bits
  BY InvHasRoles DEF Parameters
<1>2. Top(Positions) \in 0 .. MaxPosition /\ \A x \in DOMAIN roles : roles[x].position <= Top(Positions)
  BY TopPositions DEF Inv
<1>3. /\ r \notin DOMAIN roles /\ Highest(a) > 0
      /\ collides => Top(Positions) < MaxPosition
      /\ roles' = [x \in DOMAIN roles \cup {r} |->
                     IF x = r THEN [position |-> n, permissions |-> p]
                     ELSE IF collides THEN Shifted(n)[x] ELSE roles[x]]
  BY DEF CreateBelow
<1>4. Highest(a) \in 0 .. MaxPosition
  BY RanksAre DEF Inv, AllRanked, Ranked
<1>5. n \in 1 .. MaxPosition /\ n \in Nat
  BY <1>3, <1>4 DEF Parameters
<1> HIDE DEF n
<1>6. ASSUME NEW x \in DOMAIN roles
      PROVE  /\ roles[x] \in Role /\ roles[x].position \in 0 .. MaxPosition
             /\ others[x] \in Role
             /\ others[x].position = IF collides /\ roles[x].position >= n
                                     THEN roles[x].position + 1 ELSE roles[x].position
             /\ ~collides => roles[x].position # n
  <2>1. roles[x] \in Role /\ roles[x].position \in 0 .. MaxPosition
    BY <1>1 DEF RoleInv, Roled, Role
  <2>2. CASE collides
    BY <1>1, <1>2, <1>3, <1>5, <2>1, <2>2, ShiftedIs
  <2>3. CASE ~collides
    BY <2>1, <2>3 DEF Positions
  <2> QED
    BY <2>2, <2>3
<1>7. roles' = [x \in DOMAIN roles \cup {r} |->
                  IF x = r THEN [position |-> n, permissions |-> p] ELSE others[x]]
  BY <1>3
<1>8. Everyone \in DOMAIN roles /\ roles[Everyone].position = 0
      /\ (\A x \in Given : roles[x].position >= 1) /\ Given \subseteq DOMAIN roles
  BY <1>1 DEF RoleInv, Roled, Rooted, Given
<1> HIDE DEF others
<1>9. others[Everyone].position = 0
  BY <1>5, <1>6, <1>8
<1>10. \A x \in Given : others[x].position >= 1
  BY <1>6, <1>8
<1>11. \A x \in DOMAIN roles : others[x] \in Role /\ others[x].position # n
  <2> SUFFICES ASSUME NEW x \in DOMAIN roles PROVE others[x] \in Role /\ others[x].position # n
    OBVIOUS
  <2> HIDE DEF collides
  <2> QED
    BY <1>5, <1>6
<1>12. \A x, y \in DOMAIN roles : others[x].position = others[y].position => x = y
  <2> SUFFICES ASSUME NEW x \in DOMAIN roles, NEW y \in DOMAIN roles,
                      others[x].position = others[y].position
               PROVE  x = y
    OBVIOUS
  <2> HIDE DEF collides
  <2>1. roles[x].position = roles[y].position
    BY <1>5, <1>6
  <2> QED
    BY <1>1, <2>1 DEF RoleInv, PositionsAreDistinct
<1> QED
  BY <1>1, <1>3, <1>5, <1>7, <1>9, <1>10, <1>11, <1>12, NewRole

LEMMA UpdateRoleKeeps ==
    ASSUME Parameters, RoleInv, NEW a, NEW r \in Roles \cup {Everyone}, NEW p \in Grants,
           UpdateRole(a, r, p)
    PROVE  /\ RoleInv' /\ DOMAIN roles' = DOMAIN roles
           /\ roles'[r].permissions = p
           /\ \A x \in DOMAIN roles : /\ roles'[x].position = roles[x].position
                                      /\ x # r => roles'[x] = roles[x]
<1> DEFINE new == [roles[r] EXCEPT !.permissions = p]
<1>1. r \in DOMAIN roles /\ roles[r] \in Role /\ p \in SUBSET Bits
  BY DEF UpdateRole, RoleInv, Roled, Parameters
<1>2. new \in Role /\ new.position = roles[r].position /\ new.permissions = p
  BY <1>1 DEF Role
<1>3. roles' = [roles EXCEPT ![r] = new]
  BY DEF UpdateRole
<1> HIDE DEF new
<1>4. /\ DOMAIN roles' = DOMAIN roles /\ roles'[r] = new
      /\ \A x \in DOMAIN roles : x # r => roles'[x] = roles[x]
  BY <1>1, <1>3
<1>5. \A x \in DOMAIN roles : roles'[x].position = roles[x].position
  BY <1>2, <1>4
<1>6. Roled'
  BY <1>2, <1>4 DEF RoleInv, Roled
<1>7. Rooted'
  BY <1>4, <1>5 DEF RoleInv, Roled, Rooted, Given
<1>8. PositionsAreDistinct'
  BY <1>4, <1>5 DEF RoleInv, PositionsAreDistinct
<1> QED
  BY <1>2, <1>4, <1>5, <1>6, <1>7, <1>8 DEF RoleInv

LEMMA DeleteRoleKeeps ==
    ASSUME Parameters, RoleInv, NEW a, NEW r \in Roles, DeleteRole(a, r)
    PROVE  RoleInv' /\ DOMAIN roles' = DOMAIN roles \ {r} /\ \A x \in DOMAIN roles' : roles'[x] = roles[x]
<1>1. r # Everyone /\ roles' = [x \in DOMAIN roles \ {r} |-> roles[x]]
  BY DEF DeleteRole, Given
<1>2. DOMAIN roles' = DOMAIN roles \ {r} /\ \A x \in DOMAIN roles' : roles'[x] = roles[x]
  BY <1>1
<1>3. Roled' /\ Rooted' /\ PositionsAreDistinct'
  BY <1>1, <1>2 DEF RoleInv, Roled, Rooted, Given, PositionsAreDistinct
<1> QED
  BY <1>2, <1>3 DEF RoleInv

LEMMA RolesStay ==
    ASSUME Parameters, Inv, [Next]_vars
    PROVE  RoleInv'
<1>1. CASE UNCHANGED roles
  BY <1>1, InvHasRoles DEF RoleInv, Roled, Rooted, Given, PositionsAreDistinct
<1>2. ASSUME NEW a \in Users, RoleChange(a) PROVE RoleInv'
  BY <1>2, InvHasRoles, CreateOnTopKeeps, CreateBelowKeeps, UpdateRoleKeeps, DeleteRoleKeeps
     DEF RoleChange
<1> QED
  BY <1>1, <1>2, NextIs, OthersKeepRoles DEF vars

-----------------------------------------------------------------------------
(* The rest of the tables *)

Membership ==
    /\ owner \in members /\ members \subseteq Users
    /\ assigned \subseteq members \X Given
    /\ timedOut \subseteq members
    /\ banned \subseteq Users \ members
    /\ overwrites \subseteq Overwrite
    /\ \A o \in overwrites : o.target \in members \cup DOMAIN roles
    /\ actor \in Users \cup {Everyone}

LEMMA TypesAre == TypeOK <=> Roled /\ Membership
BY DEF TypeOK, Roled, Membership

LEMMA LeaveKeeps ==
    ASSUME Membership, NEW u \in Users \ {owner}, Leave(u), UNCHANGED <<owner, roles>>,
           banned' \in {banned, banned \cup {u}}, actor' \in Users
    PROVE  Membership'
<1>1. /\ members' = members \ {u} /\ assigned' = {pair \in assigned : pair[1] # u}
      /\ timedOut' = timedOut \ {u} /\ overwrites' = {o \in overwrites : o.target # u}
  BY DEF Leave, Without
<1>2. assigned' \subseteq members' \X Given
  BY <1>1 DEF Membership
<1>3. Given' = Given
  BY DEF Given
<1> QED
  BY <1>1, <1>2, <1>3 DEF Membership

LEMMA OverwritesKeep ==
    ASSUME Parameters, Membership, NEW t \in Users \cup Roles \cup {Everyone}, NEW a \in Users,
           \/ DeleteOverwrite(a, t)
           \/ \E p, q \in Grants : SetOverwrite(a, t, p, q)
    PROVE  Membership'
<1>1. /\ UNCHANGED <<owner, members, roles, assigned, timedOut, banned>> /\ actor' = a
  BY DEF DeleteOverwrite, SetOverwrite, Acts
<1>2. Without(t) \subseteq overwrites
  BY DEF Without
<1>3. /\ overwrites' \subseteq Overwrite
      /\ \A o \in overwrites' : o.target \in members \cup DOMAIN roles
  <2>1. CASE DeleteOverwrite(a, t)
    BY <1>2, <2>1 DEF DeleteOverwrite, Membership
  <2>2. ASSUME NEW p \in Grants, NEW q \in Grants, SetOverwrite(a, t, p, q)
        PROVE  /\ overwrites' \subseteq Overwrite
               /\ \A o \in overwrites' : o.target \in members \cup DOMAIN roles
    <3> DEFINE new == [target |-> t, allow |-> p, deny |-> q]
    <3>1. new \in Overwrite /\ new.target = t
      BY DEF Overwrite, Parameters
    <3> HIDE DEF new
    <3>2. overwrites' = Without(t) \cup {new} /\ t \in members \cup DOMAIN roles
      BY <2>2 DEF SetOverwrite, new
    <3> QED
      BY <1>2, <3>1, <3>2 DEF Membership
  <2> QED
    BY <2>1, <2>2
<1> QED
  BY <1>1, <1>3 DEF Membership, Given

LEMMA RoleChangeKeeps ==
    ASSUME Parameters, Inv, NEW a \in Users, RoleChange(a)
    PROVE  Membership'
<1>1. Membership /\ RoleInv /\ actor' = a
  BY TypesAre, InvHasRoles DEF Inv, RoleChange, CreateOnTop, CreateBelow, UpdateRole, DeleteRole, Acts
<1>2. ASSUME NEW r \in Roles, NEW p \in Grants, CreateOnTop(a, r, p) \/ CreateBelow(a, r, p)
      PROVE  Membership'
  <2>1. /\ DOMAIN roles' = DOMAIN roles \cup {r}
        /\ UNCHANGED <<owner, members, assigned, timedOut, banned, overwrites>>
    BY <1>2 DEF CreateOnTop, CreateBelow
  <2>2. Given \subseteq Given'
    BY <2>1 DEF Given
  <2> QED
    BY <1>1, <2>1, <2>2 DEF Membership
<1>3. ASSUME NEW r \in Roles \cup {Everyone}, NEW p \in Grants, UpdateRole(a, r, p)
      PROVE  Membership'
  <2>1. /\ DOMAIN roles' = DOMAIN roles
        /\ UNCHANGED <<owner, members, assigned, timedOut, banned, overwrites>>
    BY <1>1, <1>3, UpdateRoleKeeps DEF UpdateRole
  <2> QED
    BY <1>1, <2>1 DEF Membership, Given
<1>4. ASSUME NEW r \in Roles, DeleteRole(a, r) PROVE Membership'
  <2>1. /\ DOMAIN roles' = DOMAIN roles \ {r} /\ Given' = Given \ {r}
        /\ UNCHANGED <<owner, members, timedOut, banned>>
        /\ assigned' = {pair \in assigned : pair[2] # r}
        /\ overwrites' = {o \in overwrites : o.target # r}
    BY <1>1, <1>4, DeleteRoleKeeps DEF DeleteRole, Without, Given
  <2>2. assigned' \subseteq members \X Given'
    BY <1>1, <2>1 DEF Membership
  <2> QED
    BY <1>1, <2>1, <2>2 DEF Membership
<1> QED
  BY <1>2, <1>3, <1>4 DEF RoleChange

LEMMA MembershipStays ==
    ASSUME Parameters, Inv, [Next]_vars
    PROVE  Membership'
<1>1. Membership
  BY TypesAre DEF Inv
<1>2. ASSUME NEW a \in Users, NEW u \in Users, KickMember(a, u) \/ BanMember(a, u)
      PROVE  Membership'
  <2>1. /\ u # owner /\ Leave(u) /\ UNCHANGED <<owner, roles>> /\ actor' = a
        /\ banned' \in {banned, banned \cup {u}}
    BY <1>1, <1>2 DEF KickMember, BanMember, Moderatable, Acts, Membership
  <2> QED
    BY <1>1, <2>1, LeaveKeeps
<1>3. ASSUME NEW a \in Users, NEW u \in Users,
             \/ TimeoutMember(a, u) \/ UnbanMember(a, u) \/ Transfer(a, u)
             \/ TimeoutEnds(u) \/ BanEnds(u)
      PROVE  Membership'
  BY <1>1, <1>3 DEF TimeoutMember, UnbanMember, Transfer, TimeoutEnds, BanEnds, Acts, Membership, Given
<1>4. ASSUME NEW u \in Users, Join(u) PROVE Membership'
  <2>1. assigned \subseteq members' \X Given
    BY <1>1, <1>4 DEF Join, Membership
  <2> QED
    BY <1>1, <1>4, <2>1 DEF Join, Membership, Given
<1>5. ASSUME NEW a \in Users, NEW u \in Users, NEW r \in Roles, SetMemberRole(a, u, r)
      PROVE  Membership'
  <2>1. assigned' \subseteq members \X Given
    BY <1>1, <1>5 DEF SetMemberRole, Membership
  <2> QED
    BY <1>1, <1>5, <2>1 DEF SetMemberRole, Acts, Membership, Given
<1>6. CASE UNCHANGED vars
  BY <1>1, <1>6 DEF vars, Membership, Given
<1>7. CASE OtherChange
  BY <1>1, <1>2, <1>3, <1>4, <1>5, <1>7, OverwritesKeep DEF OtherChange
<1>8. ASSUME NEW a \in Users, RoleChange(a) PROVE Membership'
  BY <1>8, RoleChangeKeeps
<1> QED
  BY <1>6, <1>7, <1>8, NextIs

LEMMA Start == ASSUME Parameters PROVE Init => Inv
<1> SUFFICES ASSUME Init PROVE Inv
  OBVIOUS
<1> DEFINE everyone == [position |-> 0, permissions |-> MemberDefault]
<1>1. everyone \in Role /\ everyone.position = 0
  BY DEF Role, Parameters, MemberDefault, Bits
<1>2. roles = [r \in {Everyone} |-> everyone]
  BY DEF Init
<1> HIDE DEF everyone
<1>3. DOMAIN roles = {Everyone} /\ roles[Everyone] = everyone /\ Given = {}
  BY <1>2 DEF Given
<1> QED
  BY <1>1, <1>3 DEF Init, Inv, TypeOK, Rooted, PositionsAreDistinct, Parameters

LEMMA Step == ASSUME Parameters PROVE Inv /\ [Next]_vars => Inv'
<1> SUFFICES ASSUME Inv, [Next]_vars PROVE Inv'
  OBVIOUS
<1>1. RoleInv' /\ Membership'
  BY RolesStay, MembershipStays
<1>2. TypeOK'
  BY <1>1 DEF RoleInv, Roled, Membership, TypeOK
<1> QED
  BY <1>1, <1>2 DEF Inv, RoleInv

LEMMA Invariant == ASSUME Parameters PROVE Spec => []Inv
BY Start, Step, PTL DEF Spec

(***************************************************************************)
(* The tables of a server stay well-formed under any sequence of changes:  *)
(* roles, timeouts and overwrites name members and roles there are, the    *)
(* owner is a member, and nobody is a member and banned.                   *)
(***************************************************************************)
THEOREM TypeCorrect ==
    ASSUME Parameters
    PROVE  Spec => []TypeOK
<1>1. Inv => TypeOK
  BY DEF Inv
<1> QED
  BY <1>1, Invariant, PTL

(***************************************************************************)
(* No two roles share a position, wherever delegates insert theirs and     *)
(* whichever roles are deleted meanwhile (create_role).                    *)
(***************************************************************************)
THEOREM PositionsAreDistinctThm ==
    ASSUME Parameters
    PROVE  Spec => []PositionsAreDistinct
<1>1. Inv => PositionsAreDistinct
  BY DEF Inv
<1> QED
  BY <1>1, Invariant, PTL

-----------------------------------------------------------------------------
(* Authority *)

LEMMA OwnRights ==
    ASSUME NEW u, NEW r \in Has(u) \cup {Everyone}
    PROVE  roles[r].permissions \subseteq Raw(u) /\ Raw(u) \subseteq Authority(u)
           /\ Permissions(u) \subseteq Authority(u)
<1>1. roles[r].permissions \subseteq Raw(u)
  BY DEF Raw
<1>2. Raw(u) \subseteq Authority(u) /\ Permissions(u) \subseteq Authority(u)
  BY DEF Permissions, Authority
<1> QED
  BY <1>1, <1>2

LEMMA NoRaise ==
    ASSUME NEW u, \A r \in Has(u)' \cup {Everyone} : roles'[r].permissions \subseteq Authority(u)
    PROVE  Authority(u)' \subseteq Authority(u)
<1>1. Raw(u)' \subseteq Authority(u)
  BY DEF Raw
<1>2. Raw(u) \subseteq Authority(u)
  BY DEF Authority
<1>3. "administrator" \in Authority(u) => AllGuild \subseteq Authority(u)
  BY DEF Authority
<1> QED
  BY <1>1, <1>2, <1>3 DEF Authority

LEMMA OthersTakeNoRole ==
    ASSUME OtherChange, NEW u \in Users \ {owner}, actor' = u, NEW r, <<u, r>> \in assigned'
    PROVE  <<u, r>> \in assigned
<1>1. ASSUME NEW a \in Users, NEW t \in Users, NEW x \in Roles, SetMemberRole(a, t, x)
      PROVE  <<u, r>> \in assigned
  <2>1. /\ u # t /\ assigned' \in {assigned \ {<<t, x>>}, assigned \cup {<<t, x>>}}
    BY <1>1 DEF SetMemberRole, Acts
  <2> QED
    BY <2>1
<1>2. ASSUME NEW a \in Users, NEW t \in Users, KickMember(a, t) \/ BanMember(a, t)
      PROVE  <<u, r>> \in assigned
  BY <1>2 DEF KickMember, BanMember, Leave
<1> QED
  BY <1>1, <1>2 DEF OtherChange, TimeoutMember, UnbanMember, Transfer, Join, TimeoutEnds, BanEnds,
     DeleteOverwrite, SetOverwrite

LEMMA NoRaiseByRoles ==
    ASSUME Parameters, Inv, NEW u \in Users \ {owner}, RoleChange(u)
    PROVE  Authority(u)' \subseteq Authority(u)
<1>1. Membership /\ RoleInv
  BY TypesAre, InvHasRoles DEF Inv
<1>2. ASSUME NEW r \in Roles, NEW p \in Grants, CreateBelow(u, r, p)
      PROVE  \A x \in Has(u)' \cup {Everyone} : roles'[x].permissions \subseteq Authority(u)
  <2>1. UNCHANGED assigned /\ r \notin DOMAIN roles /\ r # Everyone
    BY <1>2 DEF CreateBelow, Parameters
  <2>2. ASSUME NEW x \in DOMAIN roles PROVE roles'[x].permissions = roles[x].permissions
    <3> DEFINE up == [roles[x] EXCEPT !.position = @ + 1]
    <3>1. roles[x] \in Role
      BY <1>1 DEF RoleInv, Roled
    <3>2. up.permissions = roles[x].permissions
      BY <3>1 DEF Role
    <3>3. \A n : Shifted(n)[x] \in {roles[x], up}
      BY DEF Shifted
    <3>4. roles'[x] \in {roles[x], up}
      BY <1>2, <2>1, <3>3 DEF CreateBelow
    <3> QED
      BY <3>2, <3>4
  <2>3. Has(u)' \subseteq Has(u)
    BY <1>1, <2>1 DEF Has, Membership
  <2>4. Has(u) \cup {Everyone} \subseteq DOMAIN roles
    BY <1>1 DEF Has, Given, RoleInv, Roled
  <2> QED
    BY <2>2, <2>3, <2>4, OwnRights
<1>3. ASSUME NEW r \in Roles \cup {Everyone}, NEW p \in Grants, UpdateRole(u, r, p)
      PROVE  \A x \in Has(u)' \cup {Everyone} : roles'[x].permissions \subseteq Authority(u)
  <2>1. UNCHANGED assigned /\ p \subseteq Permissions(u)
    BY <1>3 DEF UpdateRole, MayGrant
  <2>2. /\ DOMAIN roles' = DOMAIN roles /\ roles'[r].permissions = p
        /\ \A x \in DOMAIN roles : x # r => roles'[x] = roles[x]
    BY <1>1, <1>3, UpdateRoleKeeps
  <2>3. Has(u)' = Has(u) /\ Has(u) \cup {Everyone} \subseteq DOMAIN roles
    BY <1>1, <2>1, <2>2 DEF Has, Given, RoleInv, Roled
  <2> QED
    BY <2>1, <2>2, <2>3, OwnRights
<1>4. ASSUME NEW r \in Roles, DeleteRole(u, r)
      PROVE  \A x \in Has(u)' \cup {Everyone} : roles'[x].permissions \subseteq Authority(u)
  <2>1. /\ DOMAIN roles' = DOMAIN roles \ {r} /\ \A x \in DOMAIN roles' : roles'[x] = roles[x]
        /\ assigned' \subseteq assigned /\ r # Everyone
    BY <1>1, <1>4, DeleteRoleKeeps DEF DeleteRole, Given
  <2>2. Has(u)' \subseteq Has(u) /\ Has(u)' \cup {Everyone} \subseteq DOMAIN roles'
    BY <1>1, <2>1 DEF Has, Given, RoleInv, Roled
  <2> QED
    BY <2>1, <2>2, OwnRights
<1>5. \A r \in Roles, p \in Grants : ~CreateOnTop(u, r, p)
  BY DEF CreateOnTop
<1> QED
  BY <1>2, <1>3, <1>4, <1>5, NoRaise DEF RoleChange

LEMMA ActorIs == \A a \in Users : RoleChange(a) => actor' = a
BY DEF RoleChange, CreateOnTop, CreateBelow, UpdateRole, DeleteRole, Acts

(***************************************************************************)
(* No member but the owner widens its own authority in any step, and so    *)
(* in no sequence of steps of its own, whatever it grants to roles it has  *)
(* or to everyone (require_manageable_permissions, set_member_role).       *)
(***************************************************************************)
THEOREM NobodyRaisesThemselvesThm ==
    ASSUME Parameters
    PROVE  Spec => NobodyRaisesThemselves
<1>1. ASSUME Inv, Next, NEW u \in (members \cap members') \ {owner}, actor' = u
      PROVE  Authority(u)' \subseteq Authority(u)
  <2>1. u \in Users \ {owner}
    BY <1>1 DEF Inv, TypeOK
  <2>2. CASE OtherChange
    <3>1. UNCHANGED roles
      BY <2>2, OthersKeepRoles
    <3>2. Has(u)' \subseteq Has(u)
      BY <1>1, <2>1, <2>2, <3>1, OthersTakeNoRole DEF Has, Given
    <3> QED
      BY <3>1, <3>2, OwnRights, NoRaise
  <2>3. ASSUME NEW a \in Users, RoleChange(a) PROVE Authority(u)' \subseteq Authority(u)
    BY <1>1, <2>1, <2>3, ActorIs, NoRaiseByRoles
  <2> QED
    BY <1>1, <2>2, <2>3, NextIs
<1>2. Inv /\ [Next]_vars
      => [\A u \in (members \cap members') \ {owner} :
             actor' = u => Authority(u)' \subseteq Authority(u)]_vars
  BY <1>1
<1> QED
  BY <1>2, Invariant, PTL DEF Spec, NobodyRaisesThemselves

-----------------------------------------------------------------------------
(* Ranks *)

Outranked(a, u) == Highest(a) > Highest(u)

\* the rank of whoever keeps its roles, which keep their positions
LEMMA SameRank ==
    ASSUME Parameters, TypeOK, TypeOK', NEW u \in Users, Has(u)' = Has(u),
           \A r \in Has(u) : roles'[r].position = roles[r].position
    PROVE  Highest(u)' = Highest(u)
BY RanksAre, RanksAreNext DEF AllRanked, Ranked, Parameters

LEMMA SwitchedRole ==
    ASSUME Parameters, Inv, Inv', NEW a \in Users \ {owner}, NEW t \in Users, NEW r \in Roles,
           SetMemberRole(a, t, r), NEW u \in members, Demoted(u)
    PROVE  Outranked(a, u)
<1>1. /\ UNCHANGED <<members, roles, timedOut>> /\ r \in Given
      /\ roles[r].position < Highest(a) /\ Highest(t) < Highest(a)
      /\ assigned' \in {assigned \ {<<t, r>>}, assigned \cup {<<t, r>>}}
  BY DEF SetMemberRole, MayManage
<1>2. /\ Has(t)' \in {Has(t) \ {r}, Has(t) \cup {r}}
      /\ \A x \in Users : x # t => Has(x)' = Has(x)
  BY <1>1 DEF Has, Given
<1>3. \A x \in Users : Highest(x) \in Nat /\ Highest(x)' \in Nat
  BY RanksAre, RanksAreNext DEF AllRanked, Ranked, Inv
<1>4. \A x \in Users : x # t => Highest(x)' = Highest(x)
  BY <1>1, <1>2, SameRank DEF Inv
<1>5. PICK v \in members : Highest(v) <= Highest(u) /\ Highest(v)' > Highest(u)'
  BY <1>1 DEF Demoted
<1>6. u \in Users /\ v \in Users /\ roles[r].position \in Nat
  BY <1>1 DEF Inv, TypeOK, Given, Role
<1>7. CASE u = t
  BY <1>1, <1>7 DEF Outranked
<1>8. CASE u # t /\ v = t
  <2>1. Highest(v)' <= Highest(v) \/ Highest(v)' = roles[r].position
    <3>1. /\ \A x \in Has(t) : roles[x].position <= Highest(t)
          /\ Highest(t)' = 0 \/ \E x \in Has(t)' : roles'[x].position = Highest(t)'
      BY RanksAre, RanksAreNext DEF AllRanked, Ranked, Inv
    <3> QED
      BY <1>1, <1>2, <1>3, <1>6, <1>8, <3>1
  <2>2. Highest(u)' = Highest(u)
    BY <1>4, <1>6, <1>8
  <2> QED
    BY <1>1, <1>3, <1>5, <1>6, <2>1, <2>2 DEF Outranked
<1>9. CASE u # t /\ v # t
  BY <1>3, <1>4, <1>5, <1>6, <1>9
<1> QED
  BY <1>7, <1>8, <1>9

LEMMA Removed ==
    ASSUME Parameters, Inv, Inv', NEW a \in Users \ {owner}, NEW t \in Users,
           KickMember(a, t) \/ BanMember(a, t), NEW u \in members, Demoted(u)
    PROVE  Outranked(a, u)
<1>1. /\ UNCHANGED roles /\ members' = members \ {t} /\ timedOut' = timedOut \ {t}
      /\ assigned' = {pair \in assigned : pair[1] # t}
      /\ t \in members => Highest(t) < Highest(a)
  BY DEF KickMember, BanMember, Leave, Moderatable
<1>2. CASE u = t
  BY <1>1, <1>2 DEF Outranked
<1>3. CASE u # t
  <2>1. PICK v \in members \cap members' : Highest(v) <= Highest(u) /\ Highest(v)' > Highest(u)'
    BY <1>1, <1>3 DEF Demoted
  <2>2. \A x \in Users : x # t => Has(x)' = Has(x)
    BY <1>1 DEF Has, Given
  <2>3. u \in Users /\ v \in Users /\ v # t
    BY <1>1, <2>1 DEF Inv, TypeOK
  <2>4. Highest(u)' = Highest(u) /\ Highest(v)' = Highest(v)
    BY <1>1, <1>3, <2>2, <2>3, SameRank DEF Inv
  <2>5. Highest(u) \in Nat /\ Highest(v) \in Nat
    BY <2>3, RanksAre DEF AllRanked, Ranked, Inv
  <2> QED
    BY <2>1, <2>4, <2>5
<1> QED
  BY <1>2, <1>3

LEMMA NewRoleBelow ==
    ASSUME Parameters, Inv, Inv', NEW a \in Users \ {owner}, NEW r \in Roles, NEW p \in Grants,
           CreateBelow(a, r, p), NEW u \in members
    PROVE  ~Demoted(u)
<1> DEFINE n == IF Highest(a) > 1 THEN Highest(a) - 1 ELSE 1
           collides == n \in Positions
           Up(k) == IF collides /\ k >= n THEN k + 1 ELSE k
<1>1. /\ UNCHANGED <<members, assigned, timedOut>> /\ r \notin DOMAIN roles
      /\ collides => Top(Positions) < MaxPosition
      /\ roles' = [x \in DOMAIN roles \cup {r} |->
                     IF x = r THEN [position |-> n, permissions |-> p]
                     ELSE IF collides THEN Shifted(n)[x] ELSE roles[x]]
  BY DEF CreateBelow
<1>2. \A x \in Users : Highest(x) \in 0 .. MaxPosition /\ Highest(x)' \in 0 .. MaxPosition
  BY RanksAre, RanksAreNext DEF AllRanked, Ranked, Inv
<1>3. n \in Nat /\ n >= 1
  BY <1>2 DEF Parameters
<1> HIDE DEF n
<1>4. RoleInv /\ \A x \in DOMAIN roles : roles[x].position <= Top(Positions)
  BY InvHasRoles, TopPositions DEF Inv
<1>5. ASSUME NEW x \in DOMAIN roles PROVE roles'[x].position = Up(roles[x].position)
                                          /\ roles[x].position \in 0 .. MaxPosition
  <2>1. roles[x].position \in 0 .. MaxPosition
    BY <1>4 DEF RoleInv, Roled, Role
  <2>2. CASE collides
    BY <1>1, <1>3, <1>4, <2>1, <2>2, ShiftedIs
  <2>3. CASE ~collides
    BY <1>1, <2>1, <2>3
  <2> QED
    BY <2>2, <2>3
<1>6. ASSUME NEW x \in Users
      PROVE  Has(x)' = Has(x) /\ Has(x) \subseteq DOMAIN roles
  BY <1>1 DEF Has, Given, Inv, TypeOK
<1> HIDE DEF collides
<1>7. ASSUME NEW x \in Users PROVE Highest(x)' = Up(Highest(x))
  <2>1. /\ \A y \in Has(x) : roles[y].position <= Highest(x)
        /\ Highest(x) = 0 \/ \E y \in Has(x) : roles[y].position = Highest(x)
    BY RanksAre DEF AllRanked, Ranked, Inv
  <2>2. /\ \A y \in Has(x) : roles'[y].position <= Highest(x)'
        /\ Highest(x)' = 0 \/ \E y \in Has(x) : roles'[y].position = Highest(x)'
    BY <1>6, RanksAreNext DEF AllRanked, Ranked, Inv
  <2>3. \A y \in Has(x) : roles'[y].position = Up(roles[y].position)
                          /\ roles[y].position \in 0 .. MaxPosition
    BY <1>5, <1>6
  <2>4. \A y \in Has(x) : roles[y].position >= 1
    BY DEF Inv, Rooted, Has
  <2>5. CASE Has(x) = {}
    BY <1>2, <1>3, <2>1, <2>2, <2>5
  <2>6. CASE Has(x) # {}
    <3>1. PICK y \in Has(x) : roles[y].position = Highest(x)
      BY <1>2, <2>1, <2>3, <2>4, <2>6
    <3>2. PICK z \in Has(x) : roles'[z].position = Highest(x)'
      BY <1>2, <1>3, <2>2, <2>3, <2>4, <2>6
    <3>3. Up(roles[y].position) <= Highest(x)' /\ Highest(x)' = Up(roles[z].position)
          /\ roles[z].position <= roles[y].position
      BY <2>1, <2>2, <2>3, <3>1, <3>2
    <3> QED
      BY <1>2, <1>3, <2>3, <3>1, <3>3
  <2> QED
    BY <2>5, <2>6
<1>8. SUFFICES ASSUME NEW v \in members, Highest(v) <= Highest(u), Highest(v)' > Highest(u)'
               PROVE  FALSE
  BY <1>1 DEF Demoted
<1>9. u \in Users /\ v \in Users
  BY DEF Inv, TypeOK
<1> QED
  BY <1>2, <1>3, <1>7, <1>8, <1>9

LEMMA DeletedRole ==
    ASSUME Parameters, Inv, Inv', NEW a \in Users \ {owner}, NEW r \in Roles,
           DeleteRole(a, r), NEW u \in members, Demoted(u)
    PROVE  Outranked(a, u)
<1>1. /\ UNCHANGED <<members, timedOut>> /\ roles[r].position < Highest(a) /\ r \in Given
      /\ assigned' = {pair \in assigned : pair[2] # r}
  BY DEF DeleteRole, MayManage
<1>2. DOMAIN roles' = DOMAIN roles \ {r} /\ \A x \in DOMAIN roles' : roles'[x] = roles[x]
  BY InvHasRoles, DeleteRoleKeeps
<1>3. \A x \in Users : /\ Has(x)' = Has(x) \ {r}
                       /\ \A y \in Has(x) \ {r} : roles'[y] = roles[y]
  BY <1>1, <1>2 DEF Has, Given
<1>4. ASSUME NEW x \in Users
      PROVE  /\ Highest(x) \in 0 .. MaxPosition /\ Highest(x)' \in 0 .. MaxPosition
             /\ \A y \in Has(x) : roles[y].position <= Highest(x)
             /\ Highest(x) = 0 \/ \E y \in Has(x) : roles[y].position = Highest(x)
             /\ \A y \in Has(x) \ {r} : roles[y].position <= Highest(x)'
             /\ Highest(x)' = 0 \/ \E y \in Has(x) \ {r} : roles[y].position = Highest(x)'
  <2>1. Ranked(x)
    BY RanksAre DEF AllRanked, Inv
  <2>2. /\ Highest(x)' \in 0 .. MaxPosition
        /\ \A y \in Has(x)' : roles'[y].position <= Highest(x)'
        /\ Highest(x)' = 0 \/ \E y \in Has(x)' : roles'[y].position = Highest(x)'
    BY RanksAreNext DEF AllRanked, Ranked, Inv
  <2> QED
    BY <1>3, <2>1, <2>2 DEF Ranked
<1>5. PICK v \in members : Highest(v) <= Highest(u) /\ Highest(v)' > Highest(u)'
  BY <1>1 DEF Demoted
<1>6. u \in Users /\ v \in Users
  BY DEF Inv, TypeOK
<1>7. Highest(v)' <= Highest(v)
  BY <1>4, <1>6
<1>8. Highest(u)' < Highest(u)
  BY <1>4, <1>5, <1>6, <1>7
<1>9. Highest(u) = roles[r].position
  BY <1>4, <1>6, <1>8
<1> QED
  BY <1>1, <1>9, <1>4, <1>6 DEF Outranked

\* a step that leaves ranks alone demotes only who is silenced
LEMMA SameRanks ==
    ASSUME UNCHANGED <<roles, assigned>>, members \subseteq members', NEW u \in members,
           Demoted(u)
    PROVE  u \in timedOut' \ timedOut
BY DEF Demoted

LEMMA Demotions ==
    ASSUME Parameters, Inv, Inv', Next, actor' # owner, NEW u \in members, Demoted(u)
    PROVE  Outranked(actor', u)
<1>1. owner \in Users /\ u \in Users
  BY DEF Inv, TypeOK
<1>2. ASSUME NEW a \in Users, NEW t \in Users, TimeoutMember(a, t)
      PROVE  Outranked(actor', u)
  <2>1. /\ actor' = a /\ Moderatable(a, t) /\ UNCHANGED <<roles, assigned, members>>
        /\ timedOut' \ timedOut \subseteq {t}
    BY <1>2 DEF TimeoutMember, Acts
  <2>2. u = t
    BY <2>1, SameRanks
  <2> QED
    BY <2>1, <2>2 DEF Moderatable, Outranked
<1>3. ASSUME NEW a \in Users, NEW t \in Users, KickMember(a, t) \/ BanMember(a, t)
      PROVE  Outranked(actor', u)
  <2>1. actor' = a
    BY <1>3 DEF KickMember, BanMember, Acts
  <2> QED
    BY <1>3, <2>1, Removed
<1>4. ASSUME NEW a \in Users, NEW t \in Users, NEW r \in Roles, SetMemberRole(a, t, r)
      PROVE  Outranked(actor', u)
  <2>1. actor' = a
    BY <1>4 DEF SetMemberRole, Acts
  <2> QED
    BY <1>4, <2>1, SwitchedRole
<1>5. ASSUME NEW a \in Users, NEW t \in Users, NEW target \in Users \cup Roles \cup {Everyone},
             \/ UnbanMember(a, t) \/ Transfer(a, t) \/ Join(t) \/ TimeoutEnds(t) \/ BanEnds(t)
             \/ DeleteOverwrite(a, target)
             \/ \E p, q \in Grants : SetOverwrite(a, target, p, q)
      PROVE  FALSE
  <2>1. /\ UNCHANGED <<roles, assigned>> /\ members \subseteq members'
        /\ timedOut' \subseteq timedOut
    BY <1>5 DEF UnbanMember, Transfer, Join, TimeoutEnds, BanEnds, DeleteOverwrite, SetOverwrite
  <2> QED
    BY <2>1, SameRanks
<1>6. ASSUME NEW a \in Users, RoleChange(a) PROVE Outranked(actor', u)
  <2>1. actor' = a /\ a # owner
    BY <1>6, ActorIs
  <2>2. ASSUME NEW r \in Roles \cup {Everyone}, NEW p \in Grants, UpdateRole(a, r, p)
        PROVE  FALSE
    <3>1. /\ UNCHANGED <<members, assigned, timedOut>> /\ DOMAIN roles' = DOMAIN roles
          /\ \A x \in DOMAIN roles : roles'[x].position = roles[x].position
      BY <2>2, UpdateRoleKeeps, InvHasRoles DEF UpdateRole
    <3>2. \A x \in Users : Has(x)' = Has(x) /\ Has(x) \subseteq DOMAIN roles
      BY <3>1 DEF Has, Given
    <3>3. \A x \in Users : Highest(x)' = Highest(x)
      BY <3>1, <3>2, SameRank DEF Inv
    <3>4. PICK v \in members : Highest(v) <= Highest(u) /\ Highest(v)' > Highest(u)'
      BY <3>1 DEF Demoted
    <3>5. v \in Users /\ Highest(u) \in Nat /\ Highest(v) \in Nat
      BY <1>1, RanksAre DEF AllRanked, Ranked, Inv, TypeOK
    <3> QED
      BY <1>1, <3>3, <3>4, <3>5
  <2>3. \A r \in Roles, p \in Grants : ~CreateOnTop(a, r, p)
    BY <2>1 DEF CreateOnTop
  <2> QED
    BY <1>6, <2>1, <2>2, <2>3, NewRoleBelow, DeletedRole DEF RoleChange
<1>7. Everyone \in Users \cup Roles \cup {Everyone}
  OBVIOUS
<1> QED
  BY <1>1, <1>2, <1>3, <1>4, <1>5, <1>6, <1>7, NextIs DEF OtherChange

(***************************************************************************)
(* A member is removed, silenced or overtaken in rank only by the owner or *)
(* by somebody who ranks above it, however delegates create, delete and    *)
(* assign roles (require_manageable_role, require_moderatable_target).     *)
(***************************************************************************)
THEOREM NoOverthrowThm ==
    ASSUME Parameters
    PROVE  Spec => NoOverthrow
<1>1. Inv /\ Inv' /\ [Next]_vars
      => [actor' = owner \/ \A u \in members : Demoted(u) => Highest(actor') > Highest(u)]_vars
  BY Demotions DEF Outranked
<1> QED
  BY <1>1, Invariant, PTL DEF Spec, NoOverthrow

=============================================================================
