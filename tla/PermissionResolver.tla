------------------------- MODULE PermissionResolver -------------------------
(***************************************************************************)
(* PermissionResolver::resolve (exo-domain permissions.rs): what a member  *)
(* may do in a channel, from its roles, the channel's overwrites and its   *)
(* timeout.  A question is asked and answered; nothing else has a state.   *)
(***************************************************************************)
EXTENDS FiniteSets

CONSTANTS
    Roles,       \* the roles of the member besides @everyone
    Grants,      \* what @everyone and the roles together may grant
    Rules        \* [allow, deny] of an overwrite; none of both: no overwrite

(***************************************************************************)
(* converse stands for the bits that go with the sight of the channel,     *)
(* history for the one of these that a timeout leaves, manage for bits     *)
(* that do not depend on seeing, e2ee for those not in ALL_GUILD.          *)
(***************************************************************************)
Bits == {"administrator", "view", "history", "converse", "manage", "e2ee"}

\* what the theorems ask of the constants
Parameters ==
    /\ Grants \subseteq SUBSET Bits
    /\ Rules \subseteq [allow : SUBSET Bits, deny : SUBSET Bits]

VARIABLES
    question,    \* owner, granted, rules (of everyone, of each role, of the member), timed
    answer

qvars == <<question, answer>>

Question == [owner : BOOLEAN, granted : SUBSET Bits, everyone : Rules, role : [Roles -> Rules],
             member : Rules, timed : BOOLEAN]

TypeOK == question \in Question /\ (answer \subseteq Bits \/ answer = {"unanswered"})

\* of an owner the overwrites do not matter
Asked ==
    {q \in [owner : BOOLEAN, granted : Grants, everyone : Rules, role : [Roles -> Rules],
            member : Rules, timed : BOOLEAN] :
        q.owner => \A r \in Roles : q.role[r] = q.member}

Init == question \in Asked /\ answer = {"unanswered"}

\* remove what a rule denies, then insert what it allows
Apply(permissions, allow, deny) == (permissions \ deny) \cup allow

\* mutant: each role is applied on its own, and the last one wins
ByRoles_Each(permissions, rules) ==
    LET last == CHOOSE r \in Roles : TRUE
    IN  Apply(Apply(permissions, UNION {rules[r].allow : r \in Roles \ {last}},
                    UNION {rules[r].deny : r \in Roles \ {last}}),
              rules[last].allow, rules[last].deny)

\* the denies of all roles come before the allows of any
ByRoles(permissions, rules) ==
    Apply(permissions, UNION {rules[r].allow : r \in Roles}, UNION {rules[r].deny : r \in Roles})

\* a timeout leaves two bits
Timely(q, permissions) == IF q.timed THEN permissions \cap {"view", "history"} ELSE permissions

\* who cannot see the channel cannot converse in it
Seen(permissions) ==
    IF "view" \in permissions THEN permissions ELSE permissions \ {"converse", "history"}

Ruled(q) ==
    LET everyone == Apply(q.granted, q.everyone.allow, q.everyone.deny)
    IN  Apply(ByRoles(everyone, q.role), q.member.allow, q.member.deny)

Resolved(q) ==
    IF q.owner THEN Bits
    ELSE IF "administrator" \in q.granted THEN Timely(q, Bits \ {"e2ee"})
    ELSE Seen(Timely(q, Ruled(q)))

Resolve == answer' = Resolved(question) /\ UNCHANGED question

Next == Resolve
Spec == Init /\ [][Next]_qvars

-----------------------------------------------------------------------------
\* the word that counts for one bit: the member's overwrite is the last, then what some
\* role allows, then what some role denies, then @everyone's overwrite, then the grants
Allowed(q, b) ==
    \/ b \in q.member.allow
    \/ /\ b \notin q.member.deny
       /\ \/ \E r \in Roles : b \in q.role[r].allow
          \/ /\ \A r \in Roles : b \notin q.role[r].deny
             /\ b \in q.everyone.allow \/ b \in q.granted \ q.everyone.deny

\* every bit is decided by the most specific overwrite that speaks of it, a role's allow
\* beats another role's deny, and neither a timed-out nor an unseeing member converses
\* (docs/channels-moderation.md, Permission resolution; PermissionResolver::resolve)
ResolverAgrees ==
    answer # {"unanswered"} =>
        \A b \in Bits :
            b \in answer <=>
                \/ question.owner
                \/ /\ question.timed => b \in {"view", "history"}
                   /\ IF "administrator" \in question.granted THEN b # "e2ee"
                      ELSE /\ Allowed(question, b)
                           /\ b \in {"converse", "history"} => Allowed(question, "view")

=============================================================================
