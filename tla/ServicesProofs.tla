--------------------------- MODULE ServicesProofs ---------------------------
(***************************************************************************)
(* What is proved of the services, for any constants that are as           *)
(* ServicesParameters says: every invariant and every property of steps    *)
(* that the run "services" checks.                                         *)
(*                                                                         *)
(* A behaviour of the services is one of each part (the lemmas XPart): the *)
(* initial state is one of the part, and a step of the services is a step  *)
(* of the part or leaves its variables alone.  What holds of the part thus *)
(* holds of the services.  AccountKey, Gateway, Automod and ServerRoles    *)
(* have their proofs in modules of their own, which Services instantiates; *)
(* those of the other parts are given here of the instance: of             *)
(* PermissionResolver, Relationships, Voice, Attachments, Registration,    *)
(* SignIn, LocalCache, MlsDelivery and PrivateHistory, in this order.  The *)
(* theorems about the services follow at the end.                          *)
(***************************************************************************)
EXTENDS Services, ServerRolesProofs, Sequences, FiniteSetTheorems, FunctionTheorems

LEMMA MlsPart == ServicesSpec => Mls!Spec
<1>1. ServicesInit => Mls!Init
  BY DEF ServicesInit
<1>2. [ServicesNext]_servicesVars => [Mls!Next]_(Mls!vars)
  BY DEF ServicesNext, servicesVars, mlsVars, Mls!vars, Mls!server, Mls!client
<1> QED BY <1>1, <1>2, PTL DEF ServicesSpec, Mls!Spec

LEMMA ResolverPart == ServicesSpec => Resolver!Spec
<1>1. ServicesInit => Resolver!Init
  BY DEF ServicesInit
<1>2. [ServicesNext]_servicesVars => [Resolver!Next]_(Resolver!qvars)
  BY DEF ServicesNext, servicesVars, resolverVars, Resolver!qvars
<1> QED BY <1>1, <1>2, PTL DEF ServicesSpec, Resolver!Spec

LEMMA KeyPart == ServicesSpec => Key!Spec
<1>1. ServicesInit => Key!Init
  BY DEF ServicesInit
<1>2. [ServicesNext]_servicesVars => [Key!Next]_(Key!kvars)
  BY DEF ServicesNext, servicesVars, keyVars, Key!kvars, Key!stored
<1> QED BY <1>1, <1>2, PTL DEF ServicesSpec, Key!Spec

LEMMA GatePart == ServicesSpec => Gate!Spec
<1>1. ServicesInit => Gate!Init
  BY DEF ServicesInit
<1>2. [ServicesNext]_servicesVars => [Gate!Next]_(Gate!gvars)
  BY DEF ServicesNext, servicesVars, gatewayVars, Gate!gvars, Gate!limits, Gate!registry, Gate!history
<1> QED BY <1>1, <1>2, PTL DEF ServicesSpec, Gate!Spec

LEMMA SignPart == ServicesSpec => Sign!Spec
<1>1. ServicesInit => Sign!Init
  BY DEF ServicesInit
<1>2. [ServicesNext]_servicesVars => [Sign!Next]_(Sign!svars)
  BY DEF ServicesNext, servicesVars, signInVars, Sign!svars
<1> QED BY <1>1, <1>2, PTL DEF ServicesSpec, Sign!Spec

LEMMA PairsPart == ServicesSpec => Pairs!Spec
<1>1. ServicesInit => Pairs!Init
  BY DEF ServicesInit
<1>2. [ServicesNext]_servicesVars => [Pairs!Next]_(Pairs!rvars)
  BY DEF ServicesNext, servicesVars, pairsVars, Pairs!rvars
<1> QED BY <1>1, <1>2, PTL DEF ServicesSpec, Pairs!Spec

LEMMA FilesPart == ServicesSpec => Files!Spec
<1>1. ServicesInit => Files!Init
  BY DEF ServicesInit
<1>2. [ServicesNext]_servicesVars => [Files!Next]_(Files!avars)
  BY DEF ServicesNext, servicesVars, filesVars, Files!avars
<1> QED BY <1>1, <1>2, PTL DEF ServicesSpec, Files!Spec

LEMMA ModPart == ServicesSpec => Mod!Spec
<1>1. ServicesInit => Mod!Init
  BY DEF ServicesInit
<1>2. [ServicesNext]_servicesVars => [Mod!Next]_(Mod!mvars)
  BY DEF ServicesNext, servicesVars, automodVars, Mod!mvars, Mod!guild
<1> QED BY <1>1, <1>2, PTL DEF ServicesSpec, Mod!Spec

LEMMA TalkPart == ServicesSpec => Talk!Spec
<1>1. ServicesInit => Talk!Init
  BY DEF ServicesInit
<1>2. [ServicesNext]_servicesVars => [Talk!Next]_(Talk!vvars)
  BY DEF ServicesNext, servicesVars, voiceVars, Talk!vvars
<1> QED BY <1>1, <1>2, PTL DEF ServicesSpec, Talk!Spec

LEMMA NamesPart == ServicesSpec => Names!Spec
<1>1. ServicesInit => Names!Init
  BY DEF ServicesInit
<1>2. [ServicesNext]_servicesVars => [Names!Next]_(Names!zvars)
  BY DEF ServicesNext, servicesVars, registrationVars, Names!zvars
<1> QED BY <1>1, <1>2, PTL DEF ServicesSpec, Names!Spec

LEMMA HistoryPart == ServicesSpec => History!Spec
<1>1. ServicesInit => History!Init
  BY DEF ServicesInit
<1>2. [ServicesNext]_servicesVars => [History!Next]_(History!hvars)
  BY DEF ServicesNext, servicesVars, historyVars, History!hvars
<1> QED BY <1>1, <1>2, PTL DEF ServicesSpec, History!Spec

LEMMA DiskPart == ServicesSpec => Disk!Spec
<1>1. ServicesInit => Disk!Init
  BY DEF ServicesInit
<1>2. [ServicesNext]_servicesVars => [Disk!Next]_(Disk!cvars)
  BY DEF ServicesNext, servicesVars, cacheVars, Disk!cvars, Disk!disk
<1> QED BY <1>1, <1>2, PTL DEF ServicesSpec, Disk!Spec


-----------------------------------------------------------------------------
(* PermissionResolver *)

\* bit by bit, the order of the code is the order of the words that count
LEMMA RuledAllowed ==
    ASSUME NEW q \in Resolver!Asked, NEW b PROVE b \in Resolver!Ruled(q) <=> Resolver!Allowed(q, b)
<1>1. b \in UNION {q.role[r].allow : r \in ResolverRoles}
        <=> \E r \in ResolverRoles : b \in q.role[r].allow
  OBVIOUS
<1>2. b \in UNION {q.role[r].deny : r \in ResolverRoles}
        <=> \E r \in ResolverRoles : b \in q.role[r].deny
  OBVIOUS
<1> QED BY <1>1, <1>2 DEF Resolver!Ruled, Resolver!ByRoles, Resolver!Apply, Resolver!Allowed

LEMMA ResolvedAgrees ==
    ASSUME Resolver!Parameters, NEW q \in Resolver!Asked, NEW b \in Resolver!Bits
    PROVE  b \in Resolver!Resolved(q) <=>
                \/ q.owner
                \/ /\ q.timed => b \in {"view", "history"}
                   /\ IF "administrator" \in q.granted THEN b # "e2ee"
                      ELSE /\ Resolver!Allowed(q, b)
                           /\ b \in {"converse", "history"} => Resolver!Allowed(q, "view")
<1>1. CASE q.owner
  BY <1>1 DEF Resolver!Resolved
<1>2. CASE ~q.owner /\ "administrator" \in q.granted
  BY <1>2 DEF Resolver!Resolved, Resolver!Timely
<1>3. CASE ~q.owner /\ "administrator" \notin q.granted
  <2>1. b \in Resolver!Ruled(q) <=> Resolver!Allowed(q, b)
    BY RuledAllowed
  <2>2. "view" \in Resolver!Ruled(q) <=> Resolver!Allowed(q, "view")
    BY RuledAllowed
  <2>3. "view" \in Resolver!Timely(q, Resolver!Ruled(q)) <=> Resolver!Allowed(q, "view")
    BY <2>2 DEF Resolver!Timely
  <2>4. b \in Resolver!Timely(q, Resolver!Ruled(q))
          <=> Resolver!Allowed(q, b) /\ (q.timed => b \in {"view", "history"})
    BY <2>1 DEF Resolver!Timely
  <2> QED BY <1>3, <2>3, <2>4 DEF Resolver!Resolved, Resolver!Seen
<1> QED BY <1>1, <1>2, <1>3

LEMMA ResolverAgreesThm ==
    ASSUME Resolver!Parameters
    PROVE  Resolver!Spec => [](Resolver!TypeOK /\ Resolver!ResolverAgrees)
<1> DEFINE J == /\ question \in Resolver!Asked
                /\ answer \in {{"unanswered"}, Resolver!Resolved(question)}
<1>1. Resolver!Init => J
  BY DEF Resolver!Init
<1>2. J /\ [Resolver!Next]_(Resolver!qvars) => J'
  BY DEF Resolver!Next, Resolver!Resolve, Resolver!qvars, Resolver!Resolved, Resolver!Timely,
     Resolver!Seen, Resolver!Ruled, Resolver!ByRoles, Resolver!Apply
<1>3. J => Resolver!TypeOK /\ Resolver!ResolverAgrees
  <2>1. ASSUME J PROVE Resolver!TypeOK
    <3>1. question \in Resolver!Question
      BY <2>1 DEF Resolver!Parameters, Resolver!Asked, Resolver!Question
    <3>2. Resolver!Resolved(question) \subseteq Resolver!Bits
      <4>1. Resolver!Ruled(question) \subseteq Resolver!Bits
        BY <3>1 DEF Resolver!Parameters, Resolver!Question, Resolver!Ruled, Resolver!ByRoles,
           Resolver!Apply
      <4>2. Resolver!Timely(question, Resolver!Ruled(question)) \subseteq Resolver!Bits
        BY <4>1 DEF Resolver!Timely
      <4> QED BY <4>2 DEF Resolver!Resolved, Resolver!Timely, Resolver!Seen, Resolver!Bits
    <3> QED BY <2>1, <3>1, <3>2 DEF Resolver!TypeOK
  <2>2. ASSUME J, answer # {"unanswered"} PROVE Resolver!ResolverAgrees
    BY <2>1, <2>2, ResolvedAgrees DEF Resolver!ResolverAgrees
  <2> QED BY <2>1, <2>2 DEF Resolver!ResolverAgrees
<1> QED BY <1>1, <1>2, <1>3, PTL DEF Resolver!Spec

-----------------------------------------------------------------------------
(* Relationships: the two rows of a pair are always put together *)

States == {"incoming", "outgoing", "friend", "blocked", None}

LEMMA MirrorOfMirror ==
    ASSUME NEW side \in Pairs!Rows
    PROVE  /\ Pairs!Mirror(side) \in Pairs!Rows
           /\ Pairs!Mirror(Pairs!Mirror(side)) = side /\ Pairs!Mirror(side) # side
BY DEF Pairs!Rows, Pairs!Mirror

\* what is put for a row concerns the two rows of its pair alone
LEMMA PutPair ==
    ASSUME Pairs!TypeOK, NEW side \in Pairs!Rows, NEW mine \in States, NEW theirs \in States,
           Pairs!Put(side, mine, theirs)
    PROVE  /\ state' \in [Pairs!Rows -> States]
           /\ state'[side] = mine /\ state'[Pairs!Mirror(side)] = theirs
           /\ \A other \in Pairs!Rows \ {side, Pairs!Mirror(side)} : state'[other] = state[other]
BY MirrorOfMirror DEF Pairs!Put, Pairs!TypeOK, States

\* rows that agree still do when both rows of a pair are replaced by two that agree
LEMMA PutKeeps ==
    ASSUME Pairs!TypeOK, Pairs!RowsAgree, NEW side \in Pairs!Rows,
           NEW mine \in States, NEW theirs \in States,
           Pairs!Put(side, mine, theirs), UNCHANGED direct,
           mine = "friend" <=> theirs = "friend",
           mine = "incoming" <=> theirs = "outgoing", mine = "outgoing" <=> theirs = "incoming",
           mine = "blocked" => theirs \in {"blocked", None},
           theirs = "blocked" => mine \in {"blocked", None}
    PROVE  Pairs!TypeOK' /\ Pairs!RowsAgree'
<1>1. Pairs!TypeOK'
  BY PutPair DEF Pairs!TypeOK, States
<1>2. ASSUME NEW r \in Pairs!Rows
      PROVE  /\ state'[r] = "friend" => state'[Pairs!Mirror(r)] = "friend"
             /\ state'[r] = "incoming" <=> state'[Pairs!Mirror(r)] = "outgoing"
             /\ state'[r] = "blocked" => state'[Pairs!Mirror(r)] \in {"blocked", None}
  <2>1. CASE r = side
    BY <2>1, PutPair
  <2>2. CASE r = Pairs!Mirror(side)
    BY <2>2, PutPair, MirrorOfMirror
  <2>3. CASE r \notin {side, Pairs!Mirror(side)}
    <3>1. /\ Pairs!Mirror(r) \in Pairs!Rows \ {side, Pairs!Mirror(side)}
          /\ r \in Pairs!Rows \ {side, Pairs!Mirror(side)}
      BY <2>3, MirrorOfMirror
    <3>2. state'[r] = state[r] /\ state'[Pairs!Mirror(r)] = state[Pairs!Mirror(r)]
      BY <3>1, PutPair
    <3> QED BY <3>2 DEF Pairs!RowsAgree
  <2> QED BY <2>1, <2>2, <2>3
<1> QED BY <1>1, <1>2 DEF Pairs!RowsAgree

LEMMA PairsStep ==
    ASSUME Pairs!Parameters, Pairs!TypeOK, Pairs!RowsAgree, Pairs!Next
    PROVE  Pairs!TypeOK' /\ Pairs!RowsAgree'
<1>1. PICK side \in Pairs!Rows :
             Pairs!Request(side) \/ Pairs!Accept(side) \/ Pairs!Block(side)
                \/ Pairs!Remove(side) \/ Pairs!OpenDirect(side)
  BY DEF Pairs!Next
<1>2. /\ state[side] \in States /\ state[Pairs!Mirror(side)] \in States
      /\ Pairs!Mirror(side) \in Pairs!Rows
  BY MirrorOfMirror DEF Pairs!TypeOK, States
<1>3. CASE Pairs!Request(side)
  BY <1>3, PutKeeps DEF Pairs!Request, States, Pairs!Parameters
<1>4. CASE Pairs!Accept(side)
  BY <1>4, PutKeeps DEF Pairs!Accept, States, Pairs!Parameters
<1>5. CASE Pairs!Block(side)
  BY <1>5, PutKeeps DEF Pairs!Block, States, Pairs!Parameters
<1>6. CASE Pairs!Remove(side)
  BY <1>2, <1>6, PutKeeps DEF Pairs!Remove, Pairs!Kept, States, Pairs!Parameters
<1>7. CASE Pairs!OpenDirect(side)
  BY <1>7 DEF Pairs!OpenDirect, Pairs!TypeOK, Pairs!RowsAgree
<1> QED BY <1>1, <1>3, <1>4, <1>5, <1>6, <1>7

LEMMA RowsAgreeThm ==
    ASSUME Pairs!Parameters PROVE Pairs!Spec => [](Pairs!TypeOK /\ Pairs!RowsAgree)
<1>1. Pairs!Init => Pairs!TypeOK /\ Pairs!RowsAgree
  BY MirrorOfMirror DEF Pairs!Init, Pairs!TypeOK, Pairs!RowsAgree, Pairs!Parameters
<1>2. Pairs!TypeOK /\ Pairs!RowsAgree /\ [Pairs!Next]_(Pairs!rvars)
         => (Pairs!TypeOK /\ Pairs!RowsAgree)'
  <2>1. CASE UNCHANGED Pairs!rvars
    BY <2>1 DEF Pairs!rvars, Pairs!TypeOK, Pairs!RowsAgree
  <2> QED BY <2>1, PairsStep
<1> QED BY <1>1, <1>2, PTL DEF Pairs!Spec

-----------------------------------------------------------------------------
(***************************************************************************)
(* Who lost the access to a voice channel is out of it once the evictions  *)
(* are done, for any set of members and any number of attempts.            *)
(*                                                                         *)
(* OutsidersStayOut is not inductive: the eviction of a whole room takes   *)
(* no token back, so a member with a token could join again after it, and  *)
(* one that is still to look the channel up does nothing once the channel  *)
(* is deleted.  The invariant Covered tells them apart: a token needs an   *)
(* eviction of its member, a participant one of its member or, of the      *)
(* room, one that will reach it (Reaches).                                 *)
(***************************************************************************)

Outsiders(S) == S \ (access \cup excused)

\* e is still to put the member out
Reaches(e, u) == e.target = u \/ (e.target = Talk!Room /\ (deleted => e.next = "remove"))

Covered ==
    /\ \A u \in Outsiders(voiceTokens) : \E e \in evictions : e.target = u
    /\ \A u \in Outsiders(connected) : \E e \in evictions : Reaches(e, u)

VoiceInv == Talk!TypeOK /\ Covered

-----------------------------------------------------------------------------
\* what an eviction leaves is still good, what it touched is no outsider's any more
LEMMA EvictKeeps ==
    ASSUME VoiceInv, Talk!Parameters, NEW e \in evictions, Talk!Evict(e)
    PROVE  Covered'
<1>1. /\ evictions' = evictions \ {e} /\ UNCHANGED <<deleted, access>>
      /\ excused' = excused \cap (connected' \cup voiceTokens')
  BY DEF Talk!Evict
<1>2. CASE e.target = Talk!Room
  <2>1. connected' = {} /\ voiceTokens' = voiceTokens
    BY <1>2 DEF Talk!Parameters, Talk!Evict, Talk!Revoked, VoiceInv, Talk!TypeOK
  <2>2. ASSUME NEW u \in Outsiders(voiceTokens)'
        PROVE  \E x \in evictions' : x.target = u
    <3>1. u # Talk!Room /\ u \in Outsiders(voiceTokens)
      BY <1>1, <2>1, <2>2 DEF Talk!Parameters, VoiceInv, Talk!TypeOK, Outsiders
    <3>2. PICK x \in evictions : x.target = u
      BY <3>1 DEF VoiceInv, Covered
    <3> QED BY <3>1, <3>2, <1>1, <1>2
  <2> QED BY <2>1, <2>2 DEF Covered, Outsiders
<1>3. CASE e.target # Talk!Room
  <2>1. e.target \in VoiceMembers
    BY <1>3 DEF VoiceInv, Talk!TypeOK, Talk!Eviction
  <2>2. connected' = connected \ {e.target} /\ voiceTokens' = voiceTokens \ {e.target}
    BY <1>3, <2>1 DEF Talk!Evict, Talk!Revoked
  <2>3. ASSUME NEW u, u # e.target, NEW x \in evictions, Reaches(x, u)
        PROVE  x \in evictions' /\ Reaches(x, u)'
    BY <1>1, <1>3, <2>3 DEF Reaches
  <2>4. ASSUME NEW u \in Outsiders(voiceTokens)'
        PROVE  \E x \in evictions' : x.target = u
    <3>1. u \in Outsiders(voiceTokens) /\ u # e.target
      BY <1>1, <2>2, <2>4 DEF Outsiders
    <3>2. PICK x \in evictions : x.target = u
      BY <3>1 DEF VoiceInv, Covered
    <3> QED BY <1>1, <3>1, <3>2
  <2>5. ASSUME NEW u \in Outsiders(connected)'
        PROVE  \E x \in evictions' : Reaches(x, u)'
    <3>1. u \in Outsiders(connected) /\ u # e.target
      BY <1>1, <2>2, <2>5 DEF Outsiders
    <3>2. PICK x \in evictions : Reaches(x, u)
      BY <3>1 DEF VoiceInv, Covered
    <3> QED BY <2>3, <3>1, <3>2
  <2> QED BY <2>4, <2>5 DEF Covered
<1> QED BY <1>2, <1>3

\* an eviction that is replaced by another of the same target
LEMMA EvictionGoesOn ==
    ASSUME VoiceInv, NEW e \in evictions, NEW x, x.target = e.target,
           deleted /\ e.next = "remove" => x.next = "remove",
           evictions' = (evictions \ {e}) \cup {x},
           UNCHANGED <<deleted, access, voiceTokens, connected, excused>>
    PROVE  Covered'
<1>1. ASSUME NEW y \in evictions
      PROVE  \E z \in evictions' : z.target = y.target /\ \A u : Reaches(y, u) => Reaches(z, u)'
  <2>1. CASE y = e
    BY <2>1 DEF Reaches
  <2>2. CASE y # e
    BY <2>2 DEF Reaches
  <2> QED BY <2>1, <2>2
<1>2. ASSUME NEW u \in Outsiders(voiceTokens)' PROVE \E z \in evictions' : z.target = u
  <2>1. PICK y \in evictions : y.target = u
    BY <1>2 DEF VoiceInv, Covered, Outsiders
  <2> QED BY <1>1, <2>1
<1>3. ASSUME NEW u \in Outsiders(connected)' PROVE \E z \in evictions' : Reaches(z, u)'
  <2>1. PICK y \in evictions : Reaches(y, u)
    BY <1>3 DEF VoiceInv, Covered, Outsiders
  <2> QED BY <1>1, <2>1
<1> QED BY <1>2, <1>3 DEF Covered

\* an eviction that ends without effect, those it would have reached excused
LEMMA EvictionGivenUp ==
    ASSUME VoiceInv, NEW e \in evictions, evictions' = evictions \ {e},
           UNCHANGED <<deleted, access, voiceTokens, connected>>,
           excused \subseteq excused',
           \A u \in voiceTokens : e.target = u => u \in excused',
           \A u \in connected : Reaches(e, u) => u \in excused'
    PROVE  Covered'
<1>1. ASSUME NEW u \in Outsiders(voiceTokens)' PROVE \E x \in evictions' : x.target = u
  <2>1. u \in Outsiders(voiceTokens) /\ e.target # u
    BY <1>1 DEF Outsiders
  <2>2. PICK x \in evictions : x.target = u
    BY <2>1 DEF VoiceInv, Covered
  <2> QED BY <2>1, <2>2
<1>2. ASSUME NEW u \in Outsiders(connected)' PROVE \E x \in evictions' : Reaches(x, u)'
  <2>1. u \in Outsiders(connected) /\ ~Reaches(e, u)
    BY <1>2 DEF Outsiders
  <2>2. PICK x \in evictions : Reaches(x, u)
    BY <2>1 DEF VoiceInv, Covered
  <2> QED BY <2>1, <2>2 DEF Reaches
<1> QED BY <1>1, <1>2 DEF Covered

\* an eviction record
LEMMA EvictionIs ==
    ASSUME NEW t \in VoiceMembers \cup {Talk!Room}, NEW n \in {"lookup", "remove"},
           NEW f \in 0 .. MaxEvictions - 1, NEW x, x = [target |-> t, next |-> n, failed |-> f]
    PROVE  x \in Talk!Eviction /\ x.target = t /\ x.next = n /\ x.failed = f
BY DEF Talk!Eviction

-----------------------------------------------------------------------------
\* a request with an eviction: whoever loses the access is in its reach, or missed
LEMMA ChangedKeeps ==
    ASSUME VoiceInv, Talk!Parameters, NEW S \in SUBSET VoiceMembers,
           NEW t \in VoiceMembers \cup {Talk!Room},
           NEW n \in {"lookup", "remove"}, NEW M \in SUBSET VoiceMembers, Talk!Changed(S, t, n, M),
           deleted' \in BOOLEAN, deleted => deleted', deleted' => S = {},
           t \in VoiceMembers => access \ S \subseteq {t},
           t = Talk!Room => (access \ S) \cap voiceTokens \subseteq M,
           deleted' => deleted \/ (t = Talk!Room /\ n = "remove")
    PROVE  VoiceInv'
<1>1. PICK x : x = [target |-> t, next |-> n, failed |-> 0]
  OBVIOUS
<1>2. x \in Talk!Eviction /\ x.target = t /\ x.next = n
  BY <1>1, EvictionIs DEF Talk!Parameters
<1>3. /\ access' = S /\ evictions' = evictions \cup {x} /\ excused' = (excused \ S) \cup M
      /\ UNCHANGED <<signing, voiceTokens, connected>> /\ changes' \in 0 .. MaxAccessChanges
      /\ (deleted => S = {})
  BY <1>1 DEF Talk!Changed, Talk!Happens, VoiceInv, Talk!TypeOK, Talk!Parameters
<1>4. Talk!TypeOK'
  BY <1>2, <1>3 DEF VoiceInv, Talk!TypeOK
<1>5. ASSUME NEW u \in Outsiders(voiceTokens)' PROVE \E y \in evictions' : y.target = u
  <2>1. u \in voiceTokens /\ u \notin S /\ u \notin M /\ u \notin excused
    BY <1>3, <1>5 DEF Outsiders
  <2>2. CASE u \in access
    BY <1>2, <1>3, <2>1, <2>2
  <2>3. CASE u \notin access
    BY <1>3, <2>1, <2>3 DEF VoiceInv, Covered, Outsiders
  <2> QED BY <2>2, <2>3
<1>6. ASSUME NEW u \in Outsiders(connected)' PROVE \E y \in evictions' : Reaches(y, u)'
  <2>1. u \in connected /\ u \notin S /\ u \notin M /\ u \notin excused
    BY <1>3, <1>6 DEF Outsiders
  <2>2. CASE u \in access
    <3>1. ~deleted
      BY <2>2 DEF VoiceInv, Talk!TypeOK
    <3>2. Reaches(x, u)'
      BY <1>2, <2>1, <2>2, <3>1 DEF Reaches
    <3> QED BY <1>3, <3>2
  <2>3. CASE u \notin access
    <3>1. CASE t = Talk!Room /\ (deleted' => n = "remove")
      BY <1>2, <1>3, <3>1 DEF Reaches
    <3>2. CASE ~(t = Talk!Room /\ (deleted' => n = "remove"))
      <4>1. PICK y \in evictions : Reaches(y, u)
        BY <2>1, <2>3 DEF VoiceInv, Covered, Outsiders
      <4>2. deleted' => deleted
        BY <3>2
      <4> QED BY <1>3, <4>1, <4>2 DEF Reaches
    <3> QED BY <3>1, <3>2
  <2> QED BY <2>2, <2>3
<1> QED BY <1>4, <1>5, <1>6 DEF VoiceInv, Covered

LEMMA UnattendedKeeps ==
    ASSUME VoiceInv, Talk!Parameters, NEW S \in SUBSET VoiceMembers, Talk!Unattended(S)
    PROVE  VoiceInv'
BY DEF Talk!Unattended, Talk!Happens, Talk!Parameters, VoiceInv, Talk!TypeOK, Covered,
       Outsiders, Reaches

-----------------------------------------------------------------------------
\* what one member does, or the SFU with one member
LEMMA MemberKeeps ==
    ASSUME VoiceInv, Talk!Parameters, NEW u \in VoiceMembers,
           \/ Talk!CheckAccess(u) \/ Talk!Sign(u) \/ Talk!Expire(u)
           \/ Talk!Join(u) \/ Talk!Leave(u) \/ Talk!Return(u)
    PROVE  VoiceInv'
<1> USE DEF VoiceInv, Talk!TypeOK, Covered, Outsiders, Reaches
<1>1. CASE Talk!CheckAccess(u)
  BY <1>1 DEF Talk!CheckAccess
<1>2. CASE Talk!Sign(u)
  BY <1>2 DEF Talk!Sign
<1>3. CASE Talk!Expire(u)
  BY <1>3 DEF Talk!Expire
<1>4. CASE Talk!Join(u)
  BY <1>4 DEF Talk!Join
<1>5. CASE Talk!Leave(u)
  BY <1>5 DEF Talk!Leave
<1>6. CASE Talk!Return(u)
  <2> DEFINE S == access \cup {u}
  <2>1. S \in SUBSET VoiceMembers /\ Talk!Unattended(S)
    BY <1>6 DEF Talk!Return
  <2> HIDE DEF S, VoiceInv
  <2> QED BY <2>1, UnattendedKeeps
<1> QED BY <1>1, <1>2, <1>3, <1>4, <1>5, <1>6

\* the requests
LEMMA RequestsCover ==
    ASSUME VoiceInv, Talk!Parameters,
           \/ \E u \in VoiceMembers, may \in BOOLEAN :
                 \/ Talk!ChangeMember(u, may)
                 \/ \E v \in VoiceMembers : Talk!TransferOwnership(u, v, may)
           \/ \E S \in SUBSET VoiceMembers :
                 \/ Talk!ChangeRole(S) \/ Talk!Interrupted(S)
                 \/ \E t \in VoiceMembers \cup {Talk!Room} : Talk!ChangeOverwrite(t, S)
           \/ Talk!DeleteChannel \/ Talk!InterruptedDeletion
    PROVE  VoiceInv'
<1>0. /\ access \subseteq VoiceMembers /\ voiceTokens \subseteq VoiceMembers
      /\ connected \subseteq VoiceMembers
      /\ deleted \in BOOLEAN /\ Talk!Room \notin VoiceMembers
  BY DEF VoiceInv, Talk!TypeOK, Talk!Parameters
<1>1. ASSUME NEW u \in VoiceMembers, NEW may \in BOOLEAN, Talk!ChangeMember(u, may) PROVE VoiceInv'
  <2> DEFINE S == IF may THEN access \cup {u} ELSE access \ {u}
  <2>1. /\ S \in SUBSET VoiceMembers /\ Talk!Changed(S, u, "lookup", {}) /\ UNCHANGED deleted
        /\ access \ S \subseteq {u} /\ (deleted => S = {}) /\ u # Talk!Room
    BY <1>0, <1>1 DEF Talk!ChangeMember, Talk!Changed
  <2> HIDE DEF S
  <2> QED BY <1>0, <2>1, ChangedKeeps
<1>2. ASSUME NEW u \in VoiceMembers, NEW v \in VoiceMembers, NEW may \in BOOLEAN,
             Talk!TransferOwnership(u, v, may)
      PROVE  VoiceInv'
  <2> DEFINE S == {v} \cup IF may THEN access ELSE access \ {u}
  <2>1. S \in SUBSET VoiceMembers /\ Talk!Unattended(S)
    BY <1>0, <1>2 DEF Talk!TransferOwnership
  <2> HIDE DEF S
  <2> QED BY <2>1, UnattendedKeeps
<1>3. ASSUME NEW S \in SUBSET VoiceMembers, Talk!ChangeRole(S) PROVE VoiceInv'
  <2> DEFINE M == (access \ S) \cap voiceTokens
  <2>1. /\ M \in SUBSET VoiceMembers /\ Talk!Changed(S, Talk!Room, "lookup", M) /\ UNCHANGED deleted
        /\ (deleted => S = {}) /\ (access \ S) \cap voiceTokens \subseteq M
    BY <1>0, <1>3 DEF Talk!ChangeRole, Talk!Changed
  <2> HIDE DEF M
  <2> QED BY <1>0, <2>1, ChangedKeeps
<1>4. ASSUME NEW S \in SUBSET VoiceMembers, Talk!Interrupted(S) PROVE VoiceInv'
  BY <1>4, UnattendedKeeps DEF Talk!Interrupted
<1>5. ASSUME NEW S \in SUBSET VoiceMembers, NEW t \in VoiceMembers \cup {Talk!Room},
             Talk!ChangeOverwrite(t, S)
      PROVE  VoiceInv'
  <2>1. CASE t = Talk!Room
    <3> DEFINE M == (access \ S) \cap voiceTokens
    <3>1. /\ M \in SUBSET VoiceMembers /\ Talk!Changed(S, Talk!Room, "remove", M) /\ UNCHANGED deleted
          /\ (deleted => S = {}) /\ (access \ S) \cap voiceTokens \subseteq M
      BY <1>0, <1>5, <2>1 DEF Talk!ChangeOverwrite, Talk!Changed
    <3> HIDE DEF M
    <3> QED BY <1>0, <3>1, ChangedKeeps
  <2>2. CASE t # Talk!Room
    <3>1. /\ t \in VoiceMembers /\ Talk!Changed(S, t, "remove", {}) /\ UNCHANGED deleted
          /\ (deleted => S = {}) /\ access \ S \subseteq {t}
      BY <1>0, <1>5, <2>2 DEF Talk!ChangeOverwrite, Talk!Changed
    <3> QED BY <1>0, <2>2, <3>1, ChangedKeeps
  <2> QED BY <2>1, <2>2
<1>6. ASSUME Talk!DeleteChannel PROVE VoiceInv'
  <2> DEFINE M == access \cap voiceTokens
  <2>1. /\ M \in SUBSET VoiceMembers /\ Talk!Changed({}, Talk!Room, "remove", M) /\ deleted' = TRUE
        /\ (access \ {}) \cap voiceTokens \subseteq M
    BY <1>0, <1>6 DEF Talk!DeleteChannel
  <2> HIDE DEF M
  <2> QED BY <1>0, <2>1, ChangedKeeps
<1>7. ASSUME Talk!InterruptedDeletion PROVE VoiceInv'
  BY <1>7 DEF Talk!InterruptedDeletion, Talk!Happens, Talk!Parameters, VoiceInv, Talk!TypeOK,
              Covered, Outsiders
<1> QED BY <1>1, <1>2, <1>3, <1>4, <1>5, <1>6, <1>7

\* the evictions
LEMMA EvictionsCover ==
    ASSUME VoiceInv, Talk!Parameters, NEW e \in evictions,
           Talk!LookUp(e) \/ Talk!Evict(e) \/ Talk!Fail(e)
    PROVE  VoiceInv'
<1>0. /\ e \in Talk!Eviction /\ Talk!TypeOK /\ voiceTokens \subseteq VoiceMembers
      /\ connected \subseteq VoiceMembers
      /\ Talk!Room \notin VoiceMembers /\ MaxEvictions \in Nat \ {0}
  BY DEF VoiceInv, Talk!TypeOK, Talk!Parameters
<1>1. /\ e.target \in VoiceMembers \cup {Talk!Room} /\ e.next \in {"lookup", "remove"}
      /\ e.failed \in 0 .. MaxEvictions - 1
  BY <1>0 DEF Talk!Eviction
<1>2. CASE Talk!LookUp(e)
  <2>1. e.next = "lookup" /\ UNCHANGED <<deleted, access, signing, voiceTokens, connected, changes>>
    BY <1>2 DEF Talk!LookUp
  <2>2. CASE deleted
    <3>1. evictions' = evictions \ {e} /\ excused' = excused \cup ({e.target} \cap VoiceMembers)
      BY <1>2, <2>2 DEF Talk!LookUp
    <3>2. Talk!TypeOK'
      BY <1>0, <2>1, <3>1 DEF Talk!TypeOK
    <3>3. Covered'
      BY <1>0, <2>1, <2>2, <3>1, EvictionGivenUp DEF Reaches
    <3> QED BY <3>2, <3>3 DEF VoiceInv
  <2>3. CASE ~deleted
    <3>1. PICK x : x = [target |-> e.target, next |-> "remove", failed |-> 0]
      OBVIOUS
    <3>2. x \in Talk!Eviction /\ x.target = e.target /\ x.next = "remove"
      BY <1>0, <1>1, <3>1, EvictionIs
    <3>3. evictions' = (evictions \ {e}) \cup {x} /\ UNCHANGED excused
      BY <1>2, <2>3, <3>1 DEF Talk!LookUp
    <3>4. Talk!TypeOK'
      BY <1>0, <2>1, <3>2, <3>3 DEF Talk!TypeOK
    <3>5. Covered'
      BY <2>1, <3>2, <3>3, EvictionGoesOn
    <3> QED BY <3>4, <3>5 DEF VoiceInv
  <2> QED BY <2>2, <2>3
<1>3. CASE Talk!Evict(e)
  <2>1. Talk!TypeOK'
    BY <1>0, <1>3 DEF Talk!Evict, Talk!TypeOK
  <2> QED BY <1>3, <2>1, EvictKeeps DEF VoiceInv
<1>4. CASE Talk!Fail(e)
  <2>1. UNCHANGED <<deleted, access, signing, voiceTokens, connected, changes>>
    BY <1>4 DEF Talk!Fail
  <2>2. CASE e.failed + 1 < MaxEvictions
    <3>1. PICK x : x = [target |-> e.target, next |-> e.next, failed |-> e.failed + 1]
      OBVIOUS
    <3>2. e.failed + 1 \in 0 .. MaxEvictions - 1
      BY <1>0, <1>1, <2>2
    <3>3. x \in Talk!Eviction /\ x.target = e.target /\ x.next = e.next
      BY <1>1, <3>1, <3>2, EvictionIs
    <3>4. evictions' = (evictions \ {e}) \cup {x} /\ UNCHANGED excused
      BY <1>4, <2>2, <3>1 DEF Talk!Fail
    <3>5. Talk!TypeOK'
      BY <1>0, <2>1, <3>3, <3>4 DEF Talk!TypeOK
    <3>6. Covered'
      BY <2>1, <3>3, <3>4, EvictionGoesOn
    <3> QED BY <3>5, <3>6 DEF VoiceInv
  <2>3. CASE ~(e.failed + 1 < MaxEvictions)
    <3>1. evictions' = evictions \ {e} /\ excused' = excused \cup Talk!Missed(e)
      BY <1>4, <2>3 DEF Talk!Fail
    <3>2. Talk!TypeOK'
      BY <1>0, <1>1, <2>1, <3>1 DEF Talk!TypeOK, Talk!Missed
    <3>3. Covered'
      BY <1>0, <2>1, <3>1, EvictionGivenUp DEF Reaches, Talk!Missed
    <3> QED BY <3>2, <3>3 DEF VoiceInv
  <2> QED BY <2>2, <2>3
<1> QED BY <1>2, <1>3, <1>4

LEMMA VoiceRestartKeeps ==
    ASSUME VoiceInv, Talk!Parameters, Talk!Restart
    PROVE  VoiceInv'
<1>1. /\ evictions' = {} /\ signing' = {} /\ UNCHANGED <<deleted, access, voiceTokens, connected>>
      /\ excused' = excused \cup UNION {Talk!Missed(e) : e \in evictions}
      /\ changes' \in 0 .. MaxAccessChanges
  BY DEF Talk!Restart, Talk!Happens, VoiceInv, Talk!TypeOK, Talk!Parameters
<1>2. ASSUME NEW e \in evictions
      PROVE  Talk!Missed(e) \subseteq excused' /\ Talk!Missed(e) \subseteq VoiceMembers
  BY <1>1 DEF Talk!Missed, VoiceInv, Talk!TypeOK, Talk!Eviction
<1>3. Talk!TypeOK'
  BY <1>1, <1>2 DEF VoiceInv, Talk!TypeOK
<1>4. ASSUME NEW u \in voiceTokens \cup connected, u \notin access, u \notin excused
      PROVE  u \in excused'
  <2>1. PICK e \in evictions : Reaches(e, u) /\ (u \notin connected => e.target = u)
    BY <1>4 DEF VoiceInv, Covered, Outsiders, Reaches
  <2>2. u \in Talk!Missed(e)
    <3>1. CASE e.target = u
      <4>1. u # Talk!Room
        BY <1>4 DEF VoiceInv, Talk!TypeOK, Talk!Parameters
      <4> QED BY <3>1, <4>1 DEF Talk!Missed
    <3>2. CASE e.target # u
      BY <2>1, <3>2 DEF Talk!Missed, Reaches
    <3> QED BY <3>1, <3>2
  <2> QED BY <1>2, <2>2
<1>5. Covered'
  BY <1>1, <1>4 DEF Covered, Outsiders
<1> QED BY <1>3, <1>5 DEF VoiceInv

LEMMA VoiceStep ==
    ASSUME VoiceInv, Talk!Parameters, [Talk!Next]_(Talk!vvars)
    PROVE  VoiceInv'
<1>1. CASE UNCHANGED Talk!vvars
  BY <1>1 DEF Talk!vvars, VoiceInv, Talk!TypeOK, Covered, Outsiders, Reaches
<1>2. CASE Talk!Next
  BY <1>2, MemberKeeps, RequestsCover, EvictionsCover, VoiceRestartKeeps DEF Talk!Next
<1> QED BY <1>1, <1>2

LEMMA VoiceStart ==
    ASSUME Talk!Parameters, Talk!Init
    PROVE  VoiceInv
<1>0. deleted = FALSE /\ changes = 0 /\ changes \in 0 .. MaxAccessChanges
  BY DEF Talk!Parameters, Talk!Init
<1>1. Talk!TypeOK
  BY <1>0 DEF Talk!Init, Talk!TypeOK
<1> QED BY <1>1 DEF Talk!Init, VoiceInv, Covered, Outsiders

LEMMA VoiceTyped == ASSUME Talk!Parameters PROVE Talk!Spec => []Talk!TypeOK
<1>1. Talk!Init => VoiceInv
  BY VoiceStart
<1>2. VoiceInv /\ [Talk!Next]_(Talk!vvars) => VoiceInv'
  BY VoiceStep
<1>3. VoiceInv => Talk!TypeOK
  BY DEF VoiceInv
<1> QED BY <1>1, <1>2, <1>3, PTL DEF Talk!Spec

-----------------------------------------------------------------------------
(* who has lost the access to a voice channel neither stays in it nor comes back with a   *)
(* token signed before, once the evictions are done (revoke_member_voice,                 *)
(* reset_guild_voice, issue_voice_grant), for every set of members                        *)
LEMMA OutsidersStayOutThm ==
    ASSUME Talk!Parameters
    PROVE  Talk!Spec => []Talk!OutsidersStayOut
<1>1. Talk!Init => VoiceInv
  BY VoiceStart
<1>2. VoiceInv /\ [Talk!Next]_(Talk!vvars) => VoiceInv'
  BY VoiceStep
<1>3. VoiceInv => Talk!OutsidersStayOut
  BY DEF VoiceInv, Covered, Reaches, Outsiders, Talk!OutsidersStayOut
<1> QED BY <1>1, <1>2, <1>3, PTL DEF Talk!Spec

-----------------------------------------------------------------------------
(***************************************************************************)
(* A file that a message refers to, or may still refer to, stays in the    *)
(* store, for any uploads and contents.                                    *)
(*                                                                         *)
(* FilesStay needs what the cleanup knows of the object it holds: what was *)
(* due when it took the lock is due until it lets go, since a message can  *)
(* only link an upload that has not expired; and once it found no live     *)
(* reference, every row of the object is one of those.  It also needs that *)
(* an inspected object is still there for the row it was inspected for.    *)
(***************************************************************************)

Row == [stage : {"none", "reserved", "ready"}, content : Contents \cup {None},
        linked : BOOLEAN, expired : BOOLEAN]

\* the row is there for a message, or may be completed and linked
Alive(u) == row[u].linked \/ ~row[u].expired
Needed(u) == row[u].linked \/ (row[u].stage = "ready" /\ ~row[u].expired)

Held ==
    /\ \A u \in FileUploads : row[u].stage = "none" => ~row[u].linked /\ ~row[u].expired
    /\ \A u \in linking : ~row[u].expired
    /\ cleanup.step \in {"locked", "deleting"} =>
          \A u \in cleanup.due : ~row[u].linked /\ row[u].expired
    /\ cleanup.step = "deleting" =>
          \A u \in FileUploads : row[u].content = cleanup.content => u \in cleanup.due

Stored ==
    /\ \A u \in FileUploads : Needed(u) => row[u].content \in objects
    /\ \A u \in inspected : Files!Exists(u) /\ Alive(u) => row[u].content \in objects

FilesInv == Files!TypeOK /\ (~overran => Held /\ Stored)

-----------------------------------------------------------------------------
(* What each action does to one row *)

LEMMA ReserveKeeps ==
    ASSUME FilesInv, NEW u \in FileUploads, NEW c \in Contents, Files!Reserve(u, c)
    PROVE  FilesInv'
<1> DEFINE new == [stage |-> "reserved", content |-> c, linked |-> FALSE, expired |-> FALSE]
<1>1. row' = [row EXCEPT ![u] = new]
  BY DEF Files!Reserve
<1>2. /\ UNCHANGED <<objects, uploading, inspected, linking, cleanup, overran>>
      /\ row[u].stage = "none" /\ cleanup.content # c /\ u \notin inspected
  BY DEF Files!Reserve, Files!Exists
<1>3. new \in Row
  BY DEF Row
<1>4. /\ row'[u] = new /\ row' \in [FileUploads -> Row]
      /\ \A v \in FileUploads : v # u => row'[v] = row[v]
  BY <1>1, <1>3 DEF FilesInv, Files!TypeOK, Row, Files!Exists
<1>5. /\ row'[u].stage = "reserved" /\ row'[u].content = c
      /\ row'[u].linked = FALSE /\ row'[u].expired = FALSE
  BY <1>4
<1> HIDE DEF new
<1>6. u \notin linking
  BY <1>2 DEF FilesInv, Files!TypeOK, Files!Exists
<1>7. Files!TypeOK'
  BY <1>2, <1>4, <1>5, <1>6 DEF FilesInv, Files!TypeOK, Row, Files!Exists
<1>8. ASSUME ~overran PROVE Held'
  <2>1. cleanup.step \in {"locked", "deleting"} => u \notin cleanup.due
    BY <1>2, <1>8 DEF FilesInv, Held
  <2> QED
    BY <1>2, <1>4, <1>5, <1>6, <1>8, <2>1 DEF FilesInv, Held, Files!TypeOK
<1>9. ASSUME ~overran PROVE Stored'
  BY <1>2, <1>4, <1>5, <1>9 DEF FilesInv, Stored, Files!TypeOK, Needed, Alive, Files!Exists
<1> QED
  BY <1>2, <1>7, <1>8, <1>9 DEF FilesInv

LEMMA CompleteKeeps ==
    ASSUME FilesInv, NEW u \in FileUploads, Files!CompleteAttachment(u)
    PROVE  FilesInv'
<1>1. /\ UNCHANGED <<objects, uploading, linking, cleanup, overran>>
      /\ u \in inspected /\ u \notin linking /\ inspected' = inspected \ {u}
  BY DEF Files!CompleteAttachment
<1>2. CASE ~Files!Completes(u)
  <2>1. row' = row
    BY <1>2 DEF Files!CompleteAttachment
  <2> QED
    BY <1>1, <2>1 DEF FilesInv, Files!TypeOK, Held, Stored, Needed, Alive, Files!Exists
<1>3. CASE Files!Completes(u)
  <2>1. row' = [row EXCEPT ![u].stage = "ready"]
    BY <1>3 DEF Files!CompleteAttachment
  <2>2. row \in [FileUploads -> Row] /\ row[u] \in Row
    BY DEF FilesInv, Files!TypeOK, Row, Files!Exists
  <2>3. /\ row' \in [FileUploads -> Row]
        /\ row'[u].stage = "ready" /\ row'[u].content = row[u].content
        /\ row'[u].linked = row[u].linked /\ row'[u].expired = row[u].expired
        /\ \A v \in FileUploads : v # u => row'[v] = row[v]
    BY <2>1, <2>2 DEF Row
  <2>4. Files!TypeOK'
    BY <1>1, <1>3, <2>3 DEF FilesInv, Files!TypeOK, Row, Files!Exists, Files!Completes
  <2>5. ASSUME ~overran PROVE Held'
    BY <1>1, <1>3, <2>3, <2>5 DEF FilesInv, Held, Files!TypeOK, Files!Completes,
       Files!Exists
  <2>6. ASSUME ~overran PROVE row[u].content \in objects
    BY <1>1, <1>3, <2>6 DEF FilesInv, Stored, Files!Completes, Alive
  <2>7. ASSUME ~overran PROVE Stored'
    BY <1>1, <2>3, <2>6, <2>7 DEF FilesInv, Stored, Files!TypeOK, Needed, Alive,
       Files!Exists
  <2> QED
    BY <1>1, <2>4, <2>5, <2>7 DEF FilesInv
<1> QED
  BY <1>2, <1>3

LEMMA LinkKeeps ==
    ASSUME FilesInv, NEW u \in FileUploads, NEW stored \in BOOLEAN, Files!CommitLink(u, stored)
    PROVE  FilesInv'
<1>1. /\ UNCHANGED <<objects, uploading, inspected, cleanup, overran>>
      /\ u \in linking /\ linking' = linking \ {u}
      /\ row[u].stage = "ready" /\ ~row[u].linked
  BY DEF Files!CommitLink, FilesInv, Files!TypeOK
<1>2. CASE ~stored
  <2>1. row' = row
    BY <1>2 DEF Files!CommitLink
  <2> QED
    BY <1>1, <2>1 DEF FilesInv, Files!TypeOK, Held, Stored, Needed, Alive, Files!Exists
<1>3. CASE stored
  <2>1. row' = [row EXCEPT ![u].linked = TRUE]
    BY <1>3 DEF Files!CommitLink
  <2>2. row \in [FileUploads -> Row] /\ row[u] \in Row
    BY DEF FilesInv, Files!TypeOK, Row, Files!Exists
  <2>3. /\ row' \in [FileUploads -> Row]
        /\ row'[u].stage = "ready" /\ row'[u].content = row[u].content
        /\ row'[u].linked /\ row'[u].expired = row[u].expired
        /\ \A v \in FileUploads : v # u => row'[v] = row[v]
    BY <1>1, <2>1, <2>2 DEF Row
  <2>4. Files!TypeOK'
    BY <1>1, <2>3 DEF FilesInv, Files!TypeOK, Row, Files!Exists
  <2>5. ASSUME ~overran PROVE ~row[u].expired
    BY <1>1, <2>5 DEF FilesInv, Held
  <2>6. ASSUME ~overran PROVE Held'
    BY <1>1, <2>3, <2>5, <2>6 DEF FilesInv, Held, Files!TypeOK
  <2>7. ASSUME ~overran PROVE Stored'
    BY <1>1, <2>3, <2>5, <2>7 DEF FilesInv, Stored, Files!TypeOK, Needed, Alive,
       Files!Exists
  <2> QED
    BY <1>1, <2>4, <2>6, <2>7 DEF FilesInv
<1> QED
  BY <1>2, <1>3

LEMMA DeleteMessageKeeps ==
    ASSUME FilesInv, NEW u \in FileUploads, Files!DeleteMessage(u)
    PROVE  FilesInv'
<1>1. /\ UNCHANGED <<objects, uploading, inspected, linking, cleanup, overran>>
      /\ row[u].linked
  BY DEF Files!DeleteMessage
<1> DEFINE free == [row[u] EXCEPT !.linked = FALSE, !.expired = FALSE]
<1>2. row' = [row EXCEPT ![u] = free]
  BY DEF Files!DeleteMessage
<1>3. row \in [FileUploads -> Row] /\ row[u] \in Row
  BY DEF FilesInv, Files!TypeOK, Row, Files!Exists
<1>4. /\ free \in Row /\ free.stage = row[u].stage /\ free.content = row[u].content
      /\ ~free.linked /\ ~free.expired
  BY <1>3 DEF Row
<1> HIDE DEF free
<1>5. /\ row' \in [FileUploads -> Row] /\ row'[u] = free
      /\ \A v \in FileUploads : v # u => row'[v] = row[v]
  BY <1>2, <1>3, <1>4
<1>6. u \notin linking
  BY <1>1 DEF FilesInv, Files!TypeOK, Files!Exists
<1>7. Files!TypeOK'
  BY <1>1, <1>4, <1>5, <1>6 DEF FilesInv, Files!TypeOK, Row, Files!Exists
<1>8. ASSUME ~overran PROVE Held'
  BY <1>1, <1>4, <1>5, <1>6, <1>8 DEF FilesInv, Held, Files!TypeOK
<1>9. ASSUME ~overran PROVE Stored'
  BY <1>1, <1>4, <1>5, <1>9 DEF FilesInv, Stored, Files!TypeOK, Needed, Alive, Files!Exists
<1> QED
  BY <1>1, <1>7, <1>8, <1>9 DEF FilesInv

LEMMA ExpireKeeps ==
    ASSUME FilesInv, NEW u \in FileUploads, Files!Expire(u)
    PROVE  FilesInv'
<1>1. /\ UNCHANGED <<objects, uploading, inspected, linking, cleanup>>
      /\ row[u].stage # "none" /\ ~row[u].linked
      /\ row' = [row EXCEPT ![u].expired = TRUE]
      /\ ~overran' => ~overran /\ u \notin linking
      /\ overran' \in BOOLEAN
  BY DEF Files!Expire, Files!Exists
<1>2. row \in [FileUploads -> Row] /\ row[u] \in Row
  BY DEF FilesInv, Files!TypeOK, Row, Files!Exists
<1>3. /\ row' \in [FileUploads -> Row]
      /\ row'[u].stage = row[u].stage /\ row'[u].content = row[u].content
      /\ row'[u].linked = row[u].linked /\ row'[u].expired
      /\ \A v \in FileUploads : v # u => row'[v] = row[v]
  BY <1>1, <1>2 DEF Row
<1>4. Files!TypeOK'
  BY <1>1, <1>3 DEF FilesInv, Files!TypeOK, Row, Files!Exists
<1>5. ASSUME ~overran' PROVE Held'
  BY <1>1, <1>3, <1>5 DEF FilesInv, Held, Files!TypeOK
<1>6. ASSUME ~overran' PROVE Stored'
  BY <1>1, <1>3, <1>6 DEF FilesInv, Stored, Files!TypeOK, Needed, Alive, Files!Exists
<1> QED
  BY <1>4, <1>5, <1>6 DEF FilesInv

-----------------------------------------------------------------------------
(* The cleanup *)

LEMMA LockKeeps ==
    ASSUME FilesInv, NEW c \in Contents, Files!LockObject(c)
    PROVE  FilesInv'
<1>1. /\ UNCHANGED <<row, objects, uploading, inspected, linking, overran>>
      /\ cleanup' = [content |-> c, due |-> Files!Due(c), step |-> "locked"]
  BY DEF Files!LockObject
<1>2. Files!Due(c) \in SUBSET FileUploads /\ \A u \in Files!Due(c) : ~row[u].linked
      /\ row[u].expired
  BY DEF Files!Due, Files!Of
<1>3. /\ cleanup' \in [content : Contents \cup {None}, due : SUBSET FileUploads,
                       step : {"idle", "locked", "deleting", "rows"}]
      /\ cleanup'.step = "locked" /\ cleanup'.due = Files!Due(c)
  BY <1>1, <1>2
<1>4. Files!TypeOK'
  BY <1>1, <1>3 DEF FilesInv, Files!TypeOK, Files!Exists
<1>5. ASSUME ~overran PROVE Held' /\ Stored'
  BY <1>1, <1>2, <1>3, <1>5 DEF FilesInv, Held, Stored, Needed, Alive, Files!Exists
<1> QED
  BY <1>1, <1>4, <1>5 DEF FilesInv

LEMMA CheckKeeps ==
    ASSUME FilesInv, Files!CheckReferences
    PROVE  FilesInv'
<1> DEFINE next == IF Files!HasLiveReference(cleanup.content) THEN "rows" ELSE "deleting"
<1>1. /\ UNCHANGED <<row, objects, uploading, inspected, linking, overran>>
      /\ cleanup.step = "locked" /\ cleanup' = [cleanup EXCEPT !.step = next]
  BY DEF Files!CheckReferences
<1>2. next \in {"rows", "deleting"}
  OBVIOUS
<1>3. /\ cleanup' \in [content : Contents \cup {None}, due : SUBSET FileUploads,
                       step : {"idle", "locked", "deleting", "rows"}]
      /\ cleanup'.step = next /\ cleanup'.due = cleanup.due
      /\ cleanup'.content = cleanup.content
  BY <1>1, <1>2 DEF FilesInv, Files!TypeOK, Files!Exists
<1>4. Files!TypeOK'
  BY <1>1, <1>3 DEF FilesInv, Files!TypeOK, Files!Exists
<1>5. next = "deleting" => \A u \in FileUploads : row[u].content = cleanup.content
      => u \in cleanup.due
  BY DEF Files!HasLiveReference, Files!Of
<1> HIDE DEF next
<1>6. ASSUME ~overran PROVE Held' /\ Stored'
  BY <1>1, <1>3, <1>5, <1>6 DEF FilesInv, Held, Stored, Needed, Alive, Files!Exists
<1> QED
  BY <1>1, <1>4, <1>6 DEF FilesInv

LEMMA DeleteObjectKeeps ==
    ASSUME FilesInv, NEW gone \in BOOLEAN, Files!DeleteObject(gone)
    PROVE  FilesInv'
<1>1. /\ UNCHANGED <<row, uploading, inspected, linking, overran>>
      /\ cleanup.step = "deleting"
      /\ objects' \in {objects, objects \ {cleanup.content}}
      /\ cleanup' \in {Files!Idle, [cleanup EXCEPT !.step = "rows"]}
  BY DEF Files!DeleteObject
<1>2. /\ cleanup' \in [content : Contents \cup {None}, due : SUBSET FileUploads,
                       step : {"idle", "locked", "deleting", "rows"}]
      /\ cleanup'.step \in {"idle", "rows"}
  BY <1>1 DEF FilesInv, Files!TypeOK, Files!Idle
<1>3. Files!TypeOK'
  BY <1>1, <1>2 DEF FilesInv, Files!TypeOK, Files!Exists
<1>4. ASSUME ~overran PROVE Held'
  BY <1>1, <1>2, <1>4 DEF FilesInv, Held
<1>5. ASSUME ~overran, NEW u \in FileUploads, row[u].content = cleanup.content
      PROVE  ~Needed(u) /\ ~Alive(u)
  BY <1>1, <1>5 DEF FilesInv, Held, Needed, Alive
<1>6. ASSUME ~overran PROVE Stored'
  BY <1>1, <1>5, <1>6 DEF FilesInv, Stored, Files!TypeOK, Needed, Alive, Files!Exists
<1> QED
  BY <1>1, <1>3, <1>4, <1>6 DEF FilesInv

LEMMA DeleteRowsKeeps ==
    ASSUME FilesInv, Files!DeleteRows
    PROVE  FilesInv'
<1> DEFINE gone == cleanup.due \cap Files!Due(cleanup.content)
<1>1. /\ UNCHANGED <<objects, uploading, inspected, linking, overran>>
      /\ cleanup' = Files!Idle /\ gone \cap linking = {}
      /\ row' = [u \in FileUploads |-> IF u \in gone THEN Files!NoRow ELSE row[u]]
  BY DEF Files!DeleteRows
<1> HIDE DEF gone
<1>2. /\ Files!NoRow \in Row /\ Files!NoRow.stage = "none"
      /\ ~Files!NoRow.linked /\ ~Files!NoRow.expired
  BY DEF Files!NoRow, Row
<1>3. /\ row' \in [FileUploads -> Row]
      /\ \A u \in FileUploads : (u \in gone => row'[u] = Files!NoRow) /\ (u \notin gone
         => row'[u] = row[u])
  BY <1>1, <1>2 DEF FilesInv, Files!TypeOK, Row, Files!Exists
<1>4. /\ cleanup'.step = "idle"
      /\ cleanup' \in [content : Contents \cup {None}, due : SUBSET FileUploads,
                       step : {"idle", "locked", "deleting", "rows"}]
  BY <1>1 DEF Files!Idle
<1>5. Files!TypeOK'
  BY <1>1, <1>2, <1>3, <1>4 DEF FilesInv, Files!TypeOK, Row, Files!Exists
<1>6. ASSUME ~overran PROVE Held'
  BY <1>1, <1>2, <1>3, <1>4, <1>6 DEF FilesInv, Files!TypeOK, Held
<1>7. ASSUME ~overran PROVE Stored'
  BY <1>1, <1>2, <1>3, <1>7 DEF FilesInv, Files!TypeOK, Stored, Needed, Alive, Files!Exists
<1> QED
  BY <1>1, <1>5, <1>6, <1>7 DEF FilesInv

-----------------------------------------------------------------------------

LEMMA FilesStart == Files!Init => FilesInv
<1> SUFFICES ASSUME Files!Init PROVE FilesInv
  OBVIOUS
<1>1. row = [u \in FileUploads |-> Files!NoRow] /\ Files!NoRow \in Row
  BY DEF Files!Init, Files!NoRow, Row
<1>2. /\ cleanup \in [content : Contents \cup {None}, due : SUBSET FileUploads,
                      step : {"idle", "locked", "deleting", "rows"}]
      /\ cleanup.step = "idle"
  BY DEF Files!Init, Files!Idle
<1>3. \A u \in FileUploads : row[u].stage = "none" /\ ~row[u].linked /\ ~row[u].expired
  BY <1>1 DEF Files!NoRow
<1>4. Files!TypeOK
  BY <1>1, <1>2, <1>3 DEF Files!Init, Files!TypeOK, Row, Files!Exists
<1>5. Held /\ Stored
  BY <1>2, <1>3 DEF Files!Init, Held, Stored, Needed
<1> QED
  BY <1>4, <1>5 DEF FilesInv

LEMMA FilesStep == FilesInv /\ [Files!Next]_(Files!avars) => FilesInv'
<1> SUFFICES ASSUME FilesInv, [Files!Next]_(Files!avars) PROVE FilesInv'
  OBVIOUS
<1> USE DEF FilesInv, Files!TypeOK, Held, Stored, Needed, Alive, Files!Exists
<1>1. ASSUME NEW u \in FileUploads, Files!BeginUpload(u) PROVE FilesInv'
  BY <1>1 DEF Files!BeginUpload
<1>2. ASSUME NEW c \in Contents, NEW stored \in BOOLEAN, Files!StoreUpload(c, stored)
             PROVE FilesInv'
  BY <1>2 DEF Files!StoreUpload
<1>3. ASSUME NEW u \in FileUploads, Files!Inspect(u) PROVE FilesInv'
  BY <1>3 DEF Files!Inspect, Files!Inspectable
<1>4. ASSUME NEW u \in FileUploads, Files!BeginLink(u) PROVE FilesInv'
  BY <1>4 DEF Files!BeginLink
<1>5. CASE Files!Restart
  <2>1. /\ cleanup' \in [content : Contents \cup {None}, due : SUBSET FileUploads,
                         step : {"idle", "locked", "deleting", "rows"}]
        /\ cleanup'.step = "idle"
    BY <1>5 DEF Files!Restart, Files!Idle
  <2> QED
    BY <1>5, <2>1 DEF Files!Restart
<1>6. CASE UNCHANGED Files!avars
  BY <1>6 DEF Files!avars
<1> QED
  BY <1>1, <1>2, <1>3, <1>4, <1>5, <1>6, ReserveKeeps, CompleteKeeps, LinkKeeps,
     DeleteMessageKeeps, ExpireKeeps, LockKeeps, CheckKeeps, DeleteObjectKeeps,
     DeleteRowsKeeps DEF Files!Next

(***************************************************************************)
(* Every state the attachments can be in is well-formed: a message that is *)
(* being created holds rows that are complete and not linked to another    *)
(* one, whatever the cleanup and other requests do meanwhile.              *)
(***************************************************************************)
LEMMA FilesTyped == Files!Spec => []Files!TypeOK
<1>1. FilesInv => Files!TypeOK
  BY DEF FilesInv
<1> QED
  BY <1>1, FilesStart, FilesStep, PTL DEF Files!Spec

(***************************************************************************)
(* The file of a message, and of an upload that a message may still link,  *)
(* is stored, however many uploads share it and wherever the cleanup,      *)
(* the requests and a restart interleave, unless a reservation ran out     *)
(* while a message was linking it (cleanup_expired_attachments).           *)
(***************************************************************************)
LEMMA FilesStayThm == Files!Spec => []Files!FilesStay
<1>1. FilesInv => Files!FilesStay
  BY DEF FilesInv, Stored, Files!FilesStay, Needed
<1> QED
  BY <1>1, FilesStart, FilesStep, PTL DEF Files!Spec

-----------------------------------------------------------------------------
(***************************************************************************)
(* Registration.  An account and a profile need each other's past: what    *)
(* the request of a person knows of its account (Consistent), and that two *)
(* persons who chose one name have not both an account with a password     *)
(* (Apart).                                                                *)
(***************************************************************************)

RequestType ==
    [step : {"idle", "lock", "check", "create", "compare", "insert"},
     attempt : 0 .. MaxTries, created : BOOLEAN, name : Nicknames \cup {None, Names!Suffixed}]

\* a person's account, profile and request
Consistent(p) ==
    /\ request[p].created => auth[p] = "password"
    /\ request[p].step \in {"compare", "insert"} => auth[p] # "none"
    /\ profile[p] # None => auth[p] # "none"
    /\ profile[p] \in {None, Own[p], Names!Suffixed}
    /\ request[p].step = "insert" => request[p].name \in {Own[p], Names!Suffixed}
    /\ request[p].step = "insert" /\ request[p].name = Names!Suffixed /\ auth[p] = "password"
          => p \in overtaken
    /\ profile[p] = Names!Suffixed /\ auth[p] = "password" => p \in overtaken

\* two persons who choose the same name
Apart(p, q) ==
    /\ auth[p] = "password" /\ auth[q] = "password" => Own[p] # Own[q]
    /\ profile[q] = Own[p] /\ (auth[p] = "password" \/ (Names!At(p, "create") /\ auth[q] = "code"))
          => p \in overtaken

-----------------------------------------------------------------------------
LEMMA AgainIs ==
    ASSUME Names!Parameters, NEW r \in RequestType
    PROVE  /\ Names!Again(r) \in RequestType /\ Names!Again(r).step \in {"lock", "idle"}
           /\ Names!Again(r).created => r.created
           /\ Names!Again(r).step = "lock" => Names!Again(r).attempt > 0
           /\ Names!Again(r).step = "idle" => Names!Again(r).attempt = 0
<1>1. CASE r.attempt \in 1 .. MaxTries - 1
  <2>1. PICK x : x = [r EXCEPT !.step = "lock"]
    OBVIOUS
  <2>2. x \in RequestType /\ x.step = "lock" /\ x.created = r.created /\ x.attempt = r.attempt
    BY <2>1 DEF RequestType
  <2>3. Names!Again(r) = [x EXCEPT !.attempt = @ + 1]
    BY <1>1, <2>1 DEF Names!Again
  <2> QED BY <1>1, <2>2, <2>3 DEF RequestType, Names!Parameters
<1>2. CASE r.attempt \notin 1 .. MaxTries - 1
  BY <1>2 DEF Names!Again, RequestType, Names!Parameters, Names!Idle
<1> QED BY <1>1, <1>2

\* a request that is given up or repeated
LEMMA Retried ==
    ASSUME Names!Parameters, Names!TypeOK, NEW p \in Persons, Names!Retry(p)
    PROVE  /\ request' \in [Persons -> RequestType]
           /\ \A q \in Persons \ {p} : request'[q] = request[q]
           /\ request'[p].step \in {"lock", "idle"}
           /\ request'[p].created => request[p].created
           /\ request'[p].step = "lock" => request'[p].attempt > 0
           /\ request'[p].step = "idle" => request'[p].attempt = 0
           /\ lock' = IF lock = p THEN None ELSE lock
<1>1. request \in [Persons -> RequestType]
  BY DEF Names!TypeOK, RequestType
<1> QED BY <1>1, AgainIs DEF Names!Retry, Names!Unlock

LEMMA Ended ==
    ASSUME Names!Parameters, Names!TypeOK, NEW p \in Persons, Names!End(p)
    PROVE  /\ request' \in [Persons -> RequestType]
           /\ \A q \in Persons \ {p} : request'[q] = request[q]
           /\ request'[p].step = "idle" /\ ~request'[p].created /\ request'[p].attempt = 0
           /\ lock' = IF lock = p THEN None ELSE lock
<1>1. request \in [Persons -> RequestType]
  BY DEF Names!TypeOK, RequestType
<1>2. /\ Names!Idle \in RequestType /\ Names!Idle.step = "idle"
      /\ ~Names!Idle.created /\ Names!Idle.attempt = 0
  BY DEF Names!Idle, RequestType, Names!Parameters
<1> QED BY <1>1, <1>2 DEF Names!End, Names!Unlock

-----------------------------------------------------------------------------
\* a step of one request that writes nothing
Waits(p) ==
    /\ UNCHANGED <<auth, profile, refused, overtaken>>
    /\ request' \in [Persons -> RequestType]
    /\ \A q \in Persons \ {p} : request'[q] = request[q]
    /\ request'[p].created => request[p].created
    /\ request'[p].step \in {"idle", "lock", "check"}

\* the properties of the tables, without the types
Kept ==
    /\ refused \subseteq overtaken
    /\ \A p \in Persons : Consistent(p)
    /\ \A p, q \in Persons : p # q => Apart(p, q)

LEMMA WaitsKeep ==
    ASSUME Kept, NEW p \in Persons, Waits(p) PROVE Kept'
BY DEF Kept, Waits, Consistent, Apart, Names!At

LEMMA KeptStep ==
    ASSUME Names!Parameters, Names!TypeOK, Kept, Names!Next PROVE Kept'
<1>0. request \in [Persons -> RequestType]
  BY DEF Names!TypeOK, RequestType
<1>1. ASSUME NEW p \in Persons, Names!Register(p) PROVE Kept'
  <2>1. PICK r : r = [step |-> "lock", attempt |-> 1, created |-> FALSE, name |-> None]
    OBVIOUS
  <2>2. r.step = "lock" /\ ~r.created
    BY <2>1
  <2>3. request' = [request EXCEPT ![p] = r] /\ UNCHANGED <<auth, profile, refused, overtaken>>
    BY <1>1, <2>1 DEF Names!Register
  <2>4. /\ \A q \in Persons \ {p} : request'[q] = request[q]
        /\ request'[p] = r
    BY <1>0, <2>3
  <2> QED BY <2>2, <2>3, <2>4 DEF Kept, Consistent, Apart, Names!At
<1>2. ASSUME NEW p \in Persons, Names!TakeLock(p) PROVE Kept'
  <2>1. Waits(p)
    BY <1>0, <1>2 DEF Names!TakeLock, Names!Go, Waits, RequestType
  <2> QED BY <2>1, WaitsKeep
<1>3. ASSUME NEW p \in Persons, Names!CheckName(p) PROVE Kept'
  <2>1. /\ UNCHANGED <<auth, profile, refused, overtaken>> /\ Names!Available(p)
        /\ \A q \in Persons \ {p} : request'[q] = request[q]
        /\ request'[p].created = request[p].created /\ request'[p].step = "create"
    BY <1>0, <1>3 DEF Names!CheckName, Names!Go, RequestType
  <2>2. \A q \in Persons : q # p => profile[q] # Own[p]
    BY <2>1 DEF Names!Available
  <2> QED BY <2>1, <2>2 DEF Kept, Consistent, Apart, Names!At
<1>4. ASSUME NEW p \in Persons, Names!CreateAccount(p) PROVE Kept'
  <2>1. /\ UNCHANGED <<profile, refused, overtaken>>
        /\ Names!At(p, "create") /\ auth' = [auth EXCEPT ![p] = "password"]
        /\ (auth[p] = "none" /\ Names!Unclaimed(p)) \/ auth[p] = "password"
        /\ \A q \in Persons \ {p} : request'[q] = request[q]
        /\ request'[p].created /\ request'[p].step = "compare"
    BY <1>0, <1>4 DEF Names!CreateAccount, RequestType
  <2>2. /\ auth'[p] = "password" /\ \A q \in Persons \ {p} : auth'[q] = auth[q]
        /\ \A q \in Persons : auth[q] \in {"none", "code", "password"}
    BY <2>1 DEF Names!TypeOK
  <2>3. ASSUME NEW q \in Persons PROVE Consistent(q)'
    <3>1. CASE q = p
      BY <2>1, <2>2, <3>1 DEF Kept, Consistent, Names!Parameters
    <3>2. CASE q # p
      BY <2>1, <2>2, <3>2 DEF Kept, Consistent
    <3> QED BY <3>1, <3>2
  <2>4. ASSUME NEW q \in Persons, NEW x \in Persons, q # x PROVE Apart(q, x)'
    <3>1. CASE q = p
      <4>1. auth'[x] = "password" => Own[q] # Own[x]
        BY <2>1, <2>2, <2>4, <3>1 DEF Names!Unclaimed, Kept, Apart
      <4>2. profile[x] = Own[q] => q \in overtaken
        <5>1. CASE auth[q] = "password"
          BY <2>4, <5>1 DEF Kept, Apart
        <5>2. CASE auth[x] = "code"
          BY <2>1, <2>4, <3>1, <5>2 DEF Kept, Apart
        <5>3. CASE auth[q] = "none" /\ auth[x] = "password"
          <6>1. Own[x] # Own[q] /\ profile[x] \in {None, Own[x], Names!Suffixed}
            BY <2>1, <2>4, <3>1, <5>3 DEF Names!Unclaimed, Kept, Consistent
          <6> QED BY <6>1 DEF Names!Parameters
        <5>4. CASE auth[x] = "none"
          BY <5>4 DEF Kept, Consistent, Names!Parameters
        <5> QED BY <2>1, <2>2, <3>1, <5>1, <5>2, <5>3, <5>4
      <4> QED BY <2>1, <4>1, <4>2 DEF Apart
    <3>2. CASE x = p
      BY <2>1, <2>2, <2>4, <3>2 DEF Kept, Apart, Names!Unclaimed, Names!At
    <3>3. CASE q # p /\ x # p
      BY <2>1, <2>2, <2>4, <3>3 DEF Kept, Apart, Names!At
    <3> QED BY <3>1, <3>2, <3>3
  <2> QED BY <2>1, <2>3, <2>4 DEF Kept
<1>5. ASSUME NEW p \in Persons, Names!Refuse(p) PROVE Kept'
  <2>1. /\ UNCHANGED <<auth, profile, overtaken>>
        /\ \A q \in Persons \ {p} : request'[q] = request[q]
        /\ request'[p].step = "idle" /\ ~request'[p].created
    BY <1>5, Ended DEF Names!Refuse
  <2>2. request[p].created => p \in overtaken
    <3>1. SUFFICES ASSUME request[p].created PROVE p \in overtaken
      OBVIOUS
    <3>2. auth[p] = "password" /\ ~Names!Available(p)
      BY <1>5, <3>1 DEF Kept, Consistent, Names!Refuse
    <3>3. PICK q \in Persons : q # p /\ profile[q] = Own[p]
      BY <3>2 DEF Names!Available
    <3>4. Apart(p, q)
      BY <3>3 DEF Kept
    <3> QED BY <3>2, <3>3, <3>4 DEF Apart
  <2>3. refused' \subseteq overtaken'
    BY <1>5, <2>1, <2>2 DEF Names!Refuse, Kept
  <2> QED BY <2>1, <2>3 DEF Kept, Consistent, Apart, Names!At
<1>6. ASSUME NEW p \in Persons, Names!RegisterOverCode(p) PROVE Kept'
  <2>1. Waits(p)
    BY <1>6, Retried DEF Names!RegisterOverCode, Waits
  <2> QED BY <2>1, WaitsKeep
<1>7. ASSUME NEW p \in Persons, Names!SignIn(p) PROVE Kept'
  <2>1. /\ UNCHANGED <<auth, profile, refused, overtaken>> /\ auth[p] # "none"
        /\ \A q \in Persons \ {p} : request'[q] = request[q]
        /\ request'[p].created = request[p].created /\ request'[p].step = "compare"
    BY <1>0, <1>7 DEF Names!SignIn, Names!Go, RequestType
  <2> QED BY <2>1 DEF Kept, Consistent, Apart, Names!At
<1>8. ASSUME NEW p \in Persons, Names!FirstCode(p) PROVE Kept'
  <2>1. /\ UNCHANGED <<profile, refused, overtaken>> /\ auth[p] = "none"
        /\ auth' = [auth EXCEPT ![p] = "code"]
        /\ \A q \in Persons \ {p} : request'[q] = request[q]
        /\ request'[p].created = request[p].created /\ request'[p].step = "compare"
    BY <1>0, <1>8 DEF Names!FirstCode, Names!Go, RequestType
  <2>2. auth'[p] = "code" /\ \A q \in Persons \ {p} : auth'[q] = auth[q]
    BY <2>1 DEF Names!TypeOK
  <2>3. profile[p] = None /\ ~request[p].created
    BY <2>1 DEF Kept, Consistent
  <2>4. \A q \in Persons : Consistent(q)'
    BY <2>1, <2>2, <2>3 DEF Kept, Consistent
  <2>5. ASSUME NEW q \in Persons, NEW x \in Persons, q # x PROVE Apart(q, x)'
    <3>1. CASE x = p
      BY <2>1, <2>2, <2>3, <2>5, <3>1 DEF Kept, Apart, Names!Parameters
    <3>2. CASE x # p
      BY <2>1, <2>2, <2>5, <3>2 DEF Kept, Apart, Names!At
    <3> QED BY <3>1, <3>2
  <2> QED BY <2>1, <2>4, <2>5 DEF Kept
<1>9. ASSUME NEW p \in Persons, Names!CompareName(p) PROVE Kept'
  <2>1. /\ UNCHANGED <<auth, profile, refused, overtaken>> /\ request[p].step = "compare"
        /\ \A q \in Persons \ {p} : request'[q] = request[q]
        /\ request'[p].created = request[p].created /\ request'[p].step = "insert"
        /\ request'[p].name = IF Names!Available(p) THEN Own[p] ELSE Names!Suffixed
    BY <1>0, <1>9 DEF Names!CompareName, RequestType, Names!At
  <2>2. (~Names!Available(p) /\ auth[p] = "password") => p \in overtaken
    <3>1. SUFFICES ASSUME ~Names!Available(p), auth[p] = "password" PROVE p \in overtaken
      OBVIOUS
    <3>2. PICK q \in Persons : q # p /\ profile[q] = Own[p]
      BY <3>1 DEF Names!Available
    <3>3. Apart(p, q)
      BY <3>2 DEF Kept
    <3> QED BY <3>1, <3>2, <3>3 DEF Apart
  <2>3. Names!Suffixed # Own[p]
    BY DEF Names!Parameters
  <2>4. \A q \in Persons : Consistent(q)'
    BY <2>1, <2>2, <2>3 DEF Kept, Consistent
  <2> QED BY <2>1, <2>4 DEF Kept, Apart, Names!At
\* a name goes to the profile of p
<1>10. ASSUME NEW p \in Persons, Names!At(p, "insert"), profile[p] = None,
              profile' = [profile EXCEPT ![p] = request[p].name], UNCHANGED <<auth, refused>>,
              overtaken \subseteq overtaken',
              auth[p] # "password" => Names!Claimants(request[p].name) \subseteq overtaken',
              \A q \in Persons \ {p} : request'[q] = request[q],
              request'[p].created => request[p].created, request'[p].step \in {"idle", "lock"}
       PROVE  Kept'
  <2>1. /\ request[p].name \in {Own[p], Names!Suffixed} /\ auth[p] # "none"
        /\ request[p].name = Names!Suffixed /\ auth[p] = "password" => p \in overtaken
    BY <1>10 DEF Kept, Consistent, Names!At
  <2>2. profile'[p] = request[p].name /\ \A q \in Persons \ {p} : profile'[q] = profile[q]
    BY <1>10 DEF Names!TypeOK
  <2>3. ASSUME NEW q \in Persons PROVE Consistent(q)'
    <3>1. CASE q = p
      BY <1>10, <2>1, <2>2, <3>1 DEF Kept, Consistent
    <3>2. CASE q # p
      BY <1>10, <2>2, <3>2 DEF Kept, Consistent
    <3> QED BY <3>1, <3>2
  <2>4. ASSUME NEW q \in Persons, NEW x \in Persons, q # x PROVE Apart(q, x)'
    <3>1. CASE x = p
      <4>1. auth[q] = "password" /\ auth[x] = "password" => Own[q] # Own[x]
        BY <2>4 DEF Kept, Apart
      <4>2. SUFFICES ASSUME request[p].name = Own[q],
                            (auth[q] = "password" \/ (request'[q].step = "create"
                            /\ auth[x] = "code"))
                     PROVE  q \in overtaken'
        BY <1>10, <2>2, <3>1, <4>1 DEF Apart, Names!At
      <4>3. request[p].name = Own[p] /\ Own[p] = Own[q]
        BY <2>1, <4>2 DEF Names!Parameters
      <4>4. auth[p] # "password"
        BY <3>1, <4>1, <4>2, <4>3
      <4>5. q \in Names!Claimants(request[p].name)
        BY <1>10, <2>4, <3>1, <4>2, <4>3 DEF Names!Claimants, Names!At
      <4> QED BY <1>10, <4>4, <4>5
    <3>2. CASE x # p
      BY <1>10, <2>2, <2>4, <3>2 DEF Kept, Apart, Names!At
    <3> QED BY <3>1, <3>2
  <2> QED BY <1>10, <2>3, <2>4 DEF Kept
<1>11. ASSUME NEW p \in Persons, Names!InsertProfile(p) PROVE Kept'
  <2>1. /\ Names!At(p, "insert") /\ UNCHANGED <<auth, refused>>
        /\ \A q \in Persons \ {p} : request'[q] = request[q]
        /\ request'[p].step = "idle" /\ ~request'[p].created
    BY <1>11, Ended DEF Names!InsertProfile
  <2>2. CASE profile[p] = None
    <3>1. profile' = [profile EXCEPT ![p] = request[p].name]
          /\ overtaken' = IF auth[p] = "code" THEN overtaken \cup Names!Claimants(request[p].name)
                          ELSE overtaken
      BY <1>11, <2>2 DEF Names!InsertProfile
    <3>2. auth[p] # "password" => auth[p] = "code"
      BY <2>1 DEF Kept, Consistent, Names!At, Names!TypeOK
    <3> QED BY <1>10, <2>1, <2>2, <3>1, <3>2
  <2>3. CASE profile[p] # None
    <3>1. UNCHANGED <<profile, overtaken>>
      BY <1>11, <2>3 DEF Names!InsertProfile
    <3> QED BY <2>1, <3>1 DEF Kept, Consistent, Apart, Names!At
  <2> QED BY <2>2, <2>3
<1>12. ASSUME NEW p \in Persons, Names!InsertCollides(p) PROVE Kept'
  <2>1. Waits(p)
    BY <1>12, Retried DEF Names!InsertCollides, Waits
  <2> QED BY <2>1, WaitsKeep
<1>13. ASSUME NEW p \in Persons, Names!Fault(p) PROVE Kept'
  <2>1. CASE UNCHANGED profile
    <3>1. Waits(p)
      BY <1>13, <2>1, Retried DEF Names!Fault, Waits
    <3> QED BY <3>1, WaitsKeep
  <2>2. CASE /\ Names!At(p, "insert") /\ profile[p] = None /\ auth[p] = "password"
             /\ profile' = [profile EXCEPT ![p] = request[p].name]
    <3>1. UNCHANGED <<auth, refused, overtaken>> /\ Names!Retry(p)
      BY <1>13 DEF Names!Fault
    <3> QED BY <1>10, <2>2, <3>1, Retried
  <2> QED BY <1>13, <2>1, <2>2 DEF Names!Fault
<1>14. ASSUME Names!Restart PROVE Kept'
  <2>1. /\ UNCHANGED <<auth, profile, refused, overtaken>>
        /\ \A p \in Persons : /\ request'[p].step \in {"lock", "idle"}
                              /\ request'[p].created => request[p].created
    BY <1>0, <1>14, AgainIs DEF Names!Restart
  <2> QED BY <2>1 DEF Kept, Consistent, Apart, Names!At
<1> QED BY <1>1, <1>2, <1>3, <1>4, <1>5, <1>6, <1>7, <1>8, <1>9, <1>11, <1>12, <1>13,
   <1>14 DEF Names!Next

-----------------------------------------------------------------------------
NamesTyped ==
    /\ auth \in [Persons -> {"none", "code", "password"}]
    /\ profile \in [Persons -> Nicknames \cup {None, Names!Suffixed}]
    /\ \A p, q \in Persons :
          profile[p] = profile[q] => p = q \/ profile[p] \in {None, Names!Suffixed}
    /\ request \in [Persons -> RequestType]
    /\ \A p \in Persons :
          lock = p <=> request[p].attempt > 0 /\ request[p].step \notin {"lock", "idle"}
    /\ lock \in Persons \cup {None} /\ faults \in 0 .. MaxFaults
    /\ refused \subseteq Persons /\ overtaken \subseteq Persons
    /\ \A p \in Persons : /\ request[p].step = "lock" => request[p].attempt > 0
                          /\ request[p].step = "idle" => request[p].attempt = 0

LEMMA TypedIs == NamesTyped => Names!TypeOK
BY DEF NamesTyped, Names!TypeOK, RequestType

\* the lock of one request changes as its step does
LEMMA LockKept ==
    ASSUME Names!Parameters, NamesTyped, NEW p \in Persons, request' \in [Persons -> RequestType],
           \A q \in Persons \ {p} : request'[q] = request[q],
           lock' \in {lock, p} \/ (lock = p /\ lock' = None) ,
           lock' = p <=> (request'[p].attempt > 0 /\ request'[p].step \notin {"lock", "idle"}),
           lock' = p => lock \in {p, None}
    PROVE  /\ lock' \in Persons \cup {None}
           /\ \A q \in Persons :
                 lock' = q <=> (request'[q].attempt > 0 /\ request'[q].step \notin {"lock", "idle"})
<1>1. ASSUME NEW q \in Persons
      PROVE  lock' = q <=> (request'[q].attempt > 0 /\ request'[q].step \notin {"lock", "idle"})
  <2>1. CASE q = p
    BY <2>1
  <2>2. CASE q # p
    <3>1. lock' = q <=> lock = q
      BY <2>2 DEF NamesTyped, Names!Parameters
    <3> QED BY <2>2, <3>1 DEF NamesTyped
  <2> QED BY <2>1, <2>2
<1> QED BY <1>1 DEF NamesTyped

\* the request of one person and the lock change
Stepped(p) ==
    /\ request' \in [Persons -> RequestType]
    /\ \A q \in Persons \ {p} : request'[q] = request[q]
    /\ request'[p].step = "lock" => request'[p].attempt > 0
    /\ request'[p].step = "idle" => request'[p].attempt = 0
    /\ \/ lock' = lock /\ request'[p].attempt = request[p].attempt
          /\ (request'[p].step \in {"lock", "idle"} <=> request[p].step \in {"lock", "idle"})
       \/ lock' = lock /\ request'[p].step = "lock" /\ request[p].step = "idle"
       \/ lock' = lock /\ request'[p].attempt = 0 /\ request[p].step = "idle"
       \/ lock' = (IF lock = p THEN None ELSE lock) /\ request'[p].step \in {"lock", "idle"}
       \/ lock' = p /\ lock = None /\ request'[p].attempt > 0
          /\ request'[p].step \notin {"lock", "idle"}

LEMMA SteppedKeeps ==
    ASSUME Names!Parameters, NamesTyped, NEW p \in Persons, Stepped(p)
    PROVE  /\ request' \in [Persons -> RequestType] /\ lock' \in Persons \cup {None}
           /\ \A q \in Persons :
                 /\ lock' = q <=> (request'[q].attempt > 0 /\ request'[q].step \notin {"lock",
                    "idle"})
                 /\ request'[q].step = "lock" => request'[q].attempt > 0
                 /\ request'[q].step = "idle" => request'[q].attempt = 0
<1>1. /\ lock' \in {lock, p} \/ (lock = p /\ lock' = None)
      /\ lock' = p <=> (request'[p].attempt > 0 /\ request'[p].step \notin {"lock", "idle"})
      /\ lock' = p => lock \in {p, None}
  <2>1. /\ lock = p <=> (request[p].attempt > 0 /\ request[p].step \notin {"lock", "idle"})
        /\ request[p].step = "idle" => request[p].attempt = 0
    BY DEF NamesTyped
  <2>2. p # None /\ request'[p] \in RequestType
    BY DEF Names!Parameters, Stepped
  <2> QED BY <2>1, <2>2 DEF Stepped
<1> QED BY <1>1, LockKept DEF Stepped, NamesTyped

LEMMA TypedStep ==
    ASSUME Names!Parameters, NamesTyped, Names!Next PROVE NamesTyped'
<1>0. request \in [Persons -> RequestType] /\ Names!TypeOK
  BY TypedIs DEF NamesTyped
<1>1. ASSUME NEW p \in Persons, Stepped(p),
             auth' \in [Persons -> {"none", "code", "password"}],
             profile' \in [Persons -> Nicknames \cup {None, Names!Suffixed}],
             \A x, q \in Persons :
                profile'[x] = profile'[q] => x = q \/ profile'[x] \in {None, Names!Suffixed},
             faults' \in 0 .. MaxFaults, refused' \subseteq Persons, overtaken' \subseteq Persons
      PROVE  NamesTyped'
  BY <1>1, SteppedKeeps DEF NamesTyped
<1>2. ASSUME NEW p \in Persons,
             Names!Register(p) \/ Names!TakeLock(p) \/ Names!CheckName(p)
                \/ Names!CreateAccount(p) \/ Names!SignIn(p) \/ Names!FirstCode(p)
                \/ Names!CompareName(p) \/ Names!Refuse(p)
                \/ Names!RegisterOverCode(p) \/ Names!InsertCollides(p)
      PROVE  NamesTyped'
  <2>1. auth' \in [Persons -> {"none", "code", "password"}]
    BY <1>2 DEF NamesTyped, Names!Register, Names!TakeLock, Names!CheckName,
       Names!CreateAccount, Names!SignIn, Names!FirstCode, Names!CompareName,
                Names!Refuse, Names!RegisterOverCode, Names!InsertCollides
  <2>2. UNCHANGED <<profile, faults, overtaken>> /\ refused' \subseteq refused \cup {p}
    BY <1>2 DEF Names!Register, Names!TakeLock, Names!CheckName, Names!CreateAccount,
       Names!SignIn, Names!FirstCode, Names!CompareName,
                Names!Refuse, Names!RegisterOverCode, Names!InsertCollides
  <2>3. Stepped(p)
    <3>1. CASE Names!Register(p)
      <4>1. PICK r : r = [step |-> "lock", attempt |-> 1, created |-> FALSE, name |-> None]
        OBVIOUS
      <4>2. r \in RequestType /\ r.step = "lock" /\ r.attempt = 1
        BY <4>1 DEF RequestType, Names!Parameters
      <4>3. request' = [request EXCEPT ![p] = r] /\ lock' = lock /\ request[p].step = "idle"
        BY <3>1, <4>1 DEF Names!Register, Names!At
      <4> QED BY <1>0, <4>2, <4>3 DEF Stepped
    <3>2. CASE Names!TakeLock(p)
      <4>1. /\ request' \in [Persons -> RequestType] /\ request'[p].step = "check"
            /\ request'[p].attempt = request[p].attempt
            /\ \A q \in Persons \ {p} : request'[q] = request[q]
            /\ lock' = p /\ lock = None /\ request[p].step = "lock"
        BY <1>0, <3>2 DEF Names!TakeLock, Names!Go, Names!At, RequestType
      <4> QED BY <4>1 DEF Stepped, NamesTyped
    <3>3. CASE Names!CheckName(p)
      <4>1. /\ request' \in [Persons -> RequestType] /\ request'[p].step = "create"
            /\ request'[p].attempt = request[p].attempt
            /\ \A q \in Persons \ {p} : request'[q] = request[q]
            /\ lock' = lock /\ request[p].step = "check"
        BY <1>0, <3>3 DEF Names!CheckName, Names!Go, Names!At, RequestType
      <4> QED BY <4>1 DEF Stepped
    <3>4. CASE Names!CreateAccount(p)
      <4>1. PICK f : f = [request EXCEPT ![p].step = "compare"]
        OBVIOUS
      <4>2. /\ f \in [Persons -> RequestType] /\ f[p].step = "compare"
            /\ f[p].attempt = request[p].attempt
            /\ \A q \in Persons \ {p} : f[q] = request[q]
        BY <1>0, <4>1 DEF RequestType
      <4>3. request' = [f EXCEPT ![p].created = TRUE] /\ lock' = lock /\ request[p].step = "create"
        BY <3>4, <4>1 DEF Names!CreateAccount, Names!At
      <4>4. /\ request' \in [Persons -> RequestType] /\ request'[p].step = "compare"
            /\ request'[p].attempt = request[p].attempt
            /\ \A q \in Persons \ {p} : request'[q] = request[q]
        BY <4>2, <4>3 DEF RequestType
      <4> QED BY <4>3, <4>4 DEF Stepped
    <3>5. CASE Names!SignIn(p) \/ Names!FirstCode(p)
      <4>1. /\ request' \in [Persons -> RequestType] /\ request'[p].step = "compare"
            /\ request'[p].attempt = request[p].attempt
            /\ \A q \in Persons \ {p} : request'[q] = request[q]
            /\ lock' = lock /\ request[p].step = "idle"
        BY <1>0, <3>5 DEF Names!SignIn, Names!FirstCode, Names!Go, Names!At, RequestType
      <4> QED BY <4>1 DEF Stepped, NamesTyped
    <3>6. CASE Names!CompareName(p)
      <4>1. PICK f, n : /\ f = [request EXCEPT ![p].step = "insert"]
                        /\ n = IF Names!Available(p) THEN Own[p] ELSE Names!Suffixed
        OBVIOUS
      <4>2. /\ f \in [Persons -> RequestType] /\ f[p].step = "insert"
            /\ f[p].attempt = request[p].attempt
            /\ \A q \in Persons \ {p} : f[q] = request[q]
        BY <1>0, <4>1 DEF RequestType
      <4>3. request' = [f EXCEPT ![p].name = n] /\ lock' = lock /\ request[p].step = "compare"
            /\ n \in Nicknames \cup {None, Names!Suffixed}
        BY <3>6, <4>1 DEF Names!CompareName, Names!At, Names!Parameters
      <4>4. /\ request' \in [Persons -> RequestType] /\ request'[p].step = "insert"
            /\ request'[p].attempt = request[p].attempt
            /\ \A q \in Persons \ {p} : request'[q] = request[q]
        BY <4>2, <4>3 DEF RequestType
      <4> QED BY <4>3, <4>4 DEF Stepped
    <3>7. CASE Names!Refuse(p)
      BY <1>0, <3>7, Ended DEF Stepped, Names!Refuse
    <3>8. CASE Names!RegisterOverCode(p) \/ Names!InsertCollides(p)
      BY <1>0, <3>8, Retried DEF Stepped, Names!RegisterOverCode, Names!InsertCollides
    <3> QED BY <1>2, <3>1, <3>2, <3>3, <3>4, <3>5, <3>6, <3>7, <3>8
  <2> QED BY <1>1, <2>1, <2>2, <2>3 DEF NamesTyped
\* a name that nobody has, or one that does not count, goes to a profile
<1>3. ASSUME NEW p \in Persons, profile' = [profile EXCEPT ![p] = request[p].name],
             \A q \in Persons : request[p].name # Names!Suffixed => profile[q] # request[p].name
      PROVE  /\ profile' \in [Persons -> Nicknames \cup {None, Names!Suffixed}]
             /\ \A x, q \in Persons :
                   profile'[x] = profile'[q] => x = q \/ profile'[x] \in {None, Names!Suffixed}
  BY <1>0, <1>3 DEF NamesTyped, RequestType
<1>4. ASSUME NEW p \in Persons, Names!InsertProfile(p) PROVE NamesTyped'
  <2>1. Stepped(p)
    BY <1>0, <1>4, Ended DEF Names!InsertProfile, Stepped
  <2>2. UNCHANGED <<auth, faults, refused>> /\ overtaken' \subseteq Persons
    BY <1>4 DEF Names!InsertProfile, Names!Claimants, NamesTyped
  <2>3. CASE profile[p] = None
    <3>1. profile' = [profile EXCEPT ![p] = request[p].name]
          /\ \A q \in Persons : request[p].name # Names!Suffixed => profile[q] # request[p].name
      BY <1>4, <2>3 DEF Names!InsertProfile
    <3> QED BY <1>1, <1>3, <2>1, <2>2, <3>1 DEF NamesTyped
  <2>4. CASE profile[p] # None
    <3>1. UNCHANGED profile
      BY <1>4, <2>4 DEF Names!InsertProfile
    <3> QED BY <1>1, <2>1, <2>2, <3>1 DEF NamesTyped
  <2> QED BY <2>3, <2>4
<1>5. ASSUME NEW p \in Persons, Names!Fault(p) PROVE NamesTyped'
  <2>1. Stepped(p) /\ UNCHANGED <<auth, refused, overtaken>>
    BY <1>0, <1>5, Retried DEF Names!Fault, Stepped
  <2>2. faults' \in 0 .. MaxFaults
    BY <1>5 DEF Names!Fault, NamesTyped, Names!Parameters
  <2>3. CASE UNCHANGED profile
    BY <1>1, <2>1, <2>2, <2>3 DEF NamesTyped
  <2>4. CASE /\ profile' = [profile EXCEPT ![p] = request[p].name]
             /\ request[p].name = Names!Suffixed \/ \A q \in Persons : profile[q] # request[p].name
    BY <1>1, <1>3, <2>1, <2>2, <2>4 DEF NamesTyped
  <2> QED BY <1>5, <2>3, <2>4 DEF Names!Fault
<1>6. ASSUME Names!Restart PROVE NamesTyped'
  <2>1. /\ request' \in [Persons -> RequestType]
        /\ \A p \in Persons : /\ request'[p].step \in {"lock", "idle"}
                              /\ request'[p].step = "lock" => request'[p].attempt > 0
                              /\ request'[p].step = "idle" => request'[p].attempt = 0
    BY <1>0, <1>6, AgainIs DEF Names!Restart
  <2>2. lock' = None /\ faults' \in 0 .. MaxFaults /\ UNCHANGED <<auth, profile, refused,
        overtaken>>
    BY <1>6 DEF Names!Restart, NamesTyped, Names!Parameters
  <2>3. \A p \in Persons : lock' # p
    BY <2>2 DEF Names!Parameters
  <2> QED BY <2>1, <2>2, <2>3 DEF NamesTyped
<1> QED BY <1>2, <1>4, <1>5, <1>6 DEF Names!Next

-----------------------------------------------------------------------------
RegistrationInv == NamesTyped /\ Kept

LEMMA NamesStart == ASSUME Names!Parameters, Names!Init PROVE RegistrationInv
<1>1. /\ Names!Idle \in RequestType /\ Names!Idle.step = "idle"
      /\ ~Names!Idle.created /\ Names!Idle.attempt = 0
  BY DEF Names!Idle, RequestType, Names!Parameters
<1>2. /\ request = [p \in Persons |-> Names!Idle] /\ auth = [p \in Persons |-> "none"]
      /\ profile = [p \in Persons |-> None] /\ refused = {} /\ overtaken = {}
      /\ lock = None /\ faults = 0
  BY DEF Names!Init
<1>3. NamesTyped
  BY <1>1, <1>2 DEF NamesTyped, Names!Parameters
<1>4. Kept
  BY <1>1, <1>2 DEF Kept, Consistent, Apart, Names!At, Names!Parameters
<1> QED BY <1>3, <1>4 DEF RegistrationInv

LEMMA NamesStep ==
    ASSUME Names!Parameters, RegistrationInv, [Names!Next]_(Names!zvars)
    PROVE  RegistrationInv'
<1>1. CASE UNCHANGED Names!zvars
  BY <1>1 DEF Names!zvars, RegistrationInv, NamesTyped, Kept, Consistent, Apart, Names!At
<1>2. CASE Names!Next
  BY <1>2, TypedIs, TypedStep, KeptStep DEF RegistrationInv
<1> QED BY <1>1, <1>2

LEMMA RetriesAreRecognisedThm ==
    ASSUME Names!Parameters PROVE Names!Spec => []Names!RetriesAreRecognised
<1>1. RegistrationInv => Names!RetriesAreRecognised
  BY DEF RegistrationInv, Kept, Names!RetriesAreRecognised
<1> QED BY <1>1, NamesStart, NamesStep, PTL DEF Names!Spec

LEMMA NamesAreKeptThm ==
    ASSUME Names!Parameters PROVE Names!Spec => [](Names!TypeOK /\ Names!NamesAreKept)
<1>1. RegistrationInv => Names!TypeOK /\ Names!NamesAreKept
  BY TypedIs DEF RegistrationInv, Kept, Consistent, Names!NamesAreKept
<1> QED BY <1>1, NamesStart, NamesStep, PTL DEF Names!Spec

-----------------------------------------------------------------------------
(* SignIn *)
Anyone == Emails \cup {"none"}
FromCode(n) == <<"code", n>>
FromFlow(f) == <<"flow", f>>
FromPassword == <<"password">>
Origin == {FromPassword} \cup {FromCode(n) : n \in 1 .. MaxCodes}
              \cup {FromFlow(f) : f \in Flows}

AccountType == [known : BOOLEAN, verified : BOOLEAN, password : 0 .. MaxAccountPasswords]
CodeType == [id : 0 .. MaxCodes, attempts : 0 .. MaxCodeAttempts, open : BOOLEAN]
FlowType == [phase : Sign!Phases, kind : {"login", "link"}, user : Anyone,
             session : Nat, era : Nat]
SessionType == [id : Nat, user : Emails, live : BOOLEAN, from : Origin]
ProofType == [for : {"link", "unlink"}, user : Emails, session : Nat, password : Nat]

\* the sessions are numbered in the order they were issued in
Numbered(S) ==
    /\ Cardinality(S) \in Nat /\ IsFiniteSet(S)
    /\ \A r \in S : r.id \in 1 .. Cardinality(S)
    /\ \A r, t \in S : r.id = t.id => r = t
    /\ \A i \in 1 .. Cardinality(S) : \E r \in S : r.id = i

Origins(S) == {r.from : r \in S}

Sessions(S) ==
    /\ S \subseteq SessionType /\ Numbered(S)
    /\ \A r, t \in S : r.from = t.from => r = t \/ r.from = FromPassword

-----------------------------------------------------------------------------
(* Sets of sessions *)

LEMMA SameCount == \A S : Sign!Cardinality(S) = Cardinality(S)
BY DEF Sign!Cardinality, Cardinality

LEMMA OriginsApart ==
    /\ \A n, m : FromCode(n) = FromCode(m) => n = m
    /\ \A f, g : FromFlow(f) = FromFlow(g) => f = g
    /\ \A n, f : /\ FromCode(n) # FromFlow(f) /\ FromCode(n) # FromPassword
                  /\ FromFlow(f) # FromPassword
BY DEF FromCode, FromFlow, FromPassword

LEMMA Counted ==
    ASSUME NEW S, NEW n \in Nat,
           \A r \in S : r.id \in 1 .. n,
           \A r, t \in S : r.id = t.id => r = t,
           \A i \in 1 .. n : \E r \in S : r.id = i
    PROVE  IsFiniteSet(S) /\ Cardinality(S) = n
<1> DEFINE g == [r \in S |-> r.id]
<1>1. g \in [S -> 1 .. n]
  OBVIOUS
<1>2. g \in Bijection(S, 1 .. n)
  BY <1>1, Fun_IsBij
<1>3. ExistsBijection(S, 1 .. n)
  BY <1>2 DEF ExistsBijection
<1>4. ExistsBijection(1 .. n, S)
  BY <1>3, Fun_ExistsBijSymmetric
<1> QED BY <1>4, FS_CountingElements, FS_NatBijection

\* the sessions that are left when some have ended
LEMMA WithoutKeeps ==
    ASSUME Sessions(sessions), NEW ended, ended \subseteq sessions,
           NEW W, W = Sign!Without(ended)
    PROVE  /\ Sessions(W) /\ Cardinality(W) = Cardinality(sessions)
           /\ Origins(W) = Origins(sessions)
           /\ \A w \in W : w.live => w \in sessions \ ended
           /\ \A w \in W : \E r \in sessions : w.user = r.user
<1> DEFINE n == Cardinality(sessions)
           over(r) == [r EXCEPT !.live = FALSE]
<1>1. \A r \in sessions : /\ over(r).id = r.id /\ over(r).user = r.user
                          /\ over(r).from = r.from /\ over(r).live = FALSE
                          /\ over(r) \in SessionType
  BY DEF Sessions, SessionType
<1>2. W = (sessions \ ended) \cup {over(r) : r \in ended}
  BY DEF Sign!Without
<1> HIDE DEF over
<1>3. \A w \in W : \E r \in sessions :
          /\ w.id = r.id /\ w.user = r.user /\ w.from = r.from
          /\ (r \in ended => w = over(r)) /\ (r \notin ended => w = r)
  BY <1>1, <1>2
<1>4. \A r \in sessions : \E w \in W : w.id = r.id /\ w.from = r.from
  BY <1>1, <1>2
<1>5. W \subseteq SessionType /\ n \in Nat
  BY <1>1, <1>2 DEF Sessions, Numbered
<1>6. /\ \A w \in W : w.id \in 1 .. n
      /\ \A i \in 1 .. n : \E w \in W : w.id = i
  BY <1>3, <1>4 DEF Sessions, Numbered
<1>7. \A w, x \in W : w.id = x.id => w = x
  BY <1>3 DEF Sessions, Numbered
<1>8. Cardinality(W) = n /\ IsFiniteSet(W)
  BY <1>5, <1>6, <1>7, Counted
<1>9. \A w, x \in W : w.from = x.from => w = x \/ w.from = FromPassword
  BY <1>3 DEF Sessions
<1>10. Origins(W) = Origins(sessions)
  BY <1>3, <1>4 DEF Origins
<1>11. \A w \in W : w.live => w \in sessions \ ended
  BY <1>1, <1>2
<1>12. Sessions(W)
  BY <1>5, <1>6, <1>7, <1>8, <1>9 DEF Sessions, Numbered
<1> QED BY <1>3, <1>8, <1>10, <1>11, <1>12

\* a session that is issued for something new
LEMMA IssuedKeeps ==
    ASSUME NEW K, Sessions(K), NEW e \in Emails, NEW from \in Origin,
           from = FromPassword \/ from \notin Origins(K),
           NEW I, I = Sign!Issued(K, e, from)
    PROVE  /\ Sessions(I) /\ Cardinality(I) = Cardinality(K) + 1
           /\ Origins(I) = Origins(K) \cup {from}
           /\ \E t \in I : /\ I = K \cup {t} /\ t.id = Cardinality(K) + 1
                           /\ t.user = e /\ t.live /\ t.from = from
<1> DEFINE n == Cardinality(K)
<1>1. PICK t : t = [id |-> n + 1, user |-> e, live |-> TRUE, from |-> from]
  OBVIOUS
<1>2. t.id = n + 1 /\ t.user = e /\ t.live /\ t.from = from
  BY <1>1
<1>3. I = K \cup {t}
  BY <1>1, SameCount DEF Sign!Issued
<1>4. n \in Nat /\ IsFiniteSet(K) /\ K \subseteq SessionType /\ \A r \in K : r.id \in 1 .. n
  BY DEF Sessions, Numbered
<1>5. t \in SessionType
  BY <1>1, <1>4 DEF SessionType
<1>6. t \notin K
  BY <1>2, <1>4
<1>7. Cardinality(I) = n + 1 /\ IsFiniteSet(I)
  BY <1>3, <1>4, <1>6, FS_AddElement
<1>8. Numbered(I)
  <2>1. \A r \in I : r.id \in 1 .. n + 1
    BY <1>2, <1>3, <1>4
  <2>2. \A r, x \in I : r.id = x.id => r = x
    BY <1>2, <1>3, <1>4 DEF Sessions, Numbered
  <2>3. ASSUME NEW i \in 1 .. n + 1 PROVE \E r \in I : r.id = i
    BY <1>2, <1>3, <1>4 DEF Sessions, Numbered
  <2> QED BY <1>4, <1>7, <2>1, <2>2, <2>3 DEF Numbered
<1>9. Origins(I) = Origins(K) \cup {from}
  BY <1>2, <1>3 DEF Origins
<1>10. \A r, x \in I : r.from = x.from => r = x \/ r.from = FromPassword
  BY <1>2, <1>3 DEF Sessions, Origins
<1>11. Sessions(I)
  BY <1>3, <1>4, <1>5, <1>8, <1>10 DEF Sessions
<1> QED BY <1>2, <1>3, <1>7, <1>9, <1>11

-----------------------------------------------------------------------------
(* The invariant *)

Accounts ==
    /\ account \in [Emails -> AccountType] /\ recoveries \in [Emails -> Nat]
    /\ \A e \in Emails : recoveries[e] <= account[e].password
    /\ \A e \in Emails : account[e].password > 0 => account[e].known

Identities ==
    /\ link \in [Subjects -> Anyone]
    /\ \A s \in Subjects : link[s] # "none" => account[link[s]].known
    /\ \A s, t \in Subjects : link[s] = link[t] => link[s] = "none" \/ s = t

Owned == \A r \in sessions : account[r.user].known

\* two challenges differ, and only one with a number can be open
Challenges ==
    /\ code \in [Emails -> CodeType] /\ mail \subseteq 1 .. MaxCodes
    /\ \A e \in Emails : code[e].open => code[e].id > 0
    /\ \A e, x \in Emails : code[e].id = code[x].id => e = x \/ code[e].id = 0

\* a code a session was issued for is an earlier one, or is used up
CodesSpent ==
    \A n \in 1 .. MaxCodes : FromCode(n) \in Origins(sessions) =>
        /\ \E x \in Emails : n <= code[x].id
        /\ \A x \in Emails : code[x].id = n => ~code[x].open

FlowsTyped ==
    /\ flow \in [Flows -> FlowType] /\ proved \subseteq ProofType
    /\ callbacks \subseteq [flow : Flows, subject : Subjects]
    /\ \A f \in Flows : flow[f].kind = "link" => flow[f].user \in Emails

HandedOnce ==
    /\ handed \in [Flows -> {0, 1}]
    /\ \A f \in Flows : handed[f] = 1 => flow[f].phase = "closed"

FlowsSpent ==
    \A f \in Flows :
        FromFlow(f) \in Origins(sessions) => flow[f].phase \in {"completed", "closed"}

\* a link was begun since the last recovery, or its session has ended
SessionLives(f) == Sign!IsLive(flow[f].session, flow[f].user)
Linking ==
    \A f \in Flows : flow[f].phase = "open" /\ flow[f].kind = "link" =>
        /\ flow[f].session \in 1 .. Cardinality(sessions)
        /\ SessionLives(f) => flow[f].era = recoveries[flow[f].user]

SignInv ==
    /\ Sessions(sessions) /\ Accounts /\ Identities /\ Owned
    /\ Challenges /\ CodesSpent
    /\ FlowsTyped /\ HandedOnce /\ FlowsSpent /\ Linking

-----------------------------------------------------------------------------
\* one account changes
LEMMA AccountKept ==
    ASSUME Sign!Parameters, SignInv, NEW e \in Emails, NEW a \in AccountType,
           account' = [account EXCEPT ![e] = a],
           account[e].known => a.known, a.password > 0 => a.known,
           recoveries' \in [Emails -> Nat],
           \A x \in Emails \ {e} : recoveries'[x] = recoveries[x],
           recoveries'[e] <= a.password
    PROVE  /\ Accounts' /\ account'[e] = a
           /\ \A x \in Emails : account[x].known => account'[x].known
<1>1. /\ account' \in [Emails -> AccountType] /\ account'[e] = a
      /\ \A x \in Emails \ {e} : account'[x] = account[x]
  BY DEF SignInv, Accounts
<1>2. \A x \in Emails : account[x].known => account'[x].known
  BY <1>1
<1>3. Accounts'
  BY <1>1 DEF SignInv, Accounts
<1> QED BY <1>1, <1>2, <1>3

LEMMA AccountsKept ==
    ASSUME Sign!Parameters, SignInv, NEW e \in Emails, NEW a \in AccountType,
           account' = [account EXCEPT ![e] = a],
           account[e].known => a.known, a.password > 0 => a.known,
           recoveries' \in [Emails -> Nat],
           \A x \in Emails \ {e} : recoveries'[x] = recoveries[x],
           recoveries'[e] <= a.password,
           UNCHANGED link
    PROVE  /\ Accounts' /\ Identities' /\ account'[e] = a
           /\ \A x \in Emails : account[x].known => account'[x].known
<1>1. /\ Accounts' /\ account'[e] = a
      /\ \A x \in Emails : account[x].known => account'[x].known
  BY AccountKept
<1>2. Identities'
  BY <1>1 DEF SignInv, Identities, Anyone
<1> QED BY <1>1, <1>2

\* no session appears that a link, begun earlier, could be taken for
LEMMA LinkingKept ==
    ASSUME SignInv, recoveries' = recoveries,
           Cardinality(sessions') \in Nat, Cardinality(sessions) <= Cardinality(sessions'),
           \A r \in sessions' : r.live /\ r.id <= Cardinality(sessions) => r \in sessions,
           \A f \in Flows :
              flow'[f].phase = "open" /\ flow'[f].kind = "link" => flow'[f] = flow[f]
    PROVE  Linking'
<1> SUFFICES ASSUME NEW f \in Flows, flow'[f].phase = "open", flow'[f].kind = "link"
             PROVE  /\ flow'[f].session \in 1 .. Cardinality(sessions')
                    /\ SessionLives(f)' => flow'[f].era = recoveries'[flow'[f].user]
  BY DEF Linking
<1>1. flow'[f] = flow[f] /\ flow[f].phase = "open" /\ flow[f].kind = "link"
  OBVIOUS
<1>2. flow[f].session \in 1 .. Cardinality(sessions) /\ Cardinality(sessions) \in Nat
  BY <1>1 DEF SignInv, Linking, Sessions, Numbered
<1>3. ASSUME SessionLives(f)' PROVE SessionLives(f)
  <2>1. PICK r \in sessions' : r.live /\ r.user = flow'[f].user /\ r.id = flow'[f].session
    BY <1>3 DEF SessionLives, Sign!IsLive, Sign!Live
  <2>2. r \in sessions
    BY <1>1, <1>2, <2>1
  <2> QED BY <1>1, <2>1, <2>2 DEF SessionLives, Sign!IsLive, Sign!Live
<1> QED BY <1>1, <1>2, <1>3 DEF SignInv, Linking

\* a session is issued to e: what that changes besides the account
LEMMA Issuing ==
    ASSUME SignInv, NEW e \in Emails, NEW from \in Origin,
           from = FromPassword \/ from \notin Origins(sessions),
           sessions' = Sign!Issued(sessions, e, from), recoveries' = recoveries,
           \A f \in Flows :
              flow'[f].phase = "open" /\ flow'[f].kind = "link" => flow'[f] = flow[f],
           account'[e].known, \A x \in Emails : account[x].known => account'[x].known
    PROVE  /\ Sessions(sessions') /\ Owned' /\ Linking'
           /\ Origins(sessions') = Origins(sessions) \cup {from}
<1>1. PICK t \in sessions' : /\ sessions' = sessions \cup {t} /\ t.user = e
                             /\ t.id = Cardinality(sessions) + 1
  BY IssuedKeeps DEF SignInv
<1>2. /\ Sessions(sessions') /\ Cardinality(sessions') = Cardinality(sessions) + 1
      /\ Origins(sessions') = Origins(sessions) \cup {from}
  BY IssuedKeeps DEF SignInv
<1>3. Owned'
  BY <1>1 DEF SignInv, Owned, Sessions, SessionType
<1>4. Cardinality(sessions) \in Nat
  BY DEF SignInv, Sessions, Numbered
<1>5. Linking'
  <2>1. \A r \in sessions' : r.live /\ r.id <= Cardinality(sessions) => r \in sessions
    BY <1>1, <1>4
  <2> QED BY <1>2, <1>4, <2>1, LinkingKept
<1> QED BY <1>2, <1>3, <1>5

\* sessions end
LEMMA Ending ==
    ASSUME SignInv, NEW ended, ended \subseteq sessions, sessions' = Sign!Without(ended),
           \A x \in Emails : account[x].known => account'[x].known,
           flow' = flow, recoveries' = recoveries
    PROVE  Sessions(sessions') /\ Owned' /\ Linking' /\ Origins(sessions') = Origins(sessions)
<1>1. /\ Sessions(sessions') /\ Cardinality(sessions') = Cardinality(sessions)
      /\ Origins(sessions') = Origins(sessions)
      /\ \A w \in sessions' : w.live => w \in sessions \ ended
      /\ \A w \in sessions' : \E r \in sessions : w.user = r.user
  BY WithoutKeeps DEF SignInv
<1>2. Owned'
  BY <1>1 DEF SignInv, Owned, Sessions, SessionType
<1>3. Cardinality(sessions) \in Nat
  BY DEF SignInv, Sessions, Numbered
<1>4. Linking'
  BY <1>1, <1>3, LinkingKept
<1> QED BY <1>1, <1>2, <1>4

-----------------------------------------------------------------------------
(* Passwords *)

\* what sessions were issued for stays as it was but for a password, so do codes and flows
LEMMA OthersKept ==
    ASSUME SignInv, UNCHANGED <<flow, callbacks, proved, code, mail, handed>>,
           Origins(sessions') \subseteq Origins(sessions) \cup {FromPassword}
    PROVE  Challenges' /\ CodesSpent' /\ FlowsTyped' /\ HandedOnce' /\ FlowsSpent'
<1>1. Challenges' /\ FlowsTyped' /\ HandedOnce'
  BY DEF SignInv, Challenges, FlowsTyped, HandedOnce
<1>2. CodesSpent' /\ FlowsSpent'
  BY OriginsApart DEF SignInv, CodesSpent, FlowsSpent
<1> QED BY <1>1, <1>2

LEMMA RegisterKeeps ==
    ASSUME Sign!Parameters, SignInv, NEW e \in Emails, Sign!Register(e) PROVE SignInv'
<1>1. PICK a : a = [known |-> TRUE, verified |-> FALSE, password |-> 1]
  OBVIOUS
<1>2. a \in AccountType /\ a.known /\ a.password = 1
  BY <1>1 DEF AccountType, Sign!Parameters
<1>3. account' = [account EXCEPT ![e] = a] /\ UNCHANGED <<link, recoveries>>
  BY <1>1 DEF Sign!Register
<1>4. recoveries[e] <= 1 /\ recoveries \in [Emails -> Nat]
  BY DEF Sign!Register, SignInv, Accounts, AccountType
<1>5. /\ Accounts' /\ Identities' /\ account'[e].known
      /\ \A x \in Emails : account[x].known => account'[x].known
  BY <1>2, <1>3, <1>4, AccountsKept
<1>6. /\ sessions' = Sign!Issued(sessions, e, FromPassword)
      /\ UNCHANGED <<flow, callbacks, proved, code, mail, handed, recoveries>>
  BY DEF Sign!Register, FromPassword
<1>7. /\ Sessions(sessions') /\ Owned' /\ Linking'
      /\ Origins(sessions') = Origins(sessions) \cup {FromPassword}
  BY <1>5, <1>6, Issuing DEF Origin
<1> QED BY <1>5, <1>6, <1>7, OthersKept DEF SignInv

LEMMA LoginKeeps ==
    ASSUME Sign!Parameters, SignInv, NEW e \in Emails, Sign!Login(e) PROVE SignInv'
<1>1. /\ sessions' = Sign!Issued(sessions, e, FromPassword)
      /\ UNCHANGED <<account, link, flow, callbacks, proved, code, mail, handed, recoveries>>
  BY DEF Sign!Login, FromPassword
<1>2. account'[e].known /\ Accounts' /\ Identities'
  BY <1>1 DEF Sign!Login, SignInv, Accounts, Identities
<1>3. /\ Sessions(sessions') /\ Owned' /\ Linking'
      /\ Origins(sessions') = Origins(sessions) \cup {FromPassword}
  BY <1>1, <1>2, Issuing DEF Origin
<1> QED BY <1>1, <1>2, <1>3, OthersKept DEF SignInv

LEMMA LogoutKeeps ==
    ASSUME Sign!Parameters, SignInv, NEW r \in sessions, Sign!Logout(r) PROVE SignInv'
<1>1. /\ sessions' = Sign!Without({r})
      /\ UNCHANGED <<account, link, flow, callbacks, proved, code, mail, handed, recoveries>>
  BY DEF Sign!Logout
<1>2. Accounts' /\ Identities'
  BY <1>1 DEF SignInv, Accounts, Identities
<1>3. Sessions(sessions') /\ Owned' /\ Linking' /\ Origins(sessions') = Origins(sessions)
  BY <1>1, Ending
<1> QED BY <1>1, <1>2, <1>3, OthersKept DEF SignInv

LEMMA ChangePasswordKeeps ==
    ASSUME Sign!Parameters, SignInv, NEW r \in sessions, Sign!ChangePassword(r) PROVE SignInv'
<1>1. /\ sessions' = Sign!Without(Sign!Live(r.user) \ {r})
      /\ UNCHANGED <<link, flow, callbacks, proved, code, mail, handed, recoveries>>
  BY DEF Sign!ChangePassword
<1>2. r.user \in Emails /\ Sign!Live(r.user) \ {r} \subseteq sessions
  BY DEF SignInv, Sessions, SessionType, Sign!Live
<1>3. PICK a : a = [account[r.user] EXCEPT !.password = @ + 1]
  OBVIOUS
<1>4. account' = [account EXCEPT ![r.user] = a]
  BY <1>2, <1>3 DEF Sign!ChangePassword, SignInv, Accounts
<1>5. /\ account[r.user] \in AccountType /\ account[r.user].known
      /\ account[r.user].password \in 1 .. MaxAccountPasswords - 1
  BY <1>2 DEF Sign!ChangePassword, SignInv, Accounts
<1>6. a \in AccountType /\ a.known /\ a.password = account[r.user].password + 1
  BY <1>3, <1>5 DEF AccountType, Sign!Parameters
<1>7. recoveries[r.user] <= a.password /\ recoveries \in [Emails -> Nat]
  BY <1>2, <1>5, <1>6 DEF SignInv, Accounts
<1>8. /\ Accounts' /\ Identities'
      /\ \A x \in Emails : account[x].known => account'[x].known
  BY <1>1, <1>2, <1>4, <1>6, <1>7, AccountsKept
<1>9. Sessions(sessions') /\ Owned' /\ Linking' /\ Origins(sessions') = Origins(sessions)
  BY <1>1, <1>2, <1>8, Ending
<1> QED BY <1>1, <1>8, <1>9, OthersKept DEF SignInv

\* what lives after a recovery was issued by it, so no link that is open is of a live session
LEMMA RecoverPasswordKeeps ==
    ASSUME Sign!Parameters, SignInv, NEW e \in Emails, Sign!RecoverPassword(e) PROVE SignInv'
<1> DEFINE W == Sign!Without(Sign!Live(e))
<1>1. /\ sessions' = Sign!Issued(W, e, FromPassword)
      /\ recoveries' = [recoveries EXCEPT ![e] = @ + 1]
      /\ UNCHANGED <<link, flow, callbacks, proved, code, mail, handed>>
  BY DEF Sign!RecoverPassword, FromPassword
<1>2. PICK a : a = [account[e] EXCEPT !.password = @ + 1]
  OBVIOUS
<1>3. account' = [account EXCEPT ![e] = a]
  BY <1>2 DEF Sign!RecoverPassword, SignInv, Accounts
<1>4. /\ account[e] \in AccountType /\ account[e].password \in 1 .. MaxAccountPasswords - 1
      /\ account[e].known
  BY DEF Sign!RecoverPassword, SignInv, Accounts
<1>5. a \in AccountType /\ a.known /\ a.password = account[e].password + 1
  BY <1>2, <1>4 DEF AccountType, Sign!Parameters
<1>6. /\ recoveries' \in [Emails -> Nat] /\ recoveries'[e] <= a.password
      /\ \A x \in Emails \ {e} : recoveries'[x] = recoveries[x]
  BY <1>1, <1>4, <1>5 DEF SignInv, Accounts
<1>7. /\ Accounts' /\ Identities' /\ account'[e].known
      /\ \A x \in Emails : account[x].known => account'[x].known
  BY <1>1, <1>3, <1>5, <1>6, AccountsKept
<1>8. Sign!Live(e) \subseteq sessions
  BY DEF Sign!Live
<1>9. /\ Sessions(W) /\ Cardinality(W) = Cardinality(sessions)
      /\ Origins(W) = Origins(sessions)
      /\ \A w \in W : w.live => w \in sessions \ Sign!Live(e)
      /\ \A w \in W : \E r \in sessions : w.user = r.user
  BY <1>8, WithoutKeeps DEF SignInv
<1>11. /\ Sessions(sessions') /\ Origins(sessions') = Origins(sessions) \cup {FromPassword}
       /\ Cardinality(sessions') = Cardinality(sessions) + 1
  BY <1>1, <1>9, IssuedKeeps DEF Origin
<1>12. PICK t \in sessions' : /\ sessions' = W \cup {t} /\ t.id = Cardinality(sessions) + 1
                              /\ t.user = e
  BY <1>1, <1>9, IssuedKeeps DEF Origin
<1>13. Owned'
  BY <1>7, <1>9, <1>12 DEF SignInv, Owned, Sessions, SessionType
<1>14. Linking'
  <2> SUFFICES ASSUME NEW f \in Flows, flow[f].phase = "open", flow[f].kind = "link"
               PROVE  /\ flow[f].session \in 1 .. Cardinality(sessions')
                      /\ SessionLives(f)' => flow[f].era = recoveries'[flow[f].user]
    BY <1>1 DEF Linking
  <2>1. /\ flow[f].session \in 1 .. Cardinality(sessions) /\ Cardinality(sessions) \in Nat
        /\ flow[f].user \in Emails
    BY DEF SignInv, Linking, Sessions, Numbered, FlowsTyped
  <2>2. ASSUME SessionLives(f)' PROVE SessionLives(f) /\ flow[f].user # e
    <3>1. PICK r \in sessions' : r.live /\ r.user = flow[f].user /\ r.id = flow[f].session
      BY <1>1, <2>2 DEF SessionLives, Sign!IsLive, Sign!Live
    <3>2. r \in W
      BY <1>12, <2>1, <3>1
    <3>3. r \in sessions \ Sign!Live(e)
      BY <1>9, <3>1, <3>2
    <3> QED BY <3>1, <3>3 DEF SessionLives, Sign!IsLive, Sign!Live
  <2> QED BY <1>6, <1>11, <2>1, <2>2 DEF SignInv, Linking
<1> QED BY <1>1, <1>7, <1>11, <1>13, <1>14, OthersKept DEF SignInv

-----------------------------------------------------------------------------
(* Codes *)

LEMMA Smallest ==
    ASSUME NEW S, S \subseteq Nat, S # {}
    PROVE  \E n \in S : \A m \in S : n <= m
<1> DEFINE R == OpToRel(<, Nat)
<1>1. IsWellFoundedOn(R, Nat)
  BY NatLessThanWellFounded
<1>2. \A m, n \in Nat : m < n => <<m, n>> \in R
  BY DEF OpToRel
<1> HIDE DEF R
<1>3. PICK n \in S : \A m \in S : ~ (<<m, n>> \in R)
  BY <1>1, WFMin
<1>4. \A m \in S : ~ (m < n)
  BY <1>2, <1>3
<1> QED BY <1>4

LEMMA MaxIs ==
    ASSUME NEW b \in Nat, NEW S, S \subseteq 0 .. b, S # {}
    PROVE  Sign!Max(S) \in S /\ \A m \in S : m <= Sign!Max(S)
<1> DEFINE T == {n \in 0 .. b : b - n \in S}
<1>1. T \subseteq Nat /\ \A n \in S : b - n \in T /\ b - (b - n) = n
  OBVIOUS
<1>2. T # {}
  BY <1>1
<1>3. PICK t \in T : \A n \in T : t <= n
  BY <1>1, <1>2, Smallest
<1>4. b - t \in S /\ \A m \in S : b - t >= m
  BY <1>1, <1>3
<1> QED BY <1>4 DEF Sign!Max

\* a challenge may be used up, tried or cancelled
LEMMA ChallengesKept ==
    ASSUME SignInv, code' \in [Emails -> CodeType], mail' \subseteq 1 .. MaxCodes,
           \A x \in Emails : code'[x].id = code[x].id /\ (code'[x].open => code[x].open)
    PROVE  Challenges'
BY DEF SignInv, Challenges

\* nothing but challenges changes
LEMMA RestKept ==
    ASSUME SignInv,
           UNCHANGED <<account, link, sessions, flow, callbacks, proved, handed, recoveries>>,
           Challenges', CodesSpent'
    PROVE  SignInv'
<1>1. /\ Sessions(sessions') /\ Accounts' /\ Identities' /\ Owned'
      /\ FlowsTyped' /\ HandedOnce' /\ FlowsSpent'
  BY DEF SignInv, Accounts, Identities, Owned, FlowsTyped, HandedOnce, FlowsSpent
<1>2. Linking'
  BY DEF SignInv, Linking, SessionLives, Sign!IsLive, Sign!Live
<1> QED BY <1>1, <1>2 DEF SignInv

LEMMA RequestCodeKeeps ==
    ASSUME Sign!Parameters, SignInv, NEW e \in Emails, Sign!RequestCode(e) PROVE SignInv'
<1> DEFINE ids == {code[x].id : x \in Emails}
           id == Sign!Max(ids) + 1
<1>1. ids \subseteq 0 .. MaxCodes /\ ids # {}
  BY DEF SignInv, Challenges, CodeType
<1>2. Sign!Max(ids) \in ids /\ \A m \in ids : m <= Sign!Max(ids)
  BY <1>1, MaxIs DEF Sign!Parameters
<1>3. /\ id <= MaxCodes /\ mail' = mail \cup {id}
      /\ code' = [code EXCEPT ![e] = [id |-> id, attempts |-> 0, open |-> TRUE]]
      /\ UNCHANGED <<account, link, sessions, flow, callbacks, proved, handed, recoveries>>
  BY DEF Sign!RequestCode
<1>4. id \in 1 .. MaxCodes /\ \A x \in Emails : code[x].id < id
  <2>1. PICK m : m = Sign!Max(ids)
    OBVIOUS
  <2>2. \A x \in Emails : code[x].id \in ids
    OBVIOUS
  <2> HIDE DEF ids
  <2>3. m \in ids /\ \A n \in ids : n <= m
    BY <1>2, <2>1
  <2>4. \A x \in Emails : code[x].id <= m
    BY <2>2, <2>3
  <2>5. \A x \in Emails : code[x].id \in Nat
    BY DEF SignInv, Challenges, CodeType
  <2>6. m \in 0 .. MaxCodes /\ id = m + 1
    BY <1>1, <2>1, <2>3
  <2> HIDE DEF id
  <2> QED BY <1>3, <2>4, <2>5, <2>6 DEF Sign!Parameters
<1> HIDE DEF id
<1>5. PICK c : c = [id |-> id, attempts |-> 0, open |-> TRUE]
  OBVIOUS
<1>6. c \in CodeType /\ c.id = id
  BY <1>4, <1>5 DEF CodeType, Sign!Parameters
<1>7. /\ code' \in [Emails -> CodeType] /\ code'[e] = c
      /\ \A x \in Emails \ {e} : code'[x] = code[x]
  BY <1>3, <1>5, <1>6 DEF SignInv, Challenges
<1>8. Challenges'
  <2>1. \A x, y \in Emails : code'[x].id = code'[y].id => x = y \/ code'[x].id = 0
    BY <1>4, <1>6, <1>7 DEF SignInv, Challenges, CodeType
  <2> QED BY <1>3, <1>4, <1>6, <1>7, <2>1 DEF SignInv, Challenges
<1>9. CodesSpent'
  <2> SUFFICES ASSUME NEW n \in 1 .. MaxCodes, FromCode(n) \in Origins(sessions)
               PROVE  /\ \E x \in Emails : n <= code'[x].id
                      /\ \A x \in Emails : code'[x].id = n => ~code'[x].open
    BY <1>3 DEF CodesSpent
  <2>1. PICK y \in Emails : n <= code[y].id
    BY DEF SignInv, CodesSpent
  <2>2. n < id
    BY <1>4, <2>1 DEF SignInv, Challenges, CodeType
  <2> QED BY <1>4, <1>6, <1>7, <2>2 DEF SignInv, CodesSpent
<1> QED BY <1>3, <1>8, <1>9, RestKept

LEMMA MailAnsweredKeeps ==
    ASSUME Sign!Parameters, SignInv, NEW id \in mail, NEW fails \in BOOLEAN,
           Sign!MailAnswered(id, fails)
    PROVE  SignInv'
<1>1. \A x \in Emails : /\ code'[x].id = code[x].id /\ (code'[x].open => code[x].open)
                        /\ code'[x] \in CodeType
  BY DEF Sign!MailAnswered, SignInv, Challenges, CodeType
<1>2. code' \in [Emails -> CodeType] /\ mail' \subseteq 1 .. MaxCodes
  BY <1>1 DEF Sign!MailAnswered, SignInv, Challenges
<1>3. Challenges' /\ CodesSpent'
  BY <1>1, <1>2, ChallengesKept DEF Sign!MailAnswered, SignInv, CodesSpent
<1> QED BY <1>3, RestKept DEF Sign!MailAnswered

\* the code of one address becomes c
LEMMA OneCode ==
    ASSUME SignInv, NEW e \in Emails, NEW c \in CodeType, code' = [code EXCEPT ![e] = c],
           c.id = code[e].id, c.open => code[e].open, UNCHANGED mail
    PROVE  /\ Challenges' /\ code'[e] = c
           /\ \A x \in Emails : code'[x].id = code[x].id /\ (code'[x].open => code[x].open)
<1>1. /\ code' \in [Emails -> CodeType] /\ code'[e] = c
      /\ \A x \in Emails \ {e} : code'[x] = code[x]
  BY DEF SignInv, Challenges
<1> QED BY <1>1, ChallengesKept DEF SignInv, Challenges

LEMMA GuessCodeKeeps ==
    ASSUME Sign!Parameters, SignInv, NEW e \in Emails, Sign!GuessCode(e) \/ Sign!CodeExpires(e)
    PROVE  SignInv'
<1>0. code[e] \in CodeType /\ code \in [Emails -> CodeType]
  BY DEF SignInv, Challenges
<1>1. PICK c \in CodeType : /\ code' = [code EXCEPT ![e] = c]
                            /\ c.id = code[e].id /\ (c.open => code[e].open)
  <2>1. CASE Sign!GuessCode(e)
    <3>1. PICK c : c = [code[e] EXCEPT !.attempts = @ + 1]
      OBVIOUS
    <3>2. c \in CodeType /\ c.id = code[e].id /\ (c.open => code[e].open)
      BY <1>0, <2>1, <3>1 DEF Sign!GuessCode, CodeType, Sign!Parameters
    <3>3. code' = [code EXCEPT ![e] = c]
      BY <1>0, <2>1, <3>1 DEF Sign!GuessCode
    <3> QED BY <3>2, <3>3
  <2>2. CASE Sign!CodeExpires(e)
    <3>1. PICK c : c = [code[e] EXCEPT !.open = FALSE]
      OBVIOUS
    <3>2. c \in CodeType /\ c.id = code[e].id /\ (c.open => code[e].open)
      BY <1>0, <3>1 DEF CodeType
    <3>3. code' = [code EXCEPT ![e] = c]
      BY <1>0, <2>2, <3>1 DEF Sign!CodeExpires
    <3> QED BY <3>2, <3>3
  <2> QED BY <2>1, <2>2
<1>2. UNCHANGED <<account, link, sessions, flow, callbacks, proved, mail, handed, recoveries>>
  BY DEF Sign!GuessCode, Sign!CodeExpires
<1>3. /\ Challenges'
      /\ \A x \in Emails : code'[x].id = code[x].id /\ (code'[x].open => code[x].open)
  BY <1>1, <1>2, OneCode
<1>4. CodesSpent'
  BY <1>2, <1>3 DEF SignInv, CodesSpent
<1> QED BY <1>2, <1>3, <1>4, RestKept

LEMMA VerifyCodeKeeps ==
    ASSUME Sign!Parameters, SignInv, NEW e \in Emails, Sign!VerifyCode(e) PROVE SignInv'
<1> DEFINE n == code[e].id
<1>1. /\ code[e].open /\ code[e] \in CodeType /\ n \in 1 .. MaxCodes
      /\ code \in [Emails -> CodeType] /\ account[e] \in AccountType
  BY DEF Sign!VerifyCode, SignInv, Challenges, CodeType, Accounts
<1>2. /\ sessions' = Sign!Issued(sessions, e, FromCode(n))
      /\ UNCHANGED <<link, flow, callbacks, proved, mail, handed, recoveries>>
  BY DEF Sign!VerifyCode, FromCode
<1>3. FromCode(n) \in Origin /\ FromCode(n) \notin Origins(sessions)
  BY <1>1 DEF Origin, SignInv, CodesSpent
<1>4. PICK a : a = Sign!Verified(account[e])
  OBVIOUS
<1>5. a \in AccountType /\ a.known /\ a.password = account[e].password
  BY <1>1, <1>4 DEF Sign!Verified, AccountType
<1>6. account' = [account EXCEPT ![e] = a]
  BY <1>4 DEF Sign!VerifyCode, SignInv, Accounts
<1>7. /\ Accounts' /\ Identities' /\ account'[e].known
      /\ \A x \in Emails : account[x].known => account'[x].known
  <2>1. recoveries[e] <= a.password /\ recoveries' \in [Emails -> Nat]
    BY <1>2, <1>5 DEF SignInv, Accounts
  <2> QED BY <1>2, <1>5, <1>6, <2>1, AccountsKept
<1>8. /\ Sessions(sessions') /\ Owned' /\ Linking'
      /\ Origins(sessions') = Origins(sessions) \cup {FromCode(n)}
  BY <1>2, <1>3, <1>7, Issuing
<1>9. PICK c : c = Sign!Used(code[e])
  OBVIOUS
<1>10. c \in CodeType /\ c.id = n /\ ~c.open
  BY <1>1, <1>9 DEF Sign!Used, CodeType
<1>11. /\ Challenges' /\ code'[e] = c
       /\ \A x \in Emails : code'[x].id = code[x].id /\ (code'[x].open => code[x].open)
  <2>1. code' = [code EXCEPT ![e] = c]
    BY <1>1, <1>9 DEF Sign!VerifyCode
  <2> QED BY <1>2, <1>10, <2>1, OneCode
<1>12. CodesSpent'
  <2> SUFFICES ASSUME NEW m \in 1 .. MaxCodes, FromCode(m) \in Origins(sessions')
               PROVE  /\ \E x \in Emails : m <= code'[x].id
                      /\ \A x \in Emails : code'[x].id = m => ~code'[x].open
    BY DEF CodesSpent
  <2>1. CASE m = n
    BY <1>1, <1>10, <1>11, <2>1 DEF SignInv, Challenges
  <2>2. CASE m # n
    BY <1>8, <1>11, <2>2, OriginsApart DEF SignInv, CodesSpent
  <2> QED BY <2>1, <2>2
<1>13. FlowsTyped' /\ HandedOnce' /\ FlowsSpent'
  BY <1>2, <1>8, OriginsApart DEF SignInv, FlowsTyped, HandedOnce, FlowsSpent
<1> QED BY <1>7, <1>8, <1>11, <1>12, <1>13 DEF SignInv

-----------------------------------------------------------------------------
(* Flows *)

\* one flow becomes x
LEMMA OneFlow ==
    ASSUME SignInv, NEW f \in Flows, NEW x \in FlowType, flow' = [flow EXCEPT ![f] = x],
           x.kind = "link" => x.user \in Emails,
           proved' \subseteq proved, callbacks' \subseteq callbacks
    PROVE  /\ FlowsTyped' /\ flow'[f] = x
           /\ \A g \in Flows \ {f} : flow'[g] = flow[g]
<1>1. /\ flow' \in [Flows -> FlowType] /\ flow'[f] = x
      /\ \A g \in Flows \ {f} : flow'[g] = flow[g]
  BY DEF SignInv, FlowsTyped
<1>2. \A g \in Flows : flow'[g].kind = "link" => flow'[g].user \in Emails
  BY <1>1 DEF SignInv, FlowsTyped
<1> QED BY <1>1, <1>2 DEF SignInv, FlowsTyped

\* a flow that moved on
LEMMA Moved ==
    ASSUME SignInv, NEW f \in Flows, NEW p \in Sign!Phases, flow' = [flow EXCEPT ![f].phase = p]
    PROVE  \E x \in FlowType : /\ flow' = [flow EXCEPT ![f] = x]
                               /\ x.phase = p /\ x.kind = flow[f].kind /\ x.user = flow[f].user
                               /\ x.session = flow[f].session /\ x.era = flow[f].era
<1>1. PICK x : x = [flow[f] EXCEPT !.phase = p]
  OBVIOUS
<1>2. flow \in [Flows -> FlowType] /\ flow[f] \in FlowType
  BY DEF SignInv, FlowsTyped
<1>3. /\ x \in FlowType /\ x.phase = p /\ x.kind = flow[f].kind /\ x.user = flow[f].user
      /\ x.session = flow[f].session /\ x.era = flow[f].era
  BY <1>1, <1>2 DEF FlowType
<1>4. flow' = [flow EXCEPT ![f] = x]
  BY <1>1, <1>2
<1> QED BY <1>3, <1>4

\* only flows, and what surrounds them, change
LEMMA FlowsKept ==
    ASSUME SignInv, UNCHANGED <<account, link, sessions, code, mail, recoveries>>,
           FlowsTyped', HandedOnce', FlowsSpent',
           \A f \in Flows :
              flow'[f].phase = "open" /\ flow'[f].kind = "link" => flow'[f] = flow[f]
    PROVE  SignInv'
<1>1. Sessions(sessions') /\ Accounts' /\ Identities' /\ Owned' /\ Challenges' /\ CodesSpent'
  BY DEF SignInv, Accounts, Identities, Owned, Challenges, CodesSpent
<1>2. Linking'
  BY LinkingKept DEF SignInv, Sessions, Numbered
<1> QED BY <1>1, <1>2 DEF SignInv

LEMMA BeginLoginKeeps ==
    ASSUME Sign!Parameters, SignInv, NEW f \in Flows, Sign!BeginLogin(f) PROVE SignInv'
<1>1. PICK x : x = [Sign!NoFlow EXCEPT !.phase = "open"]
  OBVIOUS
<1>2. x \in FlowType /\ x.phase = "open" /\ x.kind = "login"
  BY <1>1 DEF Sign!NoFlow, FlowType, Sign!Phases, Anyone
<1>3. /\ flow[f].phase = "none" /\ flow' = [flow EXCEPT ![f] = x]
      /\ UNCHANGED <<account, link, sessions, callbacks, proved, code, mail, handed, recoveries>>
  BY <1>1 DEF Sign!BeginLogin
<1>4. FlowsTyped' /\ flow'[f] = x /\ \A g \in Flows \ {f} : flow'[g] = flow[g]
  BY <1>2, <1>3, OneFlow
<1>5. HandedOnce' /\ FlowsSpent'
  BY <1>3, <1>4 DEF SignInv, HandedOnce, FlowsSpent
<1>6. \A g \in Flows : flow'[g].phase = "open" /\ flow'[g].kind = "link" => flow'[g] = flow[g]
  BY <1>2, <1>4
<1> QED BY <1>3, <1>4, <1>5, <1>6, FlowsKept

LEMMA PollKeeps ==
    ASSUME Sign!Parameters, SignInv, NEW f \in Flows, Sign!Poll(f) \/ Sign!FlowExpires(f)
    PROVE  SignInv'
<1>1. /\ flow[f].phase \in {"open", "completed", "failed"}
      /\ flow' = [flow EXCEPT ![f].phase = "closed"]
      /\ UNCHANGED <<account, link, sessions, callbacks, proved, code, mail, recoveries>>
  BY DEF Sign!Poll, Sign!FlowExpires
<1>2. PICK x \in FlowType : /\ flow' = [flow EXCEPT ![f] = x] /\ x.phase = "closed"
                            /\ x.kind = flow[f].kind /\ x.user = flow[f].user
  BY <1>1, Moved DEF Sign!Phases
<1>3. x.kind = "link" => x.user \in Emails
  BY <1>2 DEF SignInv, FlowsTyped
<1>4. FlowsTyped' /\ flow'[f] = x /\ \A g \in Flows \ {f} : flow'[g] = flow[g]
  BY <1>1, <1>2, <1>3, OneFlow
<1>5. handed[f] = 0 /\ handed \in [Flows -> {0, 1}]
  BY <1>1 DEF SignInv, HandedOnce
<1>6. /\ handed' \in [Flows -> {0, 1}]
      /\ \A g \in Flows \ {f} : handed'[g] = handed[g]
  BY <1>5 DEF Sign!Poll, Sign!FlowExpires
<1>7. HandedOnce' /\ FlowsSpent'
  BY <1>1, <1>2, <1>4, <1>6 DEF SignInv, HandedOnce, FlowsSpent
<1>8. \A g \in Flows : flow'[g].phase = "open" /\ flow'[g].kind = "link" => flow'[g] = flow[g]
  BY <1>2, <1>4
<1> QED BY <1>1, <1>4, <1>7, <1>8, FlowsKept

LEMMA ProvePasswordKeeps ==
    ASSUME Sign!Parameters, SignInv, NEW r \in sessions, NEW for \in {"link", "unlink"},
           Sign!ProvePassword(r, for)
    PROVE  SignInv'
<1>1. UNCHANGED <<account, link, sessions, flow, callbacks, code, mail, handed, recoveries>>
  BY DEF Sign!ProvePassword
<1>2. r.id \in Nat /\ r.user \in Emails
  BY DEF SignInv, Sessions, SessionType
<1>3. account[r.user].password \in Nat
  BY <1>2 DEF SignInv, Accounts, AccountType
<1>4. proved' \subseteq ProofType
  BY <1>2, <1>3 DEF Sign!ProvePassword, SignInv, FlowsTyped, ProofType
<1>5. FlowsTyped' /\ HandedOnce' /\ FlowsSpent'
  BY <1>1, <1>4 DEF SignInv, FlowsTyped, HandedOnce, FlowsSpent
<1> QED BY <1>1, <1>5, FlowsKept

\* a link is begun in the present era, by a session that lives
LEMMA BeginLinkKeeps ==
    ASSUME Sign!Parameters, SignInv, NEW f \in Flows, NEW p \in proved, Sign!BeginLink(f, p)
    PROVE  SignInv'
<1>1. /\ UNCHANGED <<account, link, sessions, callbacks, code, mail, handed, recoveries>>
      /\ proved' \subseteq proved
  BY DEF Sign!BeginLink
<1>2. CASE flow' = flow
  <2>1. FlowsTyped' /\ HandedOnce' /\ FlowsSpent'
    BY <1>1, <1>2 DEF SignInv, FlowsTyped, HandedOnce, FlowsSpent
  <2> QED BY <1>1, <1>2, <2>1, FlowsKept
<1>3. CASE flow' # flow
  <2>1. PICK x : x = [phase |-> "open", kind |-> "link", user |-> p.user,
                      session |-> p.session, era |-> recoveries[p.user]]
    OBVIOUS
  <2>2. /\ flow[f].phase = "none" /\ flow' = [flow EXCEPT ![f] = x]
        /\ Sign!IsLive(p.session, p.user)
    BY <1>3, <2>1 DEF Sign!BeginLink
  <2>3. p.user \in Emails /\ p.session \in Nat /\ recoveries[p.user] \in Nat
    BY DEF SignInv, FlowsTyped, ProofType, Accounts
  <2>4. /\ x \in FlowType /\ x.phase = "open" /\ x.user = p.user
        /\ x.session = p.session /\ x.era = recoveries[p.user]
    BY <2>1, <2>3 DEF FlowType, Sign!Phases, Anyone
  <2>5. FlowsTyped' /\ flow'[f] = x /\ \A g \in Flows \ {f} : flow'[g] = flow[g]
    BY <1>1, <2>2, <2>3, <2>4, OneFlow
  <2>6. HandedOnce' /\ FlowsSpent'
    BY <1>1, <2>2, <2>5 DEF SignInv, HandedOnce, FlowsSpent
  <2>7. p.session \in 1 .. Cardinality(sessions)
    BY <2>2 DEF SignInv, Sessions, Numbered, Sign!IsLive, Sign!Live
  <2>8. Linking'
    <3> SUFFICES ASSUME NEW g \in Flows, flow'[g].phase = "open", flow'[g].kind = "link"
                 PROVE  /\ flow'[g].session \in 1 .. Cardinality(sessions)
                        /\ SessionLives(g)' => flow'[g].era = recoveries[flow'[g].user]
      BY <1>1 DEF Linking
    <3>1. CASE g = f
      BY <2>4, <2>5, <2>7, <3>1
    <3>2. CASE g # f
      <4>1. flow'[g] = flow[g]
        BY <2>5, <3>2
      <4>2. SessionLives(g)' => SessionLives(g)
        BY <1>1, <4>1 DEF SessionLives, Sign!IsLive, Sign!Live
      <4> QED BY <4>1, <4>2 DEF SignInv, Linking
    <3> QED BY <3>1, <3>2
  <2>9. Sessions(sessions') /\ Accounts' /\ Identities' /\ Owned' /\ Challenges' /\ CodesSpent'
    BY <1>1 DEF SignInv, Accounts, Identities, Owned, Challenges, CodesSpent
  <2> QED BY <2>5, <2>6, <2>8, <2>9 DEF SignInv
<1> QED BY <1>2, <1>3

LEMMA UnlinkAppleKeeps ==
    ASSUME Sign!Parameters, SignInv, NEW p \in proved, Sign!UnlinkApple(p) PROVE SignInv'
<1>1. /\ UNCHANGED <<account, sessions, flow, callbacks, code, mail, handed, recoveries>>
      /\ proved' \subseteq proved
  BY DEF Sign!UnlinkApple
<1>2. \A s \in Subjects : link'[s] = link[s] \/ link'[s] = "none"
  BY DEF Sign!UnlinkApple
<1>3. link' \in [Subjects -> Anyone]
  BY <1>2 DEF Sign!UnlinkApple, SignInv, Identities, Anyone
<1>4. Identities'
  BY <1>1, <1>2, <1>3 DEF SignInv, Identities
<1>5. /\ Sessions(sessions') /\ Accounts' /\ Owned' /\ Challenges' /\ CodesSpent'
      /\ FlowsTyped' /\ HandedOnce' /\ FlowsSpent'
  BY <1>1 DEF SignInv, Accounts, Owned, Challenges, CodesSpent, FlowsTyped, HandedOnce,
     FlowsSpent
<1>6. Linking'
  BY <1>1 DEF SignInv, Linking, SessionLives, Sign!IsLive, Sign!Live
<1> QED BY <1>4, <1>5, <1>6 DEF SignInv

LEMMA CallbackArrivesKeeps ==
    ASSUME Sign!Parameters, SignInv, NEW f \in Flows, NEW s \in Subjects,
           Sign!CallbackArrives(f, s)
    PROVE  SignInv'
<1>1. UNCHANGED <<account, link, sessions, flow, proved, code, mail, handed, recoveries>>
  BY DEF Sign!CallbackArrives
<1>2. FlowsTyped' /\ HandedOnce' /\ FlowsSpent'
  BY DEF Sign!CallbackArrives, SignInv, FlowsTyped, HandedOnce, FlowsSpent
<1> QED BY <1>1, <1>2, FlowsKept

LEMMA CallbackFailsKeeps ==
    ASSUME Sign!Parameters, SignInv, NEW c \in callbacks, Sign!CallbackFails(c) PROVE SignInv'
<1>1. /\ UNCHANGED <<account, link, sessions, proved, code, mail, handed, recoveries>>
      /\ callbacks' \subseteq callbacks /\ c.flow \in Flows
  BY DEF Sign!CallbackFails, SignInv, FlowsTyped
<1>2. CASE flow' = flow
  <2>1. FlowsTyped' /\ HandedOnce' /\ FlowsSpent'
    BY <1>1, <1>2 DEF SignInv, FlowsTyped, HandedOnce, FlowsSpent
  <2> QED BY <1>1, <1>2, <2>1, FlowsKept
<1>3. CASE flow' # flow
  <2>1. flow[c.flow].phase = "open" /\ flow' = [flow EXCEPT ![c.flow].phase = "failed"]
    BY <1>3 DEF Sign!CallbackFails
  <2>2. PICK x \in FlowType : /\ flow' = [flow EXCEPT ![c.flow] = x] /\ x.phase = "failed"
                              /\ x.kind = flow[c.flow].kind /\ x.user = flow[c.flow].user
    BY <1>1, <2>1, Moved DEF Sign!Phases
  <2>3. x.kind = "link" => x.user \in Emails
    BY <1>1, <2>2 DEF SignInv, FlowsTyped
  <2>4. FlowsTyped' /\ flow'[c.flow] = x /\ \A g \in Flows \ {c.flow} : flow'[g] = flow[g]
    BY <1>1, <2>2, <2>3, OneFlow
  <2>5. HandedOnce' /\ FlowsSpent'
    BY <1>1, <2>1, <2>4 DEF SignInv, HandedOnce, FlowsSpent
  <2>6. \A g \in Flows : flow'[g].phase = "open" /\ flow'[g].kind = "link" => flow'[g] = flow[g]
    BY <2>2, <2>4
  <2> QED BY <1>1, <2>4, <2>5, <2>6, FlowsKept
<1> QED BY <1>2, <1>3

\* an identity joins an account no other identity is linked to
LEMMA Joining ==
    ASSUME SignInv, NEW s \in Subjects, NEW e \in Emails, link' = [link EXCEPT ![s] = e],
           Sign!Linked(e) \subseteq {s}, account'[e].known,
           \A x \in Emails : account[x].known => account'[x].known
    PROVE  Identities'
<1>1. /\ link' \in [Subjects -> Anyone] /\ link'[s] = e
      /\ \A t \in Subjects \ {s} : link'[t] = link[t] /\ link[t] # e
  BY DEF SignInv, Identities, Anyone, Sign!Linked
<1>2. \A t \in Subjects : link'[t] # "none" => account'[link'[t]].known
  BY <1>1 DEF SignInv, Identities, Anyone
<1>3. \A t, u \in Subjects : link'[t] = link'[u] => link'[t] = "none" \/ t = u
  BY <1>1 DEF SignInv, Identities
<1> QED BY <1>1, <1>2, <1>3 DEF Identities

LEMMA CompleteLinkKeeps ==
    ASSUME Sign!Parameters, SignInv, NEW c \in callbacks, Sign!CompleteLink(c) PROVE SignInv'
<1> DEFINE e == flow[c.flow].user
<1>1. /\ UNCHANGED <<account, sessions, proved, code, mail, handed, recoveries>>
      /\ callbacks' \subseteq callbacks /\ flow[c.flow].kind = "link"
      /\ flow[c.flow].phase = "open" /\ flow' = [flow EXCEPT ![c.flow].phase = "completed"]
      /\ link' = [link EXCEPT ![c.subject] = e]
  BY DEF Sign!CompleteLink, Sign!CanComplete
<1>2. c.flow \in Flows /\ c.subject \in Subjects /\ e \in Emails
  BY <1>1 DEF SignInv, FlowsTyped
<1>3. Sign!Linked(e) \subseteq {c.subject} /\ Sign!IsLive(flow[c.flow].session, e)
  BY DEF Sign!CompleteLink, Sign!MayLink
<1>4. account[e].known
  BY <1>3 DEF Sign!IsLive, Sign!Live, SignInv, Owned
<1>5. Identities'
  BY <1>1, <1>2, <1>3, <1>4, Joining
<1>6. PICK x \in FlowType : /\ flow' = [flow EXCEPT ![c.flow] = x] /\ x.phase = "completed"
                            /\ x.kind = flow[c.flow].kind /\ x.user = e
  BY <1>1, <1>2, Moved DEF Sign!Phases
<1>7. FlowsTyped' /\ flow'[c.flow] = x /\ \A g \in Flows \ {c.flow} : flow'[g] = flow[g]
  BY <1>1, <1>2, <1>6, OneFlow
<1>8. HandedOnce' /\ FlowsSpent'
  BY <1>1, <1>2, <1>6, <1>7 DEF SignInv, HandedOnce, FlowsSpent
<1>9. \A g \in Flows : flow'[g].phase = "open" /\ flow'[g].kind = "link" => flow'[g] = flow[g]
  BY <1>6, <1>7
<1>10. Linking'
  BY <1>1, <1>9, LinkingKept DEF SignInv, Sessions, Numbered
<1>11. Sessions(sessions') /\ Accounts' /\ Owned' /\ Challenges' /\ CodesSpent'
  BY <1>1 DEF SignInv, Accounts, Owned, Challenges, CodesSpent
<1> QED BY <1>5, <1>7, <1>8, <1>10, <1>11 DEF SignInv

\* whom an Apple identity signs in
Entered(s) == IF link[s] # "none" THEN link[s] ELSE AppleEmail[s]

LEMMA Entering ==
    ASSUME Sign!Parameters, SignInv, NEW s \in Subjects, Sign!MayEnter(s)
    PROVE  Entered(s) \in Emails /\ Sign!Linked(Entered(s)) \subseteq {s}
<1>1. CASE link[s] # "none"
  BY <1>1 DEF Entered, Sign!Linked, SignInv, Identities, Anyone
<1>2. CASE link[s] = "none"
  BY <1>2 DEF Entered, Sign!Linked, Sign!MayEnter, Sign!Parameters
<1> QED BY <1>1, <1>2

LEMMA CompleteLoginKeeps ==
    ASSUME Sign!Parameters, SignInv, NEW c \in callbacks, Sign!CompleteLogin(c) PROVE SignInv'
<1>1. PICK e : e = Entered(c.subject)
  OBVIOUS
<1>2. /\ UNCHANGED <<proved, code, mail, handed, recoveries>>
      /\ callbacks' \subseteq callbacks /\ flow[c.flow].kind = "login" /\ Sign!MayEnter(c.subject)
      /\ flow[c.flow].phase = "open" /\ flow' = [flow EXCEPT ![c.flow].phase = "completed"]
      /\ link' = [link EXCEPT ![c.subject] = e]
      /\ sessions' = Sign!Issued(sessions, e, FromFlow(c.flow))
      /\ account' = IF account[e].known THEN account
                    ELSE [account EXCEPT ![e] = Sign!Verified(account[e])]
  BY <1>1 DEF Sign!CompleteLogin, Sign!CanComplete, FromFlow, Entered
<1>3. c.flow \in Flows /\ c.subject \in Subjects
  BY DEF SignInv, FlowsTyped
<1>4. e \in Emails /\ Sign!Linked(e) \subseteq {c.subject}
  BY <1>1, <1>2, <1>3, Entering
<1>5. /\ Accounts' /\ account'[e].known
      /\ \A x \in Emails : account[x].known => account'[x].known
  <2>1. CASE account[e].known
    BY <1>2, <2>1 DEF SignInv, Accounts
  <2>2. CASE ~account[e].known
    <3>1. PICK a : a = Sign!Verified(account[e])
      OBVIOUS
    <3>2. account[e] \in AccountType
      BY <1>4 DEF SignInv, Accounts
    <3>3. a \in AccountType /\ a.known /\ a.password = account[e].password
      BY <3>1, <3>2 DEF Sign!Verified, AccountType
    <3>4. recoveries[e] <= a.password /\ recoveries' \in [Emails -> Nat]
      BY <1>2, <1>4, <3>3 DEF SignInv, Accounts
    <3> QED BY <1>2, <1>4, <2>2, <3>1, <3>3, <3>4, AccountKept
  <2> QED BY <2>1, <2>2
<1>6. Identities'
  BY <1>2, <1>3, <1>4, <1>5, Joining
<1>7. PICK x \in FlowType : /\ flow' = [flow EXCEPT ![c.flow] = x] /\ x.phase = "completed"
                            /\ x.kind = "login"
  <2>1. \E x \in FlowType : /\ flow' = [flow EXCEPT ![c.flow] = x]
                             /\ x.phase = "completed" /\ x.kind = flow[c.flow].kind
    BY <1>2, <1>3, Moved DEF Sign!Phases
  <2> QED BY <1>2, <2>1
<1>8. FlowsTyped' /\ flow'[c.flow] = x /\ \A g \in Flows \ {c.flow} : flow'[g] = flow[g]
  BY <1>2, <1>3, <1>7, OneFlow
<1>9. \A g \in Flows : flow'[g].phase = "open" /\ flow'[g].kind = "link" => flow'[g] = flow[g]
  BY <1>7, <1>8
<1>10. FromFlow(c.flow) \in Origin /\ FromFlow(c.flow) \notin Origins(sessions)
  BY <1>2, <1>3 DEF Origin, SignInv, FlowsSpent
<1>11. /\ Sessions(sessions') /\ Owned' /\ Linking'
       /\ Origins(sessions') = Origins(sessions) \cup {FromFlow(c.flow)}
  BY <1>2, <1>4, <1>5, <1>9, <1>10, Issuing
<1>12. HandedOnce' /\ FlowsSpent'
  BY <1>2, <1>3, <1>7, <1>8, <1>11, OriginsApart DEF SignInv, HandedOnce, FlowsSpent
<1>13. Challenges' /\ CodesSpent'
  BY <1>2, <1>11, OriginsApart DEF SignInv, Challenges, CodesSpent
<1> QED BY <1>5, <1>6, <1>8, <1>11, <1>12, <1>13 DEF SignInv

-----------------------------------------------------------------------------

LEMMA SignInit == ASSUME Sign!Parameters, Sign!Init PROVE SignInv
<1>1. Cardinality({}) = 0 /\ IsFiniteSet({})
  BY FS_EmptySet
<1>2. Sessions(sessions) /\ Owned /\ CodesSpent /\ FlowsSpent
  BY <1>1 DEF Sign!Init, Sessions, Numbered, Owned, CodesSpent, FlowsSpent, Origins
<1>3. Accounts /\ Identities
  BY DEF Sign!Init, Accounts, Identities, Sign!NoAccount, AccountType, Anyone,
     Sign!Parameters
<1>4. Challenges
  BY DEF Sign!Init, Challenges, Sign!NoCode, CodeType, Sign!Parameters
<1>5. FlowsTyped /\ HandedOnce /\ Linking
  BY DEF Sign!Init, FlowsTyped, HandedOnce, Linking, Sign!NoFlow, FlowType, Sign!Phases,
     Anyone
<1> QED BY <1>2, <1>3, <1>4, <1>5 DEF SignInv

LEMMA SignStep == ASSUME Sign!Parameters, SignInv, [Sign!Next]_(Sign!svars) PROVE SignInv'
<1>0. Typed \subseteq Emails
  BY DEF Sign!Parameters
<1>1. CASE Sign!Passwords
  BY <1>0, <1>1, RegisterKeeps, LoginKeeps, RecoverPasswordKeeps, LogoutKeeps,
     ChangePasswordKeeps, ProvePasswordKeeps DEF Sign!Passwords
<1>2. CASE Sign!Codes
  BY <1>0, <1>2, RequestCodeKeeps, GuessCodeKeeps, VerifyCodeKeeps,
     MailAnsweredKeeps DEF Sign!Codes
<1>3. CASE Sign!Apple
  BY <1>3, BeginLoginKeeps, PollKeeps, BeginLinkKeeps, UnlinkAppleKeeps,
     CallbackArrivesKeeps,
     CompleteLinkKeeps, CompleteLoginKeeps, CallbackFailsKeeps DEF Sign!Apple
<1>4. CASE UNCHANGED Sign!svars
  <2>1. UNCHANGED <<account, link, sessions, flow, callbacks, proved, code, mail, handed,
        recoveries>>
    BY <1>4 DEF Sign!svars
  <2>2. FlowsTyped' /\ HandedOnce' /\ FlowsSpent'
    BY <2>1 DEF SignInv, FlowsTyped, HandedOnce, FlowsSpent
  <2> QED BY <2>1, <2>2, FlowsKept
<1> QED BY <1>1, <1>2, <1>3, <1>4 DEF Sign!Next

\* what may change of an identity in a step
Joined ==
    \A s \in Subjects :
        LET e == link'[s] IN
        link[s] # e /\ e # "none" =>
           \/ ~account[e].known
           \/ account[e].verified /\ AppleEmail[s] = e
           \/ \E f \in Flows : /\ flow[f].phase = "open" /\ flow'[f].phase = "completed"
                               /\ flow[f].user = e /\ flow[f].era = recoveries[e]

LEMMA JoinStep == ASSUME Sign!Parameters, SignInv, [Sign!Next]_(Sign!svars) PROVE Joined
<1> SUFFICES ASSUME NEW s \in Subjects, link[s] # link'[s], link'[s] # "none"
             PROVE  \/ ~account[link'[s]].known
                    \/ account[link'[s]].verified /\ AppleEmail[s] = link'[s]
                    \/ \E f \in Flows : /\ flow[f].phase = "open" /\ flow'[f].phase = "completed"
                                        /\ flow[f].user = link'[s]
                                        /\ flow[f].era = recoveries[link'[s]]
  BY DEF Joined
<1>1. CASE \E c \in callbacks : Sign!CompleteLink(c)
  <2>1. PICK c \in callbacks : Sign!CompleteLink(c)
    BY <1>1
  <2>2. /\ flow[c.flow].kind = "link" /\ flow[c.flow].phase = "open"
        /\ flow' = [flow EXCEPT ![c.flow].phase = "completed"]
        /\ link' = [link EXCEPT ![c.subject] = flow[c.flow].user]
        /\ SessionLives(c.flow)
    BY <2>1 DEF Sign!CompleteLink, Sign!CanComplete, Sign!MayLink, SessionLives
  <2>3. c.flow \in Flows /\ c.subject \in Subjects
    BY DEF SignInv, FlowsTyped
  <2>4. s = c.subject /\ link'[s] = flow[c.flow].user
    BY <2>2, <2>3 DEF SignInv, Identities
  <2>5. flow'[c.flow].phase = "completed"
    BY <2>2, <2>3 DEF SignInv, FlowsTyped, FlowType
  <2>6. flow[c.flow].era = recoveries[flow[c.flow].user]
    BY <2>2, <2>3 DEF SignInv, Linking
  <2> QED BY <2>2, <2>3, <2>4, <2>5, <2>6
<1>2. CASE \E c \in callbacks : Sign!CompleteLogin(c)
  <2>1. PICK c \in callbacks : Sign!CompleteLogin(c)
    BY <1>2
  <2>2. link' = [link EXCEPT ![c.subject] = Entered(c.subject)] /\ Sign!MayEnter(c.subject)
    BY <2>1 DEF Sign!CompleteLogin, Entered
  <2>3. c.subject \in Subjects
    BY DEF SignInv, FlowsTyped
  <2>4. s = c.subject /\ link'[s] = Entered(s)
    BY <2>2, <2>3 DEF SignInv, Identities
  <2>5. link[s] = "none" /\ link'[s] = AppleEmail[s]
    BY <2>4 DEF Entered
  <2> QED BY <2>2, <2>4, <2>5 DEF Sign!MayEnter
<1>3. CASE \E p \in proved : Sign!UnlinkApple(p)
  BY <1>3 DEF Sign!UnlinkApple
<1>4. CASE UNCHANGED link
  BY <1>4
<1>5. Sign!Passwords \/ Sign!Codes \/ UNCHANGED Sign!svars => UNCHANGED link
  BY DEF Sign!Passwords, Sign!Register, Sign!Login, Sign!RecoverPassword, Sign!Logout,
     Sign!ChangePassword, Sign!ProvePassword,
         Sign!Codes, Sign!RequestCode, Sign!GuessCode, Sign!VerifyCode, Sign!CodeExpires, 
         Sign!MailAnswered, Sign!svars
<1>6. Sign!Apple => \/ \E c \in callbacks : Sign!CompleteLink(c) \/ Sign!CompleteLogin(c)
               \/ \E p \in proved : Sign!UnlinkApple(p)
               \/ UNCHANGED link
  BY DEF Sign!Apple, Sign!BeginLogin, Sign!Poll, Sign!FlowExpires, Sign!BeginLink,
     Sign!CallbackArrives, Sign!CallbackFails
<1> QED BY <1>1, <1>2, <1>3, <1>4, <1>5, <1>6 DEF Sign!Next

LEMMA SignInvThm == ASSUME Sign!Parameters PROVE Sign!Spec => []SignInv
<1>1. Sign!Init => SignInv
  BY SignInit
<1>2. SignInv /\ [Sign!Next]_(Sign!svars) => SignInv'
  BY SignStep
<1> QED BY <1>1, <1>2, PTL DEF Sign!Spec

LEMMA OneSessionEachThm == ASSUME Sign!Parameters PROVE Sign!Spec => []Sign!OneSessionEach
<1>1. SignInv => Sign!OneSessionEach
  BY DEF SignInv, Sign!OneSessionEach, Sessions, HandedOnce, FromPassword
<1> QED BY <1>1, SignInvThm, PTL

LEMMA SignInTyped == ASSUME Sign!Parameters PROVE Sign!Spec => []Sign!TypeOK
<1>1. ASSUME SignInv PROVE Sign!TypeOK
  <2>1. {r.id : r \in sessions} = 1 .. Sign!Cardinality(sessions)
    <3>1. Sessions(sessions)
      BY <1>1 DEF SignInv
    <3> QED BY <3>1, SameCount DEF Sessions, Numbered
  <2>2. ASSUME NEW e \in Emails
        PROVE  /\ account[e] \in AccountType /\ code[e] \in CodeType
               /\ recoveries[e] \in 0 .. MaxAccountPasswords
    <3>1. account[e] \in AccountType /\ recoveries[e] \in Nat
          /\ recoveries[e] <= account[e].password
      BY <1>1 DEF SignInv, Accounts
    <3>2. account[e].password \in 0 .. MaxAccountPasswords
      BY <3>1 DEF AccountType
    <3>3. recoveries[e] \in 0 .. MaxAccountPasswords
      BY <3>1, <3>2 DEF Sign!Parameters
    <3> QED BY <1>1, <3>1, <3>3 DEF SignInv, Challenges
  <2>3. \A f \in Flows : flow[f].phase \in Sign!Phases /\ flow[f].kind \in {"login", "link"}
    BY <1>1 DEF SignInv, FlowsTyped, FlowType
  <2>4. /\ \A s \in Subjects : link[s] = "none" \/ account[link[s]].known
        /\ \A s, x \in Subjects : link[s] = link[x] => link[s] = "none" \/ s = x
        /\ mail \subseteq 1 .. MaxCodes
    BY <1>1 DEF SignInv, Identities, Challenges
  <2>5. \A e \in Emails :
          /\ account[e] \in [known : BOOLEAN, verified : BOOLEAN,
                             password : 0 .. MaxAccountPasswords]
          /\ code[e].id \in 0 .. MaxCodes /\ code[e].attempts \in 0 .. MaxCodeAttempts
          /\ recoveries[e] \in 0 .. MaxAccountPasswords
    BY <2>2 DEF AccountType, CodeType
  <2> QED BY <2>1, <2>3, <2>4, <2>5 DEF Sign!TypeOK
<1> QED BY <1>1, SignInvThm, PTL

LEMMA JoinsOnProofThm == ASSUME Sign!Parameters PROVE Sign!Spec => Sign!JoinsOnProof
<1>1. SignInv /\ [Sign!Next]_(Sign!svars) => [Joined]_(Sign!svars)
  BY JoinStep
<1>2. Sign!Spec => [][Joined]_(Sign!svars)
  BY <1>1, SignInvThm, PTL DEF Sign!Spec
<1> QED BY <1>2 DEF Sign!JoinsOnProof, Joined

-----------------------------------------------------------------------------
(* LocalCache *)
(***************************************************************************)
(* What a file of the cache can be, with n keys made, and how the three    *)
(* files go together: m the database, t the copy, b the backup; r says     *)
(* whether the user has asked for a reset.                                 *)
(***************************************************************************)
Known(f, n) ==
    /\ f \in Disk!File
    /\ f.form = "none" => f = Disk!Nothing
    /\ f.form = "plain" => f = Disk!Plain
    /\ f.form = "garbage" => f = Disk!Garbage
    /\ f.form = "sealed" => f.key \in 1 .. n
    /\ f.form = "fresh" /\ f.key = 0 => f.schema = "old"

Proper(m, t, b, n, r) ==
    /\ Known(m, n) /\ Known(t, n) /\ Known(b, n)
    /\ t.form \in {"none", "garbage", "sealed"}
    /\ b.form \in {"none", "garbage", "plain"}
    /\ t.form # "none" /\ b.form # "none" => b.form = "plain"
    /\ m.form = "fresh" => t.form = "none" /\ b.form = "none"
    /\ ~r => /\ m.form \in {"none", "plain", "sealed"}
             /\ m.form = "none" => b.form = "plain"

\* a file in its place, or on its way to the folder of the reset
At(p) == IF Disk!Absent(p) THEN aside[p] ELSE files[p]

Resetting == {"moving", "moved", "returning", "restoring"}
Running == {"recovering", "cleaning", "opening", "exporting", "exported", "swapped", "checking",
            "undoing", "upgrading", "upgraded", "open"}

CacheTyped ==
    /\ files \in [Disk!Places -> Disk!File] /\ aside \in [Disk!Places -> Disk!File]
       /\ kept \subseteq Disk!File
    /\ keys \in 0 .. MaxCacheKeys /\ cacheVault \in 0 .. keys /\ cacheKey \in 0 .. keys
    /\ stage \in Disk!Stages /\ failed \in BOOLEAN /\ reset \in BOOLEAN /\ lost \in BOOLEAN
    /\ failures \in 0 .. MaxFailures

Layout ==
    /\ \A p \in Disk!Places : Disk!Absent(p) \/ aside[p] = Disk!Nothing
    /\ Proper(At("main"), At("temporary"), At("backup"), keys, reset)
    /\ stage \in Resetting \/ aside = Disk!NoFiles
    /\ stage \in Resetting => reset

\* what the place s of the process says of the files, m, t and b as above; e: an operation failed
Progress(s, e, m, t, b) ==
    /\ s \in Running => cacheKey = cacheVault /\ cacheKey # 0
    /\ s \in {"opening", "upgrading", "upgraded", "open"} => t.form = "none" /\ b.form = "none"
    /\ s = "cleaning" => m.form = "plain" \/ Disk!Readable(m)
    /\ s = "exporting" => m.form = "plain" /\ b.form = "none"
    /\ s = "exported" => m.form = "plain" /\ b.form = "none" /\ t.form = "sealed"
       /\ t.key = cacheKey
    /\ s = "swapped" => m.form = "none" /\ b.form = "plain" /\ t.form = "sealed" /\ t.key = cacheKey
    /\ s = "checking" => m.form = "sealed" /\ m.key = cacheKey /\ t.form = "none"
       /\ b.form = "plain"
    /\ s = "undoing" => m.form = "none" /\ t.form = "none" /\ b.form = "plain" /\ e
    /\ s = "upgrading" => Disk!Readable(m) /\ (m.form = "sealed" \/ reset)
    /\ s = "upgraded" => m.form = "sealed" \/ (reset /\ m.form = "fresh")
    /\ s \in {"upgraded", "open"} => m.key = cacheKey
    /\ s = "open" => m.form = "sealed" \/ (reset /\ m.form = "fresh")
    /\ s = "moved" => m.form = "none" /\ t.form = "none" /\ b.form = "none"
    /\ s = "blocked" /\ ~e => keys > 1 \/ reset \/ m.schema = "torn"

Located == Progress(stage, failed, files["main"], files["temporary"], files["backup"])

CacheInv == CacheTyped /\ Layout /\ Located /\ Disk!CopyRemains

-----------------------------------------------------------------------------
LEMMA Forms ==
    ASSUME Disk!Parameters
    PROVE  /\ Disk!Nothing \in Disk!File /\ Disk!Nothing.form = "none" /\ Disk!Nothing.key = 0
              /\ Disk!Nothing.schema = "old"
           /\ Disk!Plain \in Disk!File /\ Disk!Plain.form = "plain" /\ Disk!Plain.key = 0
              /\ Disk!Plain.schema = "old"
           /\ Disk!Fresh \in Disk!File /\ Disk!Fresh.form = "fresh" /\ Disk!Fresh.key = 0
              /\ Disk!Fresh.schema = "old"
           /\ Disk!Garbage \in Disk!File /\ Disk!Garbage.form = "garbage"
              /\ Disk!Garbage.key = 0 /\ Disk!Garbage.schema = "old"
           /\ \A n : Known(Disk!Nothing, n) /\ Known(Disk!Plain, n) /\ Known(Disk!Fresh, n)
              /\ Known(Disk!Garbage, n)
BY DEF Disk!Nothing, Disk!Plain, Disk!Fresh, Disk!Garbage, Disk!Unsealed, Disk!File,
   Disk!Parameters, Known

LEMMA InPlace ==
    ASSUME CacheInv, stage \notin Resetting
    PROVE  /\ aside = Disk!NoFiles /\ files \in [Disk!Places -> Disk!File]
           /\ Proper(files["main"], files["temporary"], files["backup"], keys, reset)
           /\ Progress(stage, failed, files["main"], files["temporary"], files["backup"])
<1>1. aside = Disk!NoFiles /\ files \in [Disk!Places -> Disk!File]
  BY DEF CacheInv, Layout, CacheTyped
<1>2. \A p \in Disk!Places : At(p) = files[p]
  BY <1>1 DEF At, Disk!Absent, Disk!NoFiles
<1> QED BY <1>1, <1>2 DEF CacheInv, Layout, Located, Disk!Places

LEMMA Placed ==
    ASSUME CacheInv, stage' \notin Resetting, aside' = Disk!NoFiles,
           Proper(files'["main"], files'["temporary"], files'["backup"], keys', reset')
    PROVE  Layout'
<1>1. \A p \in Disk!Places : aside'[p] = Disk!Nothing
  BY DEF Disk!NoFiles
<1>2. \A p \in Disk!Places : (At(p))' = files'[p]
  BY <1>1 DEF At, Disk!Absent
<1> QED BY <1>1, <1>2 DEF Layout, Disk!Places

LEMMA Put ==
    ASSUME CacheInv, NEW p \in Disk!Places, NEW f \in Disk!File, files' = [files EXCEPT ![p] = f]
    PROVE  /\ files' \in [Disk!Places -> Disk!File] /\ files'[p] = f
           /\ \A q \in Disk!Places \ {p} : files'[q] = files[q]
BY DEF CacheInv, CacheTyped

LEMMA MovedTo ==
    ASSUME Disk!Parameters, CacheInv, NEW p \in Disk!Places, NEW q \in Disk!Places, p # q,
           Disk!Move(p, q)
    PROVE  /\ files' \in [Disk!Places -> Disk!File] /\ files'[q] = files[p]
              /\ files'[p] = Disk!Nothing
           /\ \A x \in Disk!Places \ {p, q} : files'[x] = files[x]
BY Forms DEF CacheInv, CacheTyped, Disk!Move

\* no copy that can be read goes
LEMMA CopiesStay ==
    ASSUME CacheInv, cacheVault' = cacheVault, lost' = lost,
           \A f \in Disk!Copies : f.form \in {"plain", "sealed"} => f \in Disk!Copies'
    PROVE  Disk!CopyRemains'
BY DEF CacheInv, Disk!CopyRemains, Disk!Legible

LEMMA CopyThere == ASSUME NEW f \in Disk!Copies', Disk!Legible(f)' PROVE Disk!CopyRemains'
BY DEF Disk!CopyRemains

LEMMA PlacesKeep ==
    ASSUME CacheInv, cacheVault' = cacheVault, lost' = lost, aside' = aside, kept' = kept,
           \A p \in Disk!Places : files[p].form \in {"plain", "sealed"} =>
               \E q \in Disk!Places : files'[q] = files[p]
    PROVE  Disk!CopyRemains'
<1>1. \A f \in Disk!Copies : f.form \in {"plain", "sealed"} => f \in Disk!Copies'
  BY DEF Disk!Copies
<1> QED BY <1>1, CopiesStay

\* nothing changes but where the process is
LEMMA BecomeTyped ==
    ASSUME CacheInv, NEW s \in Disk!Stages, Disk!Become(s) \/ Disk!Fails(s),
           files' \in [Disk!Places -> Disk!File],
           UNCHANGED <<aside, kept>>, MaxFailures \in Nat
    PROVE  CacheTyped'
<1>1. failures' \in 0 .. MaxFailures
  BY DEF CacheInv, CacheTyped, Disk!Become, Disk!Fails, Disk!Happens
<1>2. /\ stage' = s /\ UNCHANGED <<cacheVault, cacheKey, keys, reset, lost>>
      /\ failed' = failed \/ failed' = TRUE
  BY DEF Disk!Become, Disk!Fails
<1>3. failed' \in BOOLEAN
  BY <1>2 DEF CacheInv, CacheTyped
<1> QED BY <1>1, <1>2, <1>3 DEF CacheInv, CacheTyped

-----------------------------------------------------------------------------
(* The key *)

LEMMA StartKeeps == ASSUME Disk!Parameters, CacheInv, Disk!Start PROVE CacheInv'
<1>1. /\ stage = "down" /\ stage' = "recovering" /\ UNCHANGED <<files, aside, kept, reset, lost,
         failures>>
      /\ cacheKey' = cacheVault' /\ failed' = FALSE
  BY DEF Disk!Start, Disk!disk
<1>2. /\ cacheVault' \in 1 .. keys' /\ keys' \in keys .. MaxCacheKeys
      /\ cacheVault # 0 => cacheVault' = cacheVault
  BY DEF Disk!Start, CacheInv, CacheTyped, Disk!Parameters
<1>3. aside = Disk!NoFiles /\ Proper(files["main"], files["temporary"], files["backup"], keys,
      reset)
  BY <1>1, InPlace DEF Resetting
<1>4. keys \in Nat /\ keys' \in Nat /\ keys <= keys'
  BY <1>2 DEF CacheInv, CacheTyped
<1>5. Proper(files'["main"], files'["temporary"], files'["backup"], keys', reset')
  BY <1>1, <1>3, <1>4 DEF Proper, Known
<1>6. Layout'
  BY <1>1, <1>3, <1>5, Placed DEF Resetting
<1>7. CacheTyped'
  <2>1. stage' \in Disk!Stages /\ failed' \in BOOLEAN
    BY <1>1 DEF Disk!Stages
  <2>2. keys' \in 0 .. MaxCacheKeys /\ cacheVault' \in 0 .. keys' /\ cacheKey' \in 0 .. keys'
    BY <1>1, <1>2, <1>4
  <2> QED BY <1>1, <2>1, <2>2 DEF CacheInv, CacheTyped
<1>8. Located'
  BY <1>1, <1>2 DEF Located, Progress, Running
<1>9. Disk!CopyRemains'
  BY <1>1, <1>2 DEF CacheInv, Disk!CopyRemains, Disk!Copies, Disk!Legible
<1> QED BY <1>6, <1>7, <1>8, <1>9 DEF CacheInv

\* a start that ends with the files as they are
LEMMA GivenUp ==
    ASSUME Disk!Parameters, CacheInv, stage \notin Resetting, Disk!Fails("blocked"),
           UNCHANGED Disk!disk
    PROVE  CacheInv'
<1>1. /\ aside = Disk!NoFiles /\ files \in [Disk!Places -> Disk!File]
      /\ Proper(files["main"], files["temporary"], files["backup"], keys, reset)
  BY InPlace
<1>2. /\ stage' = "blocked" /\ failed' = TRUE /\ UNCHANGED <<files, aside, kept, keys, reset,
         cacheVault, lost>>
  BY DEF Disk!Fails, Disk!disk
<1>3. Layout'
  BY <1>1, <1>2, Placed DEF Resetting
<1>4. CacheTyped'
  BY <1>1, <1>2, BecomeTyped DEF Disk!Stages, Disk!Parameters
<1>5. Located'
  BY <1>2 DEF Located, Progress, Running
<1>6. Disk!CopyRemains'
  BY <1>2, PlacesKeep
<1> QED BY <1>3, <1>4, <1>5, <1>6 DEF CacheInv

LEMMA LoseKeyKeeps == ASSUME Disk!Parameters, CacheInv, Disk!LoseKey PROVE CacheInv'
<1>1. /\ stage = "down" /\ stage' = "down" /\ cacheVault' = 0
      /\ UNCHANGED <<files, aside, kept, cacheKey, keys, failed, reset>>
  BY DEF Disk!LoseKey, Disk!disk
<1>2. /\ aside = Disk!NoFiles
      /\ Proper(files["main"], files["temporary"], files["backup"], keys, reset)
  BY <1>1, InPlace DEF Resetting
<1>3. Layout'
  BY <1>1, <1>2, Placed DEF Resetting
<1>4. CacheTyped'
  BY <1>1 DEF Disk!LoseKey, Disk!Happens, Disk!Forgotten, CacheInv, CacheTyped,
     Disk!Parameters
<1>5. Located'
  BY <1>1 DEF Located, Progress, Running
<1>6. Disk!CopyRemains'
  BY <1>1 DEF Disk!LoseKey, Disk!Forgotten, Disk!CopyRemains, Disk!Copies, Disk!Legible
<1> QED BY <1>3, <1>4, <1>5, <1>6 DEF CacheInv

\* the files that are left when others are on their way to the folder
LEMMA LeftIn ==
    ASSUME Disk!Parameters, CacheInv
    PROVE  Proper(files["main"], files["temporary"], files["backup"], keys, reset)
<1>1. CASE stage \notin Resetting
  BY <1>1, InPlace
<1>2. CASE stage \in Resetting
  <2>1. reset /\ \A p \in Disk!Places : At(p) = files[p] \/ files[p] = Disk!Nothing
    BY <1>2 DEF CacheInv, Layout, At, Disk!Absent
  <2>2. Proper(At("main"), At("temporary"), At("backup"), keys, reset)
    BY DEF CacheInv, Layout
  <2> QED BY <2>1, <2>2, Forms DEF Proper, Disk!Places
<1> QED BY <1>1, <1>2

LEMMA StopKeeps == ASSUME Disk!Parameters, CacheInv, Disk!Stop PROVE CacheInv'
<1>1. /\ stage' = "down" /\ cacheKey' = 0 /\ failed' = FALSE /\ aside' = Disk!NoFiles
      /\ UNCHANGED <<files, cacheVault, keys, reset, lost, failures>>
      /\ kept' = kept \cup ({aside[p] : p \in Disk!Places} \ {Disk!Nothing})
  BY DEF Disk!Stop
<1>2. Proper(files["main"], files["temporary"], files["backup"], keys, reset)
  BY LeftIn
<1>3. Layout'
  BY <1>1, <1>2, Placed DEF Resetting
<1>4. CacheTyped'
  <2>3. stage' \in Disk!Stages /\ failed' \in BOOLEAN
    BY <1>1 DEF Disk!Stages
  <2>4. cacheKey' \in 0 .. keys'
    BY <1>1 DEF CacheInv, CacheTyped
  <2>2. aside' \in [Disk!Places -> Disk!File] /\ kept' \subseteq Disk!File
    BY <1>1, Forms DEF Disk!NoFiles, CacheInv, CacheTyped
  <2> QED BY <1>1, <2>2, <2>3, <2>4 DEF CacheInv, CacheTyped
<1>5. Located'
  BY <1>1 DEF Located, Progress, Running
<1>6. \A f \in Disk!Copies : f.form \in {"plain", "sealed"} => f \in Disk!Copies'
  BY <1>1, Forms DEF Disk!Copies
<1> QED BY <1>1, <1>3, <1>4, <1>5, <1>6, CopiesStay DEF CacheInv

-----------------------------------------------------------------------------
(* What a step of a start has to show *)

LEMMA StartGoesOn ==
    ASSUME Disk!Parameters, CacheInv, stage \notin Resetting, UNCHANGED <<aside, kept>>,
           NEW s \in Running \cup {"blocked"}, NEW e,
           (Disk!Become(s) /\ e = failed) \/ (Disk!Fails(s) /\ e = TRUE),
           files' \in [Disk!Places -> Disk!File],
           Proper(files'["main"], files'["temporary"], files'["backup"], keys, reset),
           Progress(s, e, files'["main"], files'["temporary"], files'["backup"]),
           Disk!CopyRemains'
    PROVE  CacheInv'
<1>1. aside' = Disk!NoFiles
  BY InPlace
<1>2. stage' = s /\ failed' = e /\ UNCHANGED <<cacheVault, cacheKey, keys, reset, lost>>
  BY DEF Disk!Become, Disk!Fails
<1>3. s \in Disk!Stages /\ s \notin Resetting
  BY DEF Running, Disk!Stages, Resetting
<1>4. Layout'
  BY <1>1, <1>2, <1>3, Placed
<1>5. CacheTyped'
  BY <1>3, BecomeTyped DEF Disk!Parameters
<1>6. Located'
  BY <1>2 DEF Progress, Disk!Readable, Located
<1> QED BY <1>4, <1>5, <1>6 DEF CacheInv

LEMMA GoesOn ==
    ASSUME Disk!Parameters, CacheInv, stage \notin Resetting, UNCHANGED <<aside, kept>>,
           NEW s \in Running \cup {"blocked"}, Disk!Become(s),
           files' \in [Disk!Places -> Disk!File],
           NEW m, NEW t, NEW b,
           m = files'["main"], t = files'["temporary"], b = files'["backup"],
           Proper(m, t, b, keys, reset), Progress(s, failed, m, t, b), Disk!CopyRemains'
    PROVE  CacheInv'
BY StartGoesOn

LEMMA FailsWith ==
    ASSUME Disk!Parameters, CacheInv, stage \notin Resetting, UNCHANGED <<aside, kept>>,
           NEW s \in Running \cup {"blocked"}, Disk!Fails(s), files' \in [Disk!Places -> Disk!File],
           NEW m, NEW t, NEW b,
           m = files'["main"], t = files'["temporary"], b = files'["backup"],
           Proper(m, t, b, keys, reset), Progress(s, TRUE, m, t, b), Disk!CopyRemains'
    PROVE  CacheInv'
BY StartGoesOn

LEMMA RestoreBackupKeeps == ASSUME Disk!Parameters, CacheInv, Disk!RestoreBackup PROVE CacheInv'
<1>1. /\ stage = "recovering" /\ files["main"] = Disk!Nothing /\ files["backup"] # Disk!Nothing
      /\ UNCHANGED <<aside, kept>>
  BY DEF Disk!RestoreBackup, Disk!Absent
<1>2. /\ files \in [Disk!Places -> Disk!File] /\ stage \notin Resetting
      /\ Proper(files["main"], files["temporary"], files["backup"], keys, reset)
      /\ Progress(stage, failed, files["main"], files["temporary"], files["backup"])
  BY <1>1, InPlace DEF Resetting
<1>3. CASE files["temporary"] = Disk!Nothing
  <2>1. Disk!Move("backup", "main") /\ Disk!Become("opening")
    BY <1>3 DEF Disk!RestoreBackup, Disk!Absent
  <2>2. /\ files' \in [Disk!Places -> Disk!File] /\ files'["main"] = files["backup"]
        /\ files'["backup"] = Disk!Nothing /\ files'["temporary"] = Disk!Nothing
    BY <1>3, <2>1, MovedTo DEF Disk!Places
  <2>3. Proper(files["backup"], Disk!Nothing, Disk!Nothing, keys, reset)
    BY <1>1, <1>2, Forms DEF Proper, Known
  <2>4. Progress("opening", failed, files["backup"], Disk!Nothing, Disk!Nothing)
    BY <1>1, <1>2, Forms DEF Progress, Running
  <2>5. Disk!CopyRemains'
    BY <1>1, <1>3, <2>1, <2>2, Forms, PlacesKeep DEF Disk!Places, Disk!Become
  <2> QED BY <1>1, <1>2, <2>1, <2>2, <2>3, <2>4, <2>5, GoesOn DEF Running
<1>4. CASE files["temporary"] # Disk!Nothing
  <2>1. files' = [files EXCEPT !["temporary"] = Disk!Nothing] /\ Disk!Become("recovering")
    BY <1>4 DEF Disk!RestoreBackup, Disk!Absent
  <2>2. /\ files' \in [Disk!Places -> Disk!File] /\ files'["main"] = files["main"]
        /\ files'["backup"] = files["backup"] /\ files'["temporary"] = Disk!Nothing
    BY <2>1, Forms, Put DEF Disk!Places
  <2>3. Proper(files["main"], Disk!Nothing, files["backup"], keys, reset)
    BY <1>2, Forms DEF Proper
  <2>4. Progress("recovering", failed, files["main"], Disk!Nothing, files["backup"])
    BY <1>1, <1>2, Forms DEF Progress, Running
  <2>5. Disk!CopyRemains'
    <3>1. files'["backup"].form = "plain"
      BY <1>1, <1>2, <1>4, <2>2 DEF Proper, Known
    <3> QED BY <3>1, CopyThere DEF Disk!Copies, Disk!Places, Disk!Legible
  <2> QED BY <1>1, <1>2, <2>1, <2>2, <2>3, <2>4, <2>5, GoesOn DEF Running
<1> QED BY <1>3, <1>4

\* a database that is trusted is a copy that can be read
LEMMA TrustedIsLegible ==
    ASSUME CacheInv, cacheKey = cacheVault, cacheKey # 0, NEW m, Known(m, keys), m.form # "fresh",
           m.form = "plain" \/ Disk!Readable(m)
    PROVE  Disk!Legible(m) /\ m.form \in {"plain", "sealed"}
BY DEF Known, Disk!Readable, Disk!Legible, CacheInv, CacheTyped

LEMMA KeyInRange == ASSUME CacheInv, cacheKey # 0 PROVE keys \in Nat /\ cacheKey \in 1 .. keys
BY DEF CacheInv, CacheTyped

LEMMA PromoteLeftoverKeeps == ASSUME Disk!Parameters, CacheInv, Disk!PromoteLeftover PROVE CacheInv'
<1>1. /\ stage = "recovering" /\ files["main"] = Disk!Nothing /\ files["backup"] = Disk!Nothing
      /\ UNCHANGED <<aside, kept>>
  BY DEF Disk!PromoteLeftover, Disk!Absent
<1>2. /\ files \in [Disk!Places -> Disk!File] /\ stage \notin Resetting
      /\ Proper(files["main"], files["temporary"], files["backup"], keys, reset)
      /\ Progress(stage, failed, files["main"], files["temporary"], files["backup"])
  BY <1>1, InPlace DEF Resetting
<1>3. reset /\ cacheKey = cacheVault /\ cacheKey # 0
  BY <1>1, <1>2, Forms DEF Proper, Progress, Running
<1>4. CASE Disk!Readable(files["temporary"])
  <2>1. Disk!Move("temporary", "main") /\ Disk!Become("opening")
    BY <1>4 DEF Disk!PromoteLeftover
  <2>2. /\ files' \in [Disk!Places -> Disk!File] /\ files'["main"] = files["temporary"]
        /\ files'["temporary"] = Disk!Nothing /\ files'["backup"] = Disk!Nothing
    BY <1>1, <2>1, MovedTo DEF Disk!Places
  <2>3. Proper(files["temporary"], Disk!Nothing, Disk!Nothing, keys, reset)
    BY <1>2, <1>3, Forms DEF Proper
  <2>4. Progress("opening", failed, files["temporary"], Disk!Nothing, Disk!Nothing)
    BY <1>3, Forms DEF Progress, Running
  <2>5. Disk!CopyRemains'
    BY <1>1, <2>1, <2>2, Forms, PlacesKeep DEF Disk!Places, Disk!Become
  <2> QED BY <1>1, <1>2, <2>1, <2>2, <2>3, <2>4, <2>5, GoesOn DEF Running
<1>5. CASE ~Disk!Readable(files["temporary"])
  <2>1. UNCHANGED files /\ Disk!Become("blocked")
    BY <1>5 DEF Disk!PromoteLeftover
  <2>2. Progress("blocked", failed, files["main"], files["temporary"], files["backup"])
    BY <1>3 DEF Progress, Running
  <2>3. Disk!CopyRemains'
    BY <1>1, <2>1, PlacesKeep DEF Disk!Become
  <2> QED BY <1>1, <1>2, <2>1, <2>2, <2>3, GoesOn
<1> QED BY <1>4, <1>5

LEMMA RecoverKeeps == ASSUME Disk!Parameters, CacheInv, Disk!Recover PROVE CacheInv'
<1>1. /\ stage = "recovering" /\ UNCHANGED <<files, aside, kept>>
      /\ \/ Disk!Absent("temporary") /\ Disk!Absent("backup") /\ Disk!Become("opening")
         \/ ~Disk!Absent("main") /\ Disk!Become(IF Disk!Trusted THEN "cleaning" ELSE "blocked")
  BY DEF Disk!Recover, Disk!disk
<1>2. /\ files \in [Disk!Places -> Disk!File] /\ stage \notin Resetting
      /\ Proper(files["main"], files["temporary"], files["backup"], keys, reset)
      /\ Progress(stage, failed, files["main"], files["temporary"], files["backup"])
  BY <1>1, InPlace DEF Resetting
<1>3. cacheKey = cacheVault /\ cacheKey # 0
  BY <1>1, <1>2 DEF Progress, Running
<1>4. PICK s \in Running \cup {"blocked"} :
          /\ Disk!Become(s)
          /\ \/ s = "opening" /\ Disk!Absent("temporary") /\ Disk!Absent("backup")
             \/ s = "cleaning" /\ Disk!Trusted
             \/ s = "blocked" /\ ~Disk!Trusted /\ ~Disk!Absent("main")
  BY <1>1 DEF Running
<1>5. ~Disk!Trusted /\ ~Disk!Absent("main") /\ ~reset => keys > 1
  BY <1>2, <1>3, KeyInRange DEF Disk!Trusted, Disk!Absent, Proper, Known, Disk!Readable
<1>6. Progress(s, failed, files["main"], files["temporary"], files["backup"])
  BY <1>3, <1>4, <1>5, Forms DEF Progress, Disk!Trusted, Disk!Absent
<1>7. Disk!CopyRemains'
  BY <1>1, <1>4, PlacesKeep DEF Disk!Become
<1> QED BY <1>1, <1>2, <1>4, <1>6, <1>7, GoesOn

LEMMA CleanKeeps == ASSUME Disk!Parameters, CacheInv, Disk!Clean PROVE CacheInv'
<1>1. /\ stage = "cleaning" /\ Disk!Become("cleaning") /\ UNCHANGED <<aside, kept>>
  BY DEF Disk!Clean
<1>2. /\ files \in [Disk!Places -> Disk!File] /\ stage \notin Resetting
      /\ Proper(files["main"], files["temporary"], files["backup"], keys, reset)
      /\ Progress(stage, failed, files["main"], files["temporary"], files["backup"])
  BY <1>1, InPlace DEF Resetting
<1>3. /\ cacheKey = cacheVault /\ cacheKey # 0
      /\ files["main"].form = "plain" \/ Disk!Readable(files["main"])
  BY <1>1, <1>2 DEF Progress, Running
<1>4. PICK t, b :
          /\ files' \in [Disk!Places -> Disk!File] /\ files'["main"] = files["main"]
          /\ t = files'["temporary"] /\ b = files'["backup"]
          /\ \/ t = Disk!Nothing /\ b = files["backup"] /\ files["temporary"] # Disk!Nothing
             \/ t = Disk!Nothing /\ files["backup"] # Disk!Nothing /\ b \in {Disk!Garbage,
                Disk!Nothing}
  <2>1. CASE ~Disk!Absent("temporary") /\ files' = [files EXCEPT !["temporary"] = Disk!Nothing]
    BY <2>1, Put, Forms DEF Disk!Absent, Disk!Places
  <2>2. CASE /\ Disk!Absent("temporary") /\ ~Disk!Absent("backup")
             /\ files' = [files EXCEPT !["backup"] = IF @ = Disk!Garbage THEN Disk!Nothing ELSE Disk!Garbage]
    <3>1. PICK g \in {Disk!Garbage,
          Disk!Nothing} : g = IF files["backup"] = Disk!Garbage THEN Disk!Nothing ELSE Disk!Garbage
      OBVIOUS
    <3>2. files' = [files EXCEPT !["backup"] = g] /\ g \in Disk!File
      BY <1>2, <2>2, <3>1, Forms DEF Disk!Places
    <3> QED BY <2>2, <3>2, Put DEF Disk!Absent, Disk!Places
  <2> QED BY <2>1, <2>2 DEF Disk!Clean
<1>5. files["main"].form # "fresh"
  BY <1>2, <1>4 DEF Proper, Known
<1>6. Disk!Legible(files["main"]) /\ files["main"].form # "none"
  BY <1>2, <1>3, <1>5, TrustedIsLegible DEF Proper
<1>7. Proper(files["main"], t, b, keys, reset)
  BY <1>2, <1>4, <1>5, <1>6, Forms DEF Proper
<1>8. Progress("cleaning", failed, files["main"], t, b)
  BY <1>3 DEF Progress, Running
<1>9. Disk!CopyRemains'
  BY <1>1, <1>4, <1>6, CopyThere DEF Disk!Copies, Disk!Places, Disk!Become, Disk!Legible
<1> QED BY <1>1, <1>2, <1>4, <1>7, <1>8, <1>9, GoesOn DEF Running

LEMMA CleanedKeeps == ASSUME Disk!Parameters, CacheInv, Disk!Cleaned PROVE CacheInv'
<1>1. /\ stage = "cleaning" /\ files["temporary"] = Disk!Nothing /\ files["backup"] = Disk!Nothing
      /\ Disk!Become("opening") /\ UNCHANGED <<files, aside, kept>>
  BY DEF Disk!Cleaned, Disk!disk, Disk!Absent
<1>2. /\ files \in [Disk!Places -> Disk!File] /\ stage \notin Resetting
      /\ Proper(files["main"], files["temporary"], files["backup"], keys, reset)
      /\ Progress(stage, failed, files["main"], files["temporary"], files["backup"])
  BY <1>1, InPlace DEF Resetting
<1>3. Progress("opening", failed, files["main"], files["temporary"], files["backup"])
  BY <1>1, <1>2, Forms DEF Progress, Running
<1>4. Disk!CopyRemains'
  BY <1>1, PlacesKeep DEF Disk!Become
<1> QED BY <1>1, <1>2, <1>3, <1>4, GoesOn DEF Running

-----------------------------------------------------------------------------
(* The encryption *)

LEMMA AttachKeeps == ASSUME Disk!Parameters, CacheInv, Disk!Attach PROVE CacheInv'
<1>1. /\ stage = "opening" /\ files["main"].form = "plain" /\ Disk!Become("exporting")
      /\ files' = [files EXCEPT !["temporary"] = Disk!Garbage] /\ UNCHANGED <<aside, kept>>
  BY DEF Disk!Attach, Disk!IsPlain
<1>2. /\ files \in [Disk!Places -> Disk!File] /\ stage \notin Resetting
      /\ Proper(files["main"], files["temporary"], files["backup"], keys, reset)
      /\ Progress(stage, failed, files["main"], files["temporary"], files["backup"])
  BY <1>1, InPlace DEF Resetting
<1>3. /\ files' \in [Disk!Places -> Disk!File] /\ files'["main"] = files["main"]
      /\ files'["temporary"] = Disk!Garbage /\ files'["backup"] = files["backup"]
  BY <1>1, Forms, Put DEF Disk!Places
<1>4. cacheKey = cacheVault /\ cacheKey # 0 /\ files["backup"].form = "none"
  BY <1>1, <1>2 DEF Progress, Running
<1>5. Proper(files["main"], Disk!Garbage, files["backup"], keys, reset)
  BY <1>1, <1>2, <1>4, Forms DEF Proper
<1>6. Progress("exporting", failed, files["main"], Disk!Garbage, files["backup"])
  BY <1>1, <1>4 DEF Progress, Running
<1>7. Disk!CopyRemains'
  BY <1>1, <1>3, CopyThere DEF Disk!Copies, Disk!Places, Disk!Legible
<1> QED BY <1>1, <1>2, <1>3, <1>5, <1>6, <1>7, GoesOn DEF Running

LEMMA ExportKeeps == ASSUME Disk!Parameters, CacheInv, Disk!Export PROVE CacheInv'
<1>1. /\ stage = "exporting" /\ Disk!Become("exported") /\ UNCHANGED <<aside, kept>>
      /\ files' = [files EXCEPT !["temporary"] =
                      [form |-> "sealed", key |-> cacheKey, schema |-> files["main"].schema]]
  BY DEF Disk!Export
<1>2. /\ files \in [Disk!Places -> Disk!File] /\ stage \notin Resetting
      /\ Proper(files["main"], files["temporary"], files["backup"], keys, reset)
      /\ Progress(stage, failed, files["main"], files["temporary"], files["backup"])
  BY <1>1, InPlace DEF Resetting
<1>3. /\ cacheKey = cacheVault /\ cacheKey # 0 /\ files["main"].form = "plain"
      /\ files["backup"].form = "none"
  BY <1>1, <1>2 DEF Progress, Running
<1>4. PICK f : f = [form |-> "sealed", key |-> cacheKey, schema |-> files["main"].schema]
  OBVIOUS
<1>5. f \in Disk!File /\ Known(f, keys) /\ f.form = "sealed" /\ f.key = cacheKey
  <2>1. cacheKey \in 1 .. keys /\ cacheKey \in 0 .. MaxCacheKeys
    BY <1>3, KeyInRange DEF CacheInv, CacheTyped, Disk!Parameters
  <2>2. files["main"].schema \in {"old", "torn", "current"}
    BY <1>2 DEF Proper, Known, Disk!File
  <2> QED BY <1>4, <2>1, <2>2 DEF Known, Disk!File
<1>6. /\ files' \in [Disk!Places -> Disk!File] /\ files'["main"] = files["main"]
      /\ files'["temporary"] = f /\ files'["backup"] = files["backup"]
  BY <1>1, <1>4, <1>5, Put DEF Disk!Places
<1>7. Proper(files["main"], f, files["backup"], keys, reset)
  BY <1>2, <1>3, <1>5 DEF Proper
<1>8. Progress("exported", failed, files["main"], f, files["backup"])
  BY <1>3, <1>5 DEF Progress, Running
<1>9. Disk!CopyRemains'
  BY <1>3, <1>6, CopyThere DEF Disk!Copies, Disk!Places, Disk!Legible
<1> QED BY <1>1, <1>2, <1>6, <1>7, <1>8, <1>9, GoesOn DEF Running

LEMMA ExportFailsKeeps == ASSUME Disk!Parameters, CacheInv, Disk!ExportFails PROVE CacheInv'
<1>1. /\ stage = "exporting" /\ Disk!Fails("blocked") /\ UNCHANGED <<aside, kept>>
      /\ files' = [files EXCEPT !["temporary"] = Disk!Nothing]
  BY DEF Disk!ExportFails
<1>2. /\ files \in [Disk!Places -> Disk!File] /\ stage \notin Resetting
      /\ Proper(files["main"], files["temporary"], files["backup"], keys, reset)
      /\ Progress(stage, failed, files["main"], files["temporary"], files["backup"])
  BY <1>1, InPlace DEF Resetting
<1>3. files["main"].form = "plain" /\ files["backup"].form = "none"
  BY <1>1, <1>2 DEF Progress
<1>4. /\ files' \in [Disk!Places -> Disk!File] /\ files'["main"] = files["main"]
      /\ files'["temporary"] = Disk!Nothing /\ files'["backup"] = files["backup"]
  BY <1>1, Forms, Put DEF Disk!Places
<1>5. Proper(files["main"], Disk!Nothing, files["backup"], keys, reset)
  BY <1>2, <1>3, Forms DEF Proper
<1>6. Progress("blocked", TRUE, files["main"], Disk!Nothing, files["backup"])
  BY DEF Progress, Running
<1>7. Disk!CopyRemains'
  BY <1>3, <1>4, CopyThere DEF Disk!Copies, Disk!Places, Disk!Legible
<1> QED BY <1>1, <1>2, <1>4, <1>5, <1>6, <1>7, FailsWith

LEMMA SwapKeeps == ASSUME Disk!Parameters, CacheInv, Disk!Swap PROVE CacheInv'
<1>1. /\ stage = "exported" /\ Disk!Move("main", "backup") /\ Disk!Become("swapped")
      /\ UNCHANGED <<aside, kept>>
  BY DEF Disk!Swap
<1>2. /\ files \in [Disk!Places -> Disk!File] /\ stage \notin Resetting
      /\ Proper(files["main"], files["temporary"], files["backup"], keys, reset)
      /\ Progress(stage, failed, files["main"], files["temporary"], files["backup"])
  BY <1>1, InPlace DEF Resetting
<1>3. /\ cacheKey = cacheVault /\ cacheKey # 0 /\ files["main"].form = "plain"
      /\ files["backup"].form = "none" /\ files["temporary"].form = "sealed"
      /\ files["temporary"].key = cacheKey
  BY <1>1, <1>2 DEF Progress, Running
<1>4. /\ files' \in [Disk!Places -> Disk!File] /\ files'["main"] = Disk!Nothing
      /\ files'["temporary"] = files["temporary"] /\ files'["backup"] = files["main"]
  BY <1>1, MovedTo DEF Disk!Places
<1>5. Proper(Disk!Nothing, files["temporary"], files["main"], keys, reset)
  BY <1>2, <1>3, Forms DEF Proper
<1>6. Progress("swapped", failed, Disk!Nothing, files["temporary"], files["main"])
  BY <1>3, Forms DEF Progress, Running
<1>7. Disk!CopyRemains'
  BY <1>3, <1>4, CopyThere DEF Disk!Copies, Disk!Places, Disk!Legible
<1> QED BY <1>1, <1>2, <1>4, <1>5, <1>6, <1>7, GoesOn DEF Running

LEMMA PromoteKeeps == ASSUME Disk!Parameters, CacheInv, Disk!Promote PROVE CacheInv'
<1>1. /\ stage = "swapped" /\ Disk!Move("temporary", "main") /\ Disk!Become("checking")
      /\ UNCHANGED <<aside, kept>>
  BY DEF Disk!Promote
<1>2. /\ files \in [Disk!Places -> Disk!File] /\ stage \notin Resetting
      /\ Proper(files["main"], files["temporary"], files["backup"], keys, reset)
      /\ Progress(stage, failed, files["main"], files["temporary"], files["backup"])
  BY <1>1, InPlace DEF Resetting
<1>3. /\ cacheKey = cacheVault /\ cacheKey # 0 /\ files["backup"].form = "plain"
      /\ files["temporary"].form = "sealed" /\ files["temporary"].key = cacheKey
  BY <1>1, <1>2 DEF Progress, Running
<1>4. /\ files' \in [Disk!Places -> Disk!File] /\ files'["main"] = files["temporary"]
      /\ files'["temporary"] = Disk!Nothing /\ files'["backup"] = files["backup"]
  BY <1>1, MovedTo DEF Disk!Places
<1>5. Proper(files["temporary"], Disk!Nothing, files["backup"], keys, reset)
  BY <1>2, <1>3, Forms DEF Proper
<1>6. Progress("checking", failed, files["temporary"], Disk!Nothing, files["backup"])
  BY <1>3, Forms DEF Progress, Running
<1>7. Disk!CopyRemains'
  BY <1>3, <1>4, CopyThere DEF Disk!Copies, Disk!Places, Disk!Legible
<1> QED BY <1>1, <1>2, <1>4, <1>5, <1>6, <1>7, GoesOn DEF Running

LEMMA PromoteFailsKeeps == ASSUME Disk!Parameters, CacheInv, Disk!PromoteFails PROVE CacheInv'
<1>1. /\ stage = "swapped" /\ Disk!Fails("blocked") /\ UNCHANGED <<aside, kept>>
      /\ Disk!Move("backup", "main") \/ UNCHANGED files
  BY DEF Disk!PromoteFails
<1>2. /\ files \in [Disk!Places -> Disk!File] /\ stage \notin Resetting
      /\ Proper(files["main"], files["temporary"], files["backup"], keys, reset)
      /\ Progress(stage, failed, files["main"], files["temporary"], files["backup"])
  BY <1>1, InPlace DEF Resetting
<1>3. CASE UNCHANGED files
  BY <1>1, <1>2, <1>3, GivenUp DEF Disk!disk
<1>4. CASE Disk!Move("backup", "main")
  <2>1. files["main"].form = "none" /\ files["backup"].form = "plain"
    BY <1>1, <1>2 DEF Progress
  <2>2. /\ files' \in [Disk!Places -> Disk!File] /\ files'["main"] = files["backup"]
        /\ files'["temporary"] = files["temporary"] /\ files'["backup"] = Disk!Nothing
    BY <1>4, MovedTo DEF Disk!Places
  <2>3. Proper(files["backup"], files["temporary"], Disk!Nothing, keys, reset)
    BY <1>2, <2>1, Forms DEF Proper
  <2>4. Progress("blocked", TRUE, files["backup"], files["temporary"], Disk!Nothing)
    BY DEF Progress, Running
  <2>5. Disk!CopyRemains'
    BY <2>1, <2>2, CopyThere DEF Disk!Copies, Disk!Places, Disk!Legible
  <2> QED BY <1>1, <1>2, <2>2, <2>3, <2>4, <2>5, FailsWith
<1> QED BY <1>1, <1>3, <1>4

LEMMA ConvertedKeeps == ASSUME Disk!Parameters, CacheInv, Disk!Check PROVE CacheInv'
<1>1. /\ stage = "checking" /\ Disk!Readable(files["main"]) /\ Disk!Become("cleaning")
      /\ UNCHANGED <<files, aside, kept>>
  BY DEF Disk!Check, Disk!disk
<1>2. /\ files \in [Disk!Places -> Disk!File] /\ stage \notin Resetting
      /\ Proper(files["main"], files["temporary"], files["backup"], keys, reset)
      /\ Progress(stage, failed, files["main"], files["temporary"], files["backup"])
  BY <1>1, InPlace DEF Resetting
<1>3. Progress("cleaning", failed, files["main"], files["temporary"], files["backup"])
  BY <1>1, <1>2 DEF Progress, Running
<1>4. Disk!CopyRemains'
  BY <1>1, PlacesKeep DEF Disk!Become
<1> QED BY <1>1, <1>2, <1>3, <1>4, GoesOn DEF Running

LEMMA CheckFailsKeeps == ASSUME Disk!Parameters, CacheInv, Disk!CheckFails PROVE CacheInv'
<1>1. /\ stage = "checking" /\ Disk!Fails("undoing") /\ UNCHANGED <<aside, kept>>
      /\ files' = [files EXCEPT !["main"] = Disk!Nothing]
  BY DEF Disk!CheckFails
<1>2. /\ files \in [Disk!Places -> Disk!File] /\ stage \notin Resetting
      /\ Proper(files["main"], files["temporary"], files["backup"], keys, reset)
      /\ Progress(stage, failed, files["main"], files["temporary"], files["backup"])
  BY <1>1, InPlace DEF Resetting
<1>3. /\ cacheKey = cacheVault /\ cacheKey # 0 /\ files["temporary"].form = "none"
      /\ files["backup"].form = "plain"
  BY <1>1, <1>2 DEF Progress, Running
<1>4. /\ files' \in [Disk!Places -> Disk!File] /\ files'["main"] = Disk!Nothing
      /\ files'["temporary"] = files["temporary"] /\ files'["backup"] = files["backup"]
  BY <1>1, Forms, Put DEF Disk!Places
<1>5. Proper(Disk!Nothing, files["temporary"], files["backup"], keys, reset)
  BY <1>2, <1>3, Forms DEF Proper
<1>6. Progress("undoing", TRUE, Disk!Nothing, files["temporary"], files["backup"])
  BY <1>3, Forms DEF Progress, Running
<1>7. Disk!CopyRemains'
  BY <1>3, <1>4, CopyThere DEF Disk!Copies, Disk!Places, Disk!Legible
<1> QED BY <1>1, <1>2, <1>4, <1>5, <1>6, <1>7, FailsWith DEF Running

LEMMA UndoKeeps == ASSUME Disk!Parameters, CacheInv, Disk!Undo PROVE CacheInv'
<1>1. /\ stage = "undoing" /\ Disk!Move("backup", "main") /\ Disk!Become("blocked")
      /\ UNCHANGED <<aside, kept>>
  BY DEF Disk!Undo
<1>2. /\ files \in [Disk!Places -> Disk!File] /\ stage \notin Resetting
      /\ Proper(files["main"], files["temporary"], files["backup"], keys, reset)
      /\ Progress(stage, failed, files["main"], files["temporary"], files["backup"])
  BY <1>1, InPlace DEF Resetting
<1>3. failed /\ files["temporary"].form = "none" /\ files["backup"].form = "plain"
  BY <1>1, <1>2 DEF Progress
<1>4. /\ files' \in [Disk!Places -> Disk!File] /\ files'["main"] = files["backup"]
      /\ files'["temporary"] = files["temporary"] /\ files'["backup"] = Disk!Nothing
  BY <1>1, MovedTo DEF Disk!Places
<1>5. Proper(files["backup"], files["temporary"], Disk!Nothing, keys, reset)
  BY <1>2, <1>3, Forms DEF Proper
<1>6. Progress("blocked", failed, files["backup"], files["temporary"], Disk!Nothing)
  BY <1>3 DEF Progress, Running
<1>7. Disk!CopyRemains'
  BY <1>3, <1>4, CopyThere DEF Disk!Copies, Disk!Places, Disk!Legible
<1> QED BY <1>1, <1>2, <1>4, <1>5, <1>6, <1>7, GoesOn

-----------------------------------------------------------------------------
(* The opening *)

LEMMA OpenKeeps == ASSUME Disk!Parameters, CacheInv, Disk!Open PROVE CacheInv'
<1>1. /\ stage = "opening" /\ files["main"].form # "plain" /\ UNCHANGED <<aside, kept>>
  BY DEF Disk!Open, Disk!IsPlain
<1>2. /\ files \in [Disk!Places -> Disk!File] /\ stage \notin Resetting
      /\ Proper(files["main"], files["temporary"], files["backup"], keys, reset)
      /\ Progress(stage, failed, files["main"], files["temporary"], files["backup"])
  BY <1>1, InPlace DEF Resetting
<1>3. /\ cacheKey = cacheVault /\ cacheKey # 0 /\ files["temporary"].form = "none"
      /\ files["backup"].form = "none"
  BY <1>1, <1>2 DEF Progress, Running
<1>4. CASE files["main"] = Disk!Nothing
  <2>1. files' = [files EXCEPT !["main"] = Disk!Fresh] /\ Disk!Become("upgrading")
    BY <1>4 DEF Disk!Open, Disk!Absent
  <2>2. /\ files' \in [Disk!Places -> Disk!File] /\ files'["main"] = Disk!Fresh
        /\ files'["temporary"] = files["temporary"] /\ files'["backup"] = files["backup"]
    BY <2>1, Forms, Put DEF Disk!Places
  <2>3. reset
    BY <1>2, <1>3, <1>4, Forms DEF Proper
  <2>4. Proper(Disk!Fresh, files["temporary"], files["backup"], keys, reset)
    BY <1>2, <1>3, <2>3, Forms DEF Proper
  <2>5. Progress("upgrading", failed, Disk!Fresh, files["temporary"], files["backup"])
    BY <1>3, <2>3, Forms DEF Progress, Running, Disk!Readable
  <2>6. Disk!CopyRemains'
    BY <1>1, <1>4, <2>1, <2>2, Forms, PlacesKeep DEF Disk!Places, Disk!Become
  <2> QED BY <1>1, <1>2, <2>1, <2>2, <2>4, <2>5, <2>6, GoesOn DEF Running
<1>5. CASE files["main"] # Disk!Nothing
  <2>1. UNCHANGED files
        /\ Disk!Become(IF Disk!Readable(files["main"]) THEN "upgrading" ELSE "blocked")
    BY <1>5 DEF Disk!Open, Disk!Absent
  <2>2. PICK s \in {"upgrading", "blocked"} :
            Disk!Become(s) /\ (s = "upgrading" <=> Disk!Readable(files["main"]))
    BY <2>1
  <2>3. s = "upgrading" => files["main"].form = "sealed" \/ reset
    BY <1>2, <2>2 DEF Proper, Disk!Readable
  <2>4. s = "blocked" /\ ~reset => keys > 1
    BY <1>1, <1>2, <1>3, <1>5, <2>2, KeyInRange DEF Proper, Known, Disk!Readable
  <2>5. Progress(s, failed, files["main"], files["temporary"], files["backup"])
    BY <1>3, <2>2, <2>3, <2>4 DEF Progress
  <2>6. Disk!CopyRemains'
    BY <1>1, <2>1, <2>2, PlacesKeep DEF Disk!Become
  <2> QED BY <1>1, <1>2, <2>1, <2>2, <2>5, <2>6, GoesOn DEF Running
<1> QED BY <1>4, <1>5

\* the schema of the database becomes c, and it is written with key k
LEMMA Written ==
    ASSUME Disk!Parameters, CacheInv, cacheKey # 0, cacheKey = cacheVault, NEW c \in {"torn",
           "current"},
           NEW m \in Disk!File, m.form \in {"sealed", "fresh"}, Known(m, keys),
           NEW f, f = [form |-> m.form, key |-> cacheKey, schema |-> c]
    PROVE  /\ f \in Disk!File /\ Known(f, keys) /\ f.form = m.form /\ f.schema = c
              /\ f.key = cacheKey
<1>1. cacheKey \in 1 .. keys /\ cacheKey \in 0 .. MaxCacheKeys
  BY KeyInRange DEF CacheInv, CacheTyped, Disk!Parameters
<1>2. f \in Disk!File /\ f.form = m.form /\ f.schema = c /\ f.key = cacheKey
  BY <1>1 DEF Disk!File
<1> QED BY <1>1, <1>2 DEF Known

LEMMA UpgradeKeeps == ASSUME Disk!Parameters, CacheInv, Disk!Upgrade PROVE CacheInv'
<1>1. stage = "upgrading" /\ UNCHANGED <<aside, kept>>
  BY DEF Disk!Upgrade
<1>2. /\ files \in [Disk!Places -> Disk!File] /\ stage \notin Resetting
      /\ Proper(files["main"], files["temporary"], files["backup"], keys, reset)
      /\ Progress(stage, failed, files["main"], files["temporary"], files["backup"])
  BY <1>1, InPlace DEF Resetting
<1>3. /\ cacheKey = cacheVault /\ cacheKey # 0 /\ files["temporary"].form = "none"
      /\ files["backup"].form = "none" /\ Disk!Readable(files["main"])
      /\ files["main"].form = "sealed" \/ reset
  BY <1>1, <1>2 DEF Progress, Running
<1>4. files["main"] \in Disk!File /\ Known(files["main"], keys)
  BY <1>2 DEF Proper, Known
<1>5. files["main"].form = "sealed" \/ (reset /\ files["main"].form = "fresh")
  BY <1>3 DEF Disk!Readable
<1>6. CASE files["main"].schema = "old"
  <2>1. PICK f : f = [form |-> files["main"].form, key |-> cacheKey, schema |-> "torn"]
    OBVIOUS
  <2>2. /\ f \in Disk!File /\ Known(f, keys) /\ f.form = files["main"].form /\ f.key = cacheKey
    <3>1. files["main"].form \in {"sealed", "fresh"}
      BY <1>5
    <3> QED BY <1>3, <1>4, <2>1, <3>1, Written
  <2>3. files' = [files EXCEPT !["main"] = f] /\ Disk!Become("upgraded")
    BY <1>2, <1>6, <2>1 DEF Disk!Upgrade, Disk!Places
  <2>4. /\ files' \in [Disk!Places -> Disk!File] /\ files'["main"] = f
        /\ files'["temporary"] = files["temporary"] /\ files'["backup"] = files["backup"]
    BY <2>2, <2>3, Put DEF Disk!Places
  <2>5. Proper(f, files["temporary"], files["backup"], keys, reset)
    BY <1>2, <1>3, <1>5, <2>2 DEF Proper
  <2>6. Progress("upgraded", failed, f, files["temporary"], files["backup"])
    BY <1>3, <1>5, <2>2 DEF Progress, Running
  <2>7. Disk!CopyRemains'
    <3>1. CASE files["main"].form = "sealed"
      BY <1>3, <2>2, <2>3, <2>4, <3>1, CopyThere DEF Disk!Copies, Disk!Places, Disk!Legible,
         Disk!Become
    <3>2. CASE files["main"].form = "fresh"
      <4>1. \A p \in Disk!Places : files[p].form \in {"plain", "sealed"} =>
                \E q \in Disk!Places : files'[q] = files[p]
        BY <2>4, <3>2 DEF Disk!Places
      <4> QED BY <1>1, <2>3, <4>1, PlacesKeep DEF Disk!Become
    <3> QED BY <1>5, <3>1, <3>2
  <2> QED BY <1>1, <1>2, <2>3, <2>4, <2>5, <2>6, <2>7, GoesOn DEF Running
<1>7. CASE files["main"].schema # "old"
  <2>1. UNCHANGED files /\ files["main"].key = cacheKey
    BY <1>3, <1>4, <1>7 DEF Disk!Upgrade, Disk!Readable, Known
  <2>2. PICK s \in {"blocked", "open"} :
            Disk!Become(s) /\ (s = "blocked" => files["main"].schema = "torn")
    BY <1>7 DEF Disk!Upgrade
  <2>3. Progress(s, failed, files["main"], files["temporary"], files["backup"])
    BY <1>3, <1>5, <2>1, <2>2 DEF Progress
  <2>4. Disk!CopyRemains'
    BY <1>1, <2>1, <2>2, PlacesKeep DEF Disk!Become
  <2> QED BY <1>1, <1>2, <2>1, <2>2, <2>3, <2>4, GoesOn DEF Running
<1> QED BY <1>6, <1>7

LEMMA WriteVersionKeeps == ASSUME Disk!Parameters, CacheInv, Disk!WriteVersion PROVE CacheInv'
<1>1. /\ stage = "upgraded" /\ Disk!Become("open") /\ UNCHANGED <<aside, kept>>
      /\ files' = [files EXCEPT !["main"].schema = "current"]
  BY DEF Disk!WriteVersion
<1>2. /\ files \in [Disk!Places -> Disk!File] /\ stage \notin Resetting
      /\ Proper(files["main"], files["temporary"], files["backup"], keys, reset)
      /\ Progress(stage, failed, files["main"], files["temporary"], files["backup"])
  BY <1>1, InPlace DEF Resetting
<1>3. /\ cacheKey = cacheVault /\ cacheKey # 0 /\ files["temporary"].form = "none"
      /\ files["backup"].form = "none" /\ files["main"].key = cacheKey
      /\ files["main"].form = "sealed" \/ (reset /\ files["main"].form = "fresh")
  BY <1>1, <1>2 DEF Progress, Running
<1>4. files["main"] \in Disk!File /\ Known(files["main"], keys)
  BY <1>2 DEF Proper, Known
<1>5. PICK f : f = [form |-> files["main"].form, key |-> cacheKey, schema |-> "current"]
  OBVIOUS
<1>6. f \in Disk!File /\ Known(f, keys) /\ f.form = files["main"].form /\ f.key = cacheKey
  <2>1. files["main"].form \in {"sealed", "fresh"}
    BY <1>3
  <2> QED BY <1>3, <1>4, <1>5, <2>1, Written
<1>7. files' = [files EXCEPT !["main"] = f]
  <2>1. f = [files["main"] EXCEPT !.schema = "current"]
    BY <1>3, <1>4, <1>5 DEF Disk!File
  <2> QED BY <1>1, <1>2, <2>1 DEF Disk!Places
<1>8. /\ files' \in [Disk!Places -> Disk!File] /\ files'["main"] = f
      /\ files'["temporary"] = files["temporary"] /\ files'["backup"] = files["backup"]
  BY <1>6, <1>7, Put DEF Disk!Places
<1>9. Proper(f, files["temporary"], files["backup"], keys, reset)
  BY <1>2, <1>3, <1>6 DEF Proper
<1>10. Progress("open", failed, f, files["temporary"], files["backup"])
  BY <1>3, <1>6 DEF Progress, Running
<1>11. Disk!CopyRemains'
  <2>1. CASE files["main"].form = "sealed"
    BY <1>1, <1>3, <1>6, <1>8, <2>1, CopyThere DEF Disk!Copies, Disk!Places, Disk!Legible,
       Disk!Become
  <2>2. CASE files["main"].form = "fresh"
    <3>1. \A p \in Disk!Places : files[p].form \in {"plain", "sealed"} =>
              \E q \in Disk!Places : files'[q] = files[p]
      BY <1>8, <2>2 DEF Disk!Places
    <3> QED BY <1>1, <3>1, PlacesKeep DEF Disk!Become
  <2> QED BY <1>3, <2>1, <2>2
<1> QED BY <1>1, <1>2, <1>8, <1>9, <1>10, <1>11, GoesOn DEF Running

-----------------------------------------------------------------------------
(* The reset *)

LEMMA ConfirmKeeps == ASSUME Disk!Parameters, CacheInv, Disk!Confirm PROVE CacheInv'
<1>1. /\ stage = "blocked" /\ stage' = "moving" /\ reset' = TRUE
      /\ UNCHANGED <<files, aside, kept, cacheVault, cacheKey, keys, failed, lost, failures>>
  BY DEF Disk!Confirm, Disk!disk
<1>2. Proper(At("main"), At("temporary"), At("backup"), keys, reset)
  BY DEF CacheInv, Layout
<1>3. Layout'
  <2>1. Proper(At("main"), At("temporary"), At("backup"), keys, TRUE)
    BY <1>2 DEF Proper
  <2> QED BY <1>1, <2>1 DEF CacheInv, Layout, Resetting, At, Disk!Absent
<1>4. CacheTyped'
  BY <1>1 DEF CacheInv, CacheTyped, Disk!Stages
<1>5. Located'
  BY <1>1 DEF Located, Progress, Running
<1>6. Disk!CopyRemains'
  BY <1>1, PlacesKeep
<1> QED BY <1>3, <1>4, <1>5, <1>6 DEF CacheInv

\* files move to the folder and back, or are left there
LEMMA ResetGoesOn ==
    ASSUME Disk!Parameters, CacheInv, stage \in Resetting,
           NEW s \in Resetting \cup {"blocked"}, Disk!Become(s) \/ Disk!Fails(s),
           files' \in [Disk!Places -> Disk!File], aside' \in [Disk!Places -> Disk!File],
           kept' \subseteq Disk!File,
           \A p \in Disk!Places : files'[p] = Disk!Nothing \/ aside'[p] = Disk!Nothing,
           \A p \in Disk!Places : (At(p))' = At(p) \/ (At(p))' = Disk!Nothing,
           s = "blocked" => aside' = Disk!NoFiles, s = "moved" => files' = Disk!NoFiles,
           \A f \in Disk!Copies : f.form \in {"plain", "sealed"} => f \in Disk!Copies'
    PROVE  CacheInv'
<1>1. /\ stage' = s /\ UNCHANGED <<cacheVault, cacheKey, keys, reset, lost>>
      /\ failed' = failed \/ failed' = TRUE
  BY DEF Disk!Become, Disk!Fails
<1>2. reset /\ Proper(At("main"), At("temporary"), At("backup"), keys, reset)
  BY DEF CacheInv, Layout
<1>3. Proper((At("main"))', (At("temporary"))', (At("backup"))', keys, reset)
  BY <1>2, Forms DEF Proper, Disk!Places
<1>4. Layout'
  BY <1>1, <1>2, <1>3 DEF Layout, Disk!Absent
<1>5. CacheTyped'
  <2>1. failures' \in 0 .. MaxFailures
    BY DEF CacheInv, CacheTyped, Disk!Become, Disk!Fails, Disk!Happens, Disk!Parameters
  <2>2. s \in Disk!Stages /\ failed' \in BOOLEAN
    BY <1>1 DEF Resetting, Disk!Stages, CacheInv, CacheTyped
  <2> QED BY <1>1, <2>1, <2>2 DEF CacheInv, CacheTyped
<1>6. Located'
  <2>1. s = "moved" => \A p \in Disk!Places : files'[p].form = "none"
    BY Forms DEF Disk!NoFiles
  <2>2. s \notin Running
    BY DEF Resetting, Running
  <2> QED BY <1>1, <1>2, <2>1, <2>2 DEF Located, Progress, Disk!Places, Resetting, Running
<1>7. Disk!CopyRemains'
  BY <1>1, CopiesStay
<1> QED BY <1>4, <1>5, <1>6, <1>7 DEF CacheInv

\* where the files are while a reset goes on
LEMMA Astray ==
    ASSUME CacheInv
    PROVE  /\ files \in [Disk!Places -> Disk!File] /\ aside \in [Disk!Places -> Disk!File]
              /\ kept \subseteq Disk!File
           /\ \A p \in Disk!Places : files[p] = Disk!Nothing \/ aside[p] = Disk!Nothing
BY DEF CacheInv, CacheTyped, Layout, Disk!Absent

\* one file moves between its place and the folder
LEMMA OneMoves ==
    ASSUME Disk!Parameters, CacheInv, stage \in Resetting, NEW p \in Disk!Places,
           NEW s \in Resetting,
           s # "moved", Disk!Become(s), UNCHANGED kept, NEW f, NEW g,
           files' = [files EXCEPT ![p] = f], aside' = [aside EXCEPT ![p] = g],
           \/ f = Disk!Nothing /\ g = files[p] /\ files[p] # Disk!Nothing
           \/ f = aside[p] /\ g = Disk!Nothing /\ files[p] = Disk!Nothing
    PROVE  CacheInv'
<1>1. /\ files \in [Disk!Places -> Disk!File] /\ aside \in [Disk!Places -> Disk!File]
         /\ kept \subseteq Disk!File
      /\ \A q \in Disk!Places : files[q] = Disk!Nothing \/ aside[q] = Disk!Nothing
  BY Astray
<1>2. f \in Disk!File /\ g \in Disk!File
  BY <1>1, Forms
<1>3. /\ files' \in [Disk!Places -> Disk!File] /\ aside' \in [Disk!Places -> Disk!File]
         /\ kept' \subseteq Disk!File
      /\ files'[p] = f /\ aside'[p] = g
      /\ \A q \in Disk!Places \ {p} : files'[q] = files[q] /\ aside'[q] = aside[q]
  BY <1>1, <1>2
<1>4. \A q \in Disk!Places : files'[q] = Disk!Nothing \/ aside'[q] = Disk!Nothing
  BY <1>1, <1>3
<1>5. \A q \in Disk!Places : (At(q))' = At(q)
  BY <1>1, <1>3 DEF At, Disk!Absent
<1>6. \A c \in Disk!Copies : c.form \in {"plain", "sealed"} => c \in Disk!Copies'
  <2>1. \A q \in Disk!Places : files[q] # Disk!Nothing => files[q] \in Disk!Copies'
    BY <1>1, <1>3 DEF Disk!Copies
  <2>2. \A q \in Disk!Places : aside[q] # Disk!Nothing => aside[q] \in Disk!Copies'
    BY <1>1, <1>3 DEF Disk!Copies
  <2> QED BY <2>1, <2>2, Forms DEF Disk!Copies
<1>7. s # "blocked"
  BY DEF Resetting
<1> QED BY <1>3, <1>4, <1>5, <1>6, <1>7, ResetGoesOn

LEMMA PreserveKeeps ==
    ASSUME Disk!Parameters, CacheInv, NEW p \in Disk!Places, Disk!Preserve(p) PROVE CacheInv'
BY OneMoves DEF Disk!Preserve, Disk!Absent, Resetting

LEMMA TakeBackKeeps ==
    ASSUME Disk!Parameters, CacheInv, NEW p \in Disk!Places, Disk!TakeBack(p) PROVE CacheInv'
BY OneMoves DEF Disk!TakeBack, Disk!Absent, Resetting

\* the files stay where they are
LEMMA StayKeeps ==
    ASSUME Disk!Parameters, CacheInv, UNCHANGED Disk!disk,
           \/ stage = "moving" /\ files = Disk!NoFiles /\ Disk!Become("moved")
           \/ stage = "moving" /\ Disk!Fails("returning")
           \/ stage = "moved" /\ Disk!Fails("restoring")
           \/ stage \in {"returning", "restoring"} /\ aside = Disk!NoFiles /\ Disk!Become("blocked")
    PROVE  CacheInv'
<1>1. UNCHANGED <<files, aside, kept>> /\ stage \in Resetting
  BY DEF Disk!disk, Resetting
<1>2. /\ files \in [Disk!Places -> Disk!File] /\ aside \in [Disk!Places -> Disk!File]
         /\ kept \subseteq Disk!File
      /\ \A q \in Disk!Places : files[q] = Disk!Nothing \/ aside[q] = Disk!Nothing
  BY Astray
<1>3. \A p \in Disk!Places : (At(p))' = At(p)
  BY <1>1 DEF At, Disk!Absent
<1>4. Disk!Copies' = Disk!Copies
  BY <1>1 DEF Disk!Copies
<1>5. PICK s \in Resetting \cup {"blocked"} :
          /\ Disk!Become(s) \/ Disk!Fails(s)
          /\ s = "blocked" => aside = Disk!NoFiles
          /\ s = "moved" => files = Disk!NoFiles
  BY DEF Resetting
<1> QED BY <1>1, <1>2, <1>3, <1>4, <1>5, ResetGoesOn

LEMMA LeftBehindKeeps ==
    ASSUME Disk!Parameters, CacheInv, NEW p \in Disk!Places, Disk!LeftBehind(p) PROVE CacheInv'
<1>1. /\ stage = "returning" /\ aside[p] # Disk!Nothing /\ Disk!Fails("returning")
         /\ UNCHANGED files
      /\ kept' = kept \cup {aside[p]} /\ aside' = [aside EXCEPT ![p] = Disk!Nothing]
  BY DEF Disk!LeftBehind
<1>2. /\ files \in [Disk!Places -> Disk!File] /\ aside \in [Disk!Places -> Disk!File]
         /\ kept \subseteq Disk!File
      /\ \A q \in Disk!Places : files[q] = Disk!Nothing \/ aside[q] = Disk!Nothing
  BY Astray
<1>3. /\ aside' \in [Disk!Places -> Disk!File] /\ kept' \subseteq Disk!File
         /\ aside'[p] = Disk!Nothing
      /\ \A q \in Disk!Places \ {p} : aside'[q] = aside[q]
  BY <1>1, <1>2, Forms
<1>4. \A q \in Disk!Places : files'[q] = Disk!Nothing \/ aside'[q] = Disk!Nothing
  BY <1>1, <1>2, <1>3
<1>5. \A q \in Disk!Places : (At(q))' = At(q) \/ (At(q))' = Disk!Nothing
  BY <1>1, <1>2, <1>3 DEF At, Disk!Absent
<1>6. \A c \in Disk!Copies : c.form \in {"plain", "sealed"} => c \in Disk!Copies'
  BY <1>1, <1>3 DEF Disk!Copies
<1> QED BY <1>1, <1>2, <1>3, <1>4, <1>5, <1>6, ResetGoesOn DEF Resetting

LEMMA RestoreFailsKeeps == ASSUME Disk!Parameters, CacheInv, Disk!RestoreFails PROVE CacheInv'
<1>1. /\ stage = "restoring" /\ kept' = Disk!Copies \ {Disk!Nothing} /\ files' = Disk!NoFiles
         /\ aside' = Disk!NoFiles
      /\ Disk!Fails("blocked")
  BY DEF Disk!RestoreFails
<1>2. /\ files \in [Disk!Places -> Disk!File] /\ aside \in [Disk!Places -> Disk!File]
         /\ kept \subseteq Disk!File
  BY Astray
<1>3. /\ files' \in [Disk!Places -> Disk!File] /\ aside' \in [Disk!Places -> Disk!File]
         /\ kept' \subseteq Disk!File
      /\ \A p \in Disk!Places : files'[p] = Disk!Nothing /\ aside'[p] = Disk!Nothing
  BY <1>1, <1>2, Forms DEF Disk!NoFiles, Disk!Copies
<1>4. \A p \in Disk!Places : (At(p))' = Disk!Nothing
  BY <1>3 DEF At, Disk!Absent
<1>5. \A f \in Disk!Copies : f.form \in {"plain", "sealed"} => f \in Disk!Copies'
  BY <1>1, Forms DEF Disk!Copies
<1> QED BY <1>1, <1>3, <1>4, <1>5, ResetGoesOn DEF Resetting

LEMMA ClearKeyKeeps == ASSUME Disk!Parameters, CacheInv, Disk!ClearKey PROVE CacheInv'
<1>1. /\ stage' = "down" /\ cacheKey' = 0 /\ failed' = FALSE /\ aside' = Disk!NoFiles
         /\ cacheVault' = 0
      /\ UNCHANGED <<files, keys, reset, failures>>
      /\ kept' = kept \cup ({aside[p] : p \in Disk!Places} \ {Disk!Nothing})
      /\ lost' = (lost \/ \A f \in Disk!Copies : f.form # "plain")
  BY DEF Disk!ClearKey, Disk!Forgotten
<1>2. Proper(files["main"], files["temporary"], files["backup"], keys, reset)
  BY LeftIn
<1>3. Layout'
  BY <1>1, <1>2, Placed DEF Resetting
<1>4. CacheTyped'
  <2>1. aside' \in [Disk!Places -> Disk!File] /\ kept' \subseteq Disk!File
    BY <1>1, Forms DEF Disk!NoFiles, CacheInv, CacheTyped
  <2>2. stage' \in Disk!Stages /\ failed' \in BOOLEAN /\ lost' \in BOOLEAN
    BY <1>1 DEF Disk!Stages
  <2>3. cacheVault' \in 0 .. keys' /\ cacheKey' \in 0 .. keys'
    BY <1>1 DEF CacheInv, CacheTyped
  <2> QED BY <1>1, <2>1, <2>2, <2>3 DEF CacheInv, CacheTyped
<1>5. Located'
  BY <1>1 DEF Located, Progress, Running
<1>6. Disk!CopyRemains'
  <2>1. \A f \in Disk!Copies : f.form = "plain" => f \in Disk!Copies'
    BY <1>1, Forms DEF Disk!Copies
  <2> QED BY <1>1, <2>1 DEF Disk!CopyRemains, Disk!Legible
<1> QED BY <1>3, <1>4, <1>5, <1>6 DEF CacheInv

-----------------------------------------------------------------------------

LEMMA CacheStart == ASSUME Disk!Parameters, Disk!Init PROVE CacheInv
<1>1. /\ aside = Disk!NoFiles /\ kept = {} /\ cacheVault = keys /\ cacheKey = 0 /\ stage = "down"
      /\ failed = FALSE /\ reset = FALSE /\ lost = FALSE /\ failures = 0
  BY DEF Disk!Init
<1>2. PICK m \in Disk!File : /\ files = [Disk!NoFiles EXCEPT !["main"] = m] /\ Known(m, keys)
                        /\ keys \in {0, 1} /\ Disk!Legible(m) /\ m.form \in {"plain", "sealed"}
  <2>1. CASE files = [Disk!NoFiles EXCEPT !["main"] = Disk!Plain] /\ keys = 0
    BY <2>1, Forms DEF Disk!Legible
  <2>2. CASE /\ keys = 1
             /\ \E s \in {"old", "current"} :
                   files = [Disk!NoFiles EXCEPT !["main"] = [form |-> "sealed", key |-> 1,
                   schema |-> s]]
    <3>1. PICK s \in {"old", "current"} :
              files = [Disk!NoFiles EXCEPT !["main"] = [form |-> "sealed", key |-> 1, schema |-> s]]
      BY <2>2
    <3>2. PICK m : m = [form |-> "sealed", key |-> 1, schema |-> s]
      OBVIOUS
    <3>3. m \in Disk!File /\ m.form = "sealed" /\ m.key = 1
      BY <3>2 DEF Disk!File, Disk!Parameters
    <3>4. Known(m, keys) /\ Disk!Legible(m)
      BY <1>1, <2>2, <3>3 DEF Known, Disk!Legible
    <3> QED BY <2>2, <3>1, <3>2, <3>3, <3>4
  <2> QED BY <2>1, <2>2 DEF Disk!Init
<1>3. /\ files \in [Disk!Places -> Disk!File] /\ files["main"] = m
      /\ files["temporary"] = Disk!Nothing /\ files["backup"] = Disk!Nothing
  BY <1>2, Forms DEF Disk!NoFiles, Disk!Places
<1>4. Proper(m, Disk!Nothing, Disk!Nothing, keys, reset)
  BY <1>1, <1>2, Forms DEF Proper
<1>5. \A p \in Disk!Places : At(p) = files[p] /\ aside[p] = Disk!Nothing
  BY <1>1 DEF At, Disk!Absent, Disk!NoFiles
<1>6. Layout
  BY <1>1, <1>3, <1>4, <1>5 DEF Layout, Resetting, Disk!Places
<1>7. CacheTyped
  <2>1. aside \in [Disk!Places -> Disk!File] /\ stage \in Disk!Stages
    BY <1>1, Forms DEF Disk!NoFiles, Disk!Stages
  <2>2. keys \in 0 .. MaxCacheKeys /\ cacheVault \in 0 .. keys /\ cacheKey \in 0 .. keys
        /\ failures \in 0 .. MaxFailures
    BY <1>1, <1>2 DEF Disk!Parameters
  <2> QED BY <1>1, <1>3, <2>1, <2>2 DEF CacheTyped
<1>8. Located
  BY <1>1 DEF Located, Progress, Running
<1>9. Disk!CopyRemains
  BY <1>2, <1>3 DEF Disk!CopyRemains, Disk!Copies, Disk!Places
<1> QED BY <1>6, <1>7, <1>8, <1>9 DEF CacheInv

LEMMA CacheStep == ASSUME Disk!Parameters, CacheInv, [Disk!Next]_(Disk!cvars) PROVE CacheInv'
<1>1. CASE Disk!Start \/ Disk!LoseKey \/ Disk!Stop \/ Disk!Confirm \/ Disk!ClearKey
  BY <1>1, StartKeeps, LoseKeyKeeps, StopKeeps, ConfirmKeeps, ClearKeyKeeps
<1>2. CASE Disk!KeyFails \/ Disk!StartFails
  BY <1>2, GivenUp DEF Disk!KeyFails, Disk!StartFails, Resetting
<1>3. CASE Disk!RestoreBackup \/ Disk!PromoteLeftover \/ Disk!Recover \/ Disk!Clean \/ Disk!Cleaned
  BY <1>3, RestoreBackupKeeps, PromoteLeftoverKeeps, RecoverKeeps, CleanKeeps, CleanedKeeps
<1>4. CASE Disk!Attach \/ Disk!Export \/ Disk!ExportFails \/ Disk!Swap \/ Disk!Promote \/ Disk!PromoteFails
  BY <1>4, AttachKeeps, ExportKeeps, ExportFailsKeeps, SwapKeeps, PromoteKeeps,
     PromoteFailsKeeps
<1>5. CASE Disk!Check \/ Disk!CheckFails \/ Disk!Undo \/ Disk!Open \/ Disk!Upgrade \/ Disk!WriteVersion
  BY <1>5, ConvertedKeeps, CheckFailsKeeps, UndoKeeps, OpenKeeps, UpgradeKeeps,
     WriteVersionKeeps
<1>6. CASE Disk!Preserved \/ Disk!PreserveFails \/ Disk!ClearFails \/ Disk!Returned
  BY <1>6, StayKeeps DEF Disk!Preserved, Disk!PreserveFails, Disk!ClearFails, Disk!Returned
<1>7. CASE Disk!RestoreFails \/ \E p \in Disk!Places : Disk!Preserve(p) \/ Disk!TakeBack(p) \/ Disk!LeftBehind(p)
  BY <1>7, RestoreFailsKeeps, PreserveKeeps, TakeBackKeeps, LeftBehindKeeps
<1>8. CASE UNCHANGED Disk!cvars
  <2>1. UNCHANGED <<files, aside, kept, cacheVault, cacheKey, stage, keys, failed, reset, lost,
        failures>>
    BY <1>8 DEF Disk!cvars, Disk!disk
  <2>2. CacheTyped' /\ Layout' /\ Located'
    BY <2>1 DEF CacheInv, CacheTyped, Layout, At, Disk!Absent, Located, Progress,
       Disk!Readable
  <2> QED BY <2>1, <2>2, PlacesKeep DEF CacheInv
<1> QED BY <1>1, <1>2, <1>3, <1>4, <1>5, <1>6, <1>7, <1>8 DEF Disk!Next

LEMMA CacheIsWhole == ASSUME Disk!Parameters, CacheInv PROVE Disk!TypeOK /\ Disk!CacheIsKept
<1>1. CacheTyped /\ Located /\ Disk!CopyRemains
  BY DEF CacheInv
<1>2. Disk!TypeOK
  BY <1>1 DEF CacheTyped, Disk!TypeOK, Disk!Parameters
<1>3. stage \in {"open", "blocked"} =>
          Proper(files["main"], files["temporary"], files["backup"], keys, reset)
  BY InPlace DEF Resetting
<1>4. Disk!OpensWhole
  BY <1>1, <1>3, Forms DEF Located, Progress, Disk!OpensWhole, Running, Proper, Known,
     Disk!Absent
<1>5. Disk!BlockedForCause
  BY <1>1 DEF Located, Progress, Disk!BlockedForCause
<1> QED BY <1>1, <1>2, <1>4, <1>5 DEF Disk!CacheIsKept

LEMMA CacheIsKeptThm ==
    ASSUME Disk!Parameters PROVE Disk!Spec => [](Disk!TypeOK /\ Disk!CacheIsKept)
<1>1. Disk!Init => CacheInv
  BY CacheStart
<1>2. CacheInv /\ [Disk!Next]_(Disk!cvars) => CacheInv'
  BY CacheStep
<1>3. CacheInv => Disk!TypeOK /\ Disk!CacheIsKept
  BY CacheIsWhole
<1> QED BY <1>1, <1>2, <1>3, PTL DEF Disk!Spec

-----------------------------------------------------------------------------
(* MlsDelivery *)
(***************************************************************************)
(* A box takes a device from epoch n, 0 for none, to epoch e: first w      *)
(* Welcomes, then the commits that follow the epoch "from".                *)
(***************************************************************************)
Commit(e) == [kind |-> "commit", epoch |-> e]
Welcome(e) == [kind |-> "welcome", epoch |-> e]
Takes(box, n, e, w, from) ==
    /\ Len(box) = w + (e - from)
    /\ w = 1 => box[1].kind = "welcome"
    /\ IF n = 0 THEN w = 1 /\ box[1].epoch = from ELSE from = n
    /\ \A i \in 1 .. (e - from) : box[w + i] = Commit(from + i)
Caught(box, n, e) == \E w \in {0, 1}, from \in 0 .. e : Takes(box, n, e, w, from)

\* the epoch the server counts on: a reply on its way makes it the next one
Reached(d) == IF op[d].step = "accepted" THEN group[d] + 1 ELSE group[d]
Enrolled == {d \in MlsDevices : identity[d] # "none"}

\* a device was a member at epoch n of the group
MemberAt(d, n) == n > 0 => n <= Mls!Epoch /\ d \in roster[n]

MlsTyped ==
    /\ identity \in [MlsDevices -> {"none", "active", "revoked"}]
    /\ packages \in [MlsDevices -> 0 .. Stock]
    /\ claims \subseteq MlsDevices \X MlsDevices
    /\ roster \in Seq(SUBSET MlsDevices) /\ Mls!Epoch <= MaxEpoch
    /\ mailbox \in [MlsDevices -> Seq(Mls!Delivery)]
    /\ reach \subseteq MlsDevices /\ ready \subseteq MlsDevices
    /\ group \in [MlsDevices -> 0 .. MaxEpoch]
    /\ op \in [MlsDevices -> Mls!Op]
    /\ stranded \subseteq MlsDevices /\ incidents \in 0 .. MaxIncidents

\* what a device holds, has asked for and is sent is of epochs it is a member of
Grounded == \A d \in MlsDevices :
    /\ MemberAt(d, group[d]) /\ MemberAt(d, Reached(d))
    /\ \A i \in 1 .. Len(mailbox[d]) : MemberAt(d, mailbox[d][i].epoch)

\* a change that device d, with the group at epoch n, can be working on
Busy(d, o, n) ==
    /\ o.step # "idle" => d \in Enrolled
    /\ o.step = "sent" => n < MaxEpoch
    /\ o.adds \subseteq Enrolled \ {d}

\* only registered devices change the group or get into it
OfEnrolled ==
    /\ Mls!Members \subseteq Enrolled
    /\ \A c \in claims : c[2] \in Enrolled \ {c[1]}
    /\ \A d \in MlsDevices : Busy(d, op[d], group[d])

\* a device that is not a member, and was not one before a revocation, has nothing
Stranger(d) == mailbox[d] = <<>> /\ group[d] = 0 /\ op[d].step # "accepted"
Strangers == \A d \in MlsDevices : identity[d] # "revoked" /\ d \notin Mls!Members => Stranger(d)

Following ==
    \A d \in (Mls!Members \cap Mls!Active) \ stranded : Caught(mailbox[d], Reached(d), Mls!Epoch)

MlsInv == MlsTyped /\ Grounded /\ OfEnrolled /\ Strangers /\ Following

-----------------------------------------------------------------------------
LEMMA Kinds ==
    \A e : /\ Commit(e).kind = "commit" /\ Commit(e).epoch = e
           /\ Welcome(e).kind = "welcome" /\ Welcome(e).epoch = e
BY DEF Commit, Welcome

LEMMA CaughtMore ==
    ASSUME NEW T, NEW box \in Seq(T), NEW n \in Nat, NEW e \in Nat, Caught(box, n, e),
           NEW m, m = Commit(e + 1), m \in T
    PROVE  Caught(Append(box, m), n, e + 1)
<1>1. PICK w \in {0, 1}, from \in 0 .. e : Takes(box, n, e, w, from)
  BY DEF Caught
<1>2. PICK b : b = Append(box, m)
  OBVIOUS
<1>3. /\ Len(b) = Len(box) + 1 /\ b[Len(b)] = m /\ Len(box) \in Nat
      /\ \A i \in 1 .. Len(box) : b[i] = box[i]
  BY <1>2
<1>4. from <= e /\ Len(box) = w + (e - from)
  BY <1>1 DEF Takes
<1>5. (w = 1 \/ n = 0) => w = 1 /\ b[1] = box[1]
  <2>1. n = 0 => w = 1
    BY <1>1 DEF Takes
  <2>2. w = 1 => 1 \in 1 .. Len(box)
    BY <1>4
  <2> QED BY <1>3, <2>1, <2>2
<1>6. \A i \in 1 .. (e + 1 - from) : b[w + i] = Commit(from + i)
  <2> TAKE i \in 1 .. (e + 1 - from)
  <2>1. CASE i = e + 1 - from
    <3>1. w + i = Len(b) /\ from + i = e + 1
      BY <1>3, <1>4, <2>1
    <3> QED BY <1>3, <3>1
  <2>2. CASE i # e + 1 - from
    <3>1. i \in 1 .. (e - from) /\ w + i \in 1 .. Len(box)
      BY <1>4, <2>2
    <3> QED BY <1>1, <1>3, <3>1 DEF Takes
  <2> QED BY <2>1, <2>2
<1>7. Takes(b, n, e + 1, w, from)
  BY <1>1, <1>3, <1>4, <1>5, <1>6 DEF Takes
<1> QED BY <1>2, <1>7 DEF Caught

LEMMA CaughtWelcome == ASSUME NEW e \in Nat PROVE Caught(<<Welcome(e)>>, 0, e)
<1>1. Takes(<<Welcome(e)>>, 0, e, 1, e)
  BY Kinds DEF Takes
<1> QED BY <1>1 DEF Caught

LEMMA CaughtFirst == Caught(<<>>, 1, 1)
<1>1. Takes(<<>>, 1, 1, 0, 1)
  BY DEF Takes
<1> QED BY <1>1 DEF Caught

LEMMA CaughtOwn ==
    ASSUME NEW box, NEW e \in Nat \ {0}, Caught(box, e, e) PROVE Caught(box, e + 1, e + 1)
<1>1. PICK w \in {0, 1}, from \in 0 .. e : Takes(box, e, e, w, from)
  BY DEF Caught
<1>2. Takes(box, e + 1, e + 1, w, e + 1)
  BY <1>1 DEF Takes
<1> QED BY <1>2 DEF Caught

\* what is at the head, and what taking it does
LEMMA CaughtHandled ==
    ASSUME NEW T, NEW box \in Seq(T), box # <<>>, NEW n \in Nat, NEW e \in Nat, Caught(box, n, e)
    PROVE  /\ n = 0 => Head(box).kind = "welcome"
           /\ Head(box).kind = "welcome" /\ n > 0 => Caught(Tail(box), n, e)
           /\ n = 0 /\ Head(box).epoch > 0 =>
                  Caught(Tail(box), Head(box).epoch, e) /\ Caught(box, Head(box).epoch, e)
           /\ n > 0 /\ Head(box) = Commit(n + 1) => Caught(Tail(box), n + 1, e)
<1>1. PICK w \in {0, 1}, from \in 0 .. e : Takes(box, n, e, w, from)
  BY DEF Caught
<1>2. PICK b : b = Tail(box)
  OBVIOUS
<1>3. PICK m : m = Head(box)
  OBVIOUS
<1>4. /\ m = box[1] /\ Len(b) = Len(box) - 1 /\ Len(box) \in Nat \ {0}
      /\ \A i \in 1 .. Len(b) : b[i] = box[i + 1]
  BY <1>2, <1>3
<1>5. from <= e /\ Len(box) = w + (e - from)
  BY <1>1 DEF Takes
<1>6. w = 0 => m = Commit(from + 1)
  BY <1>1, <1>4, <1>5 DEF Takes
<1>7. w = 1 => \A i \in 1 .. (e - from) : b[i] = Commit(from + i)
  <2> SUFFICES ASSUME w = 1, NEW i \in 1 .. (e - from) PROVE b[i] = Commit(from + i)
    OBVIOUS
  <2>1. i \in 1 .. Len(b) /\ i + 1 = w + i
    BY <1>4, <1>5
  <2> QED BY <1>1, <1>4, <2>1 DEF Takes
<1>8. w = 1 /\ from > 0 => Caught(b, from, e)
  <2>1. w = 1 /\ from > 0 => Takes(b, from, e, 0, from)
    BY <1>4, <1>5, <1>7 DEF Takes
  <2> QED BY <2>1 DEF Caught
<1>9. n = 0 => w = 1 /\ m.epoch = from /\ m.kind = "welcome"
  BY <1>1, <1>4 DEF Takes
<1>10. m.kind = "welcome" => w = 1
  BY <1>6, Kinds
<1>11. n > 0 => from = n
  BY <1>1 DEF Takes
<1>12. n = 0 /\ from > 0 => Caught(box, from, e)
  <2>1. n = 0 /\ from > 0 => Takes(box, from, e, w, from)
    BY <1>1 DEF Takes
  <2> QED BY <2>1 DEF Caught
<1>13. n > 0 /\ m = Commit(n + 1) => Caught(b, n + 1, e)
  <2> SUFFICES ASSUME n > 0, m = Commit(n + 1) PROVE Caught(b, n + 1, e)
    OBVIOUS
  <2>1. w = 0 /\ from = n
    <3>1. m.kind # "welcome"
      BY Kinds
    <3> QED BY <1>1, <1>4, <1>11, <3>1 DEF Takes
  <2>2. \A i \in 1 .. (e - (n + 1)) : b[i] = Commit(n + 1 + i)
    <3> TAKE i \in 1 .. (e - (n + 1))
    <3>1. i \in 1 .. Len(b) /\ i + 1 \in 1 .. (e - from) /\ from + (i + 1) = n + 1 + i
      BY <1>4, <1>5, <2>1
    <3>2. box[w + (i + 1)] = Commit(from + (i + 1))
      BY <1>1, <3>1 DEF Takes
    <3> QED BY <1>4, <2>1, <3>1, <3>2
  <2>3. Takes(b, n + 1, e, 0, n + 1) /\ n + 1 \in 0 .. e
    BY <1>4, <1>5, <2>1, <2>2 DEF Takes
  <2> QED BY <2>3 DEF Caught
<1> QED BY <1>2, <1>3, <1>8, <1>9, <1>10, <1>11, <1>12, <1>13

LEMMA CaughtIsCatchesUp ==
    ASSUME NEW d \in MlsDevices, NEW T, mailbox[d] \in Seq(T), group[d] \in Nat, Mls!Epoch \in Nat,
           Caught(mailbox[d], group[d], Mls!Epoch)
    PROVE  Mls!CatchesUp(d)
<1> DEFINE box == mailbox[d]
           welcomed == box # <<>> /\ Head(box).kind = "welcome"
           commits == IF welcomed THEN Tail(box) ELSE box
           start == IF group[d] > 0 THEN group[d] ELSE Head(box).epoch
<1>1. PICK w \in {0, 1}, from \in 0 .. Mls!Epoch : Takes(box, group[d], Mls!Epoch, w, from)
  BY DEF Caught
<1>2. from <= Mls!Epoch /\ Len(box) = w + (Mls!Epoch - from) /\ Len(box) \in Nat
  BY <1>1 DEF Takes
<1>3. box # <<>> => Head(box) = box[1] /\ Len(box) > 0
  OBVIOUS
<1>4. w = 1 => welcomed
  BY <1>1, <1>2, <1>3 DEF Takes
<1>5. w = 0 => ~welcomed
  <2>1. w = 0 /\ box # <<>> => box[1] = Commit(from + 1)
    BY <1>1, <1>2, <1>3 DEF Takes
  <2> QED BY <1>3, <2>1, Kinds
<1>6. group[d] = 0 => welcomed
  BY <1>1, <1>4 DEF Takes
<1>7. start = from
  BY <1>1, <1>3, <1>6 DEF Takes
<1>8. /\ Len(commits) = Mls!Epoch - from
      /\ \A i \in 1 .. Len(commits) : commits[i] = Commit(from + i)
  <2>1. CASE w = 0
    BY <1>1, <1>2, <1>5, <2>1 DEF Takes
  <2>2. CASE w = 1
    <3>1. Len(Tail(box)) = Len(box) - 1 /\ \A i \in 1 .. Len(Tail(box)) : Tail(box)[i] = box[i + 1]
      BY <1>3, <1>4, <2>2
    <3>2. commits = Tail(box) /\ Len(commits) = Mls!Epoch - from
      BY <1>2, <1>4, <2>2, <3>1
    <3>3. ASSUME NEW i \in 1 .. (Mls!Epoch - from) PROVE Tail(box)[i] = Commit(from + i)
      <4>1. PICK b : b = Tail(box)
        OBVIOUS
      <4>2. i \in 1 .. Len(b) /\ i + 1 = w + i
        BY <1>2, <2>2, <3>1, <4>1
      <4>3. box[w + i] = Commit(from + i)
        BY <1>1 DEF Takes
      <4>4. Tail(box)[i] = box[i + 1]
        BY <3>1, <4>1, <4>2
      <4> QED BY <4>2, <4>3, <4>4
    <3> QED BY <3>2, <3>3
  <2> QED BY <2>1, <2>2
<1>9. group[d] > 0 \/ welcomed
  BY <1>6
<1>10. /\ Len(commits) = Mls!Epoch - start
       /\ \A i \in 1 .. Len(commits) : commits[i] = [kind |-> "commit", epoch |-> start + i]
  <2> HIDE DEF commits, start, welcomed
  <2> QED BY <1>7, <1>8 DEF Commit
<1> QED BY <1>9, <1>10, Zenon DEF Mls!CatchesUp

-----------------------------------------------------------------------------
\* a step that leaves the group, the mailboxes and what is sealed as they are
LEMMA StandsStill ==
    ASSUME MlsInv, UNCHANGED <<roster, mailbox, group>>, stranded \subseteq stranded',
           \A d \in MlsDevices :
               /\ \/ identity'[d] = identity[d] \/ identity'[d] = "revoked"
                  \/ identity[d] = "none" /\ identity'[d] = "active"
               /\ op'[d].step = "accepted" => op[d].step = "accepted"
               /\ op[d].step = "accepted" => op'[d].step = "accepted" \/ d \in stranded'
    PROVE  Grounded' /\ Strangers' /\ Following'
<1>1. Mls!Members' = Mls!Members /\ Mls!Epoch' = Mls!Epoch
  BY DEF Mls!Members, Mls!Epoch
<1>2. \A d \in MlsDevices : op'[d].step = "accepted" => op[d].step = "accepted"
  OBVIOUS
<1>3. \A d \in MlsDevices : Reached(d)' = Reached(d) \/ Reached(d)' = group[d]
  BY <1>2 DEF Reached
<1>4. Grounded'
  <2> SUFFICES ASSUME NEW d \in MlsDevices
               PROVE  /\ MemberAt(d, group[d])' /\ MemberAt(d, Reached(d))'
                      /\ \A i \in 1 .. Len(mailbox'[d]) : MemberAt(d, mailbox[d][i].epoch)'
    BY DEF Grounded
  <2>1. \A n : MemberAt(d, n) => (n > 0 => n <= Mls!Epoch' /\ d \in roster'[n])
    BY <1>1 DEF MemberAt
  <2>2. /\ MemberAt(d, group[d]) /\ MemberAt(d, Reached(d))
        /\ \A i \in 1 .. Len(mailbox[d]) : MemberAt(d, mailbox[d][i].epoch)
    BY DEF MlsInv, Grounded
  <2> QED BY <1>3, <2>1, <2>2 DEF MemberAt
<1>5. Strangers'
  BY <1>1, <1>2 DEF MlsInv, Strangers, Stranger
<1>6. Following'
  <2> SUFFICES ASSUME NEW d \in (Mls!Members \cap Mls!Active') \ stranded'
               PROVE  Caught(mailbox[d], Reached(d)', Mls!Epoch)
    BY <1>1 DEF Following, Caught, Takes
  <2>1. d \in MlsDevices /\ identity'[d] = "active" /\ identity[d] # "none"
    BY DEF Mls!Active, MlsInv, OfEnrolled, Enrolled
  <2>2. d \in (Mls!Members \cap Mls!Active) \ stranded
    BY <2>1 DEF Mls!Active
  <2>3. Reached(d)' = Reached(d)
    BY <2>1, <2>2 DEF Reached
  <2> QED BY <2>2, <2>3 DEF MlsInv, Following
<1> QED BY <1>4, <1>5, <1>6

\* registered devices stay so
LEMMA StaysEnrolled ==
    ASSUME MlsInv, UNCHANGED <<roster, claims>>, Enrolled \subseteq Enrolled',
           \A d \in MlsDevices : Busy(d, op'[d], group'[d])
    PROVE  OfEnrolled'
<1>1. Mls!Members' \subseteq Enrolled'
  BY DEF MlsInv, OfEnrolled, Mls!Members
<1>2. \A c \in claims' : c[2] \in Enrolled' \ {c[1]}
  BY DEF MlsInv, OfEnrolled
<1>3. ASSUME NEW d \in MlsDevices PROVE Busy(d, op[d], group[d])'
  <2>1. Busy(d, op'[d], group'[d])
    OBVIOUS
  <2> QED BY <2>1 DEF Busy
<1> QED BY <1>1, <1>2, <1>3 DEF OfEnrolled

LEMMA EnrolKeeps == ASSUME MlsInv, NEW d \in MlsDevices, Mls!Register(d) PROVE MlsInv'
<1>1. /\ identity[d] = "none" /\ identity' = [identity EXCEPT ![d] = "active"]
      /\ UNCHANGED <<packages, claims, roster, mailbox, reach, ready, group, op, stranded,
         incidents>>
  BY DEF Mls!Register, Mls!client
<1>2. MlsTyped'
  BY <1>1 DEF MlsInv, MlsTyped, Mls!Epoch
<1>3. \A x \in MlsDevices : identity'[x] = identity[x] \/ (identity[x] = "none"
      /\ identity'[x] = "active")
  BY <1>1 DEF MlsInv, MlsTyped
<1>4. Enrolled \subseteq Enrolled'
  BY <1>3 DEF Enrolled
<1>5. OfEnrolled'
  BY <1>1, <1>4, StaysEnrolled DEF MlsInv, OfEnrolled
<1> QED BY <1>1, <1>2, <1>3, <1>5, StandsStill DEF MlsInv

LEMMA PublishPackagesKeeps ==
    ASSUME Mls!Parameters, MlsInv, NEW d \in MlsDevices, Mls!PublishPackages(d) PROVE MlsInv'
<1>1. /\ packages' = [packages EXCEPT ![d] = Stock] /\ ready' = ready \cup {d}
      /\ UNCHANGED <<identity, claims, roster, mailbox, reach, group, op, stranded, incidents>>
  BY DEF Mls!PublishPackages
<1>2. MlsTyped'
  BY <1>1 DEF MlsInv, MlsTyped, Mls!Epoch, Mls!Parameters
<1>3. OfEnrolled'
  BY <1>1, StaysEnrolled DEF MlsInv, OfEnrolled, Enrolled
<1> QED BY <1>1, <1>2, <1>3, StandsStill DEF MlsInv

LEMMA RevokeKeeps == ASSUME Mls!Parameters, MlsInv, NEW d \in MlsDevices, Mls!Revoke(d)
    PROVE MlsInv'
<1>1. /\ identity' = [identity EXCEPT ![d] = "revoked"] /\ packages' = [packages EXCEPT ![d] = 0]
      /\ incidents < MaxIncidents /\ incidents' = incidents + 1
      /\ UNCHANGED <<claims, roster, mailbox, reach, ready, group, op, stranded>>
  BY DEF Mls!Revoke, Mls!Happens, Mls!client
<1>2. MlsTyped'
  BY <1>1 DEF MlsInv, MlsTyped, Mls!Epoch, Mls!Parameters
<1>3. \A x \in MlsDevices : identity'[x] = identity[x] \/ identity'[x] = "revoked"
  BY <1>1 DEF MlsInv, MlsTyped
<1>4. Enrolled \subseteq Enrolled'
  BY <1>3 DEF Enrolled
<1>5. OfEnrolled'
  BY <1>1, <1>4, StaysEnrolled DEF MlsInv, OfEnrolled
<1> QED BY <1>1, <1>2, <1>3, <1>5, StandsStill DEF MlsInv

LEMMA ChangeAccessKeeps ==
    ASSUME Mls!Parameters, MlsInv, NEW d \in MlsDevices, Mls!ChangeAccess(d) PROVE MlsInv'
<1>1. /\ reach' \subseteq reach \cup {d} /\ incidents < MaxIncidents /\ incidents' = incidents + 1
      /\ UNCHANGED <<identity, packages, claims, roster, mailbox, ready, group, op, stranded>>
  BY DEF Mls!ChangeAccess, Mls!Happens, Mls!client
<1>2. MlsTyped'
  BY <1>1 DEF MlsInv, MlsTyped, Mls!Epoch, Mls!Parameters
<1>3. OfEnrolled'
  BY <1>1, StaysEnrolled DEF MlsInv, OfEnrolled, Enrolled
<1> QED BY <1>1, <1>2, <1>3, StandsStill DEF MlsInv

\* a step in which a device takes up or lays down a change, and no more
LEMMA Turns ==
    ASSUME MlsInv, NEW d \in MlsDevices, NEW o \in Mls!Op, op' = [op EXCEPT ![d] = o],
           o.step # "accepted", op[d].step # "accepted" \/ d \in stranded',
           o.step # "idle" => d \in Enrolled, o.step = "sent" => group[d] < MaxEpoch,
           o.adds \subseteq Enrolled \ {d},
           UNCHANGED <<identity, claims, roster, mailbox, group>>, stranded \subseteq stranded'
    PROVE  op' \in [MlsDevices -> Mls!Op] /\ Grounded' /\ OfEnrolled' /\ Strangers' /\ Following'
<1>1. op \in [MlsDevices -> Mls!Op]
  BY DEF MlsInv, MlsTyped
<1>2. op'[d] = o /\ \A x \in MlsDevices \ {d} : op'[x] = op[x]
  BY <1>1
<1>3. op' \in [MlsDevices -> Mls!Op]
  BY <1>1
<1>4. Enrolled' = Enrolled
  BY DEF Enrolled
<1>5. \A x \in MlsDevices : Busy(x, op[x], group[x])
  BY DEF MlsInv, OfEnrolled
<1>6. Busy(d, o, group[d])
  BY DEF Busy
<1>7. OfEnrolled'
  <2>1. \A x \in MlsDevices : Busy(x, op'[x], group'[x])
    BY <1>2, <1>5, <1>6
  <2> QED BY <1>4, <2>1, StaysEnrolled
<1>8. \A x \in MlsDevices :
          /\ op'[x].step = "accepted" => op[x].step = "accepted"
          /\ op[x].step = "accepted" => op'[x].step = "accepted" \/ x \in stranded'
  BY <1>2
<1>9. Grounded' /\ Strangers' /\ Following'
  BY <1>8, StandsStill
<1> QED BY <1>3, <1>7, <1>9

LEMMA NoOpIs == Mls!NoOp \in Mls!Op /\ Mls!NoOp.step = "idle" /\ Mls!NoOp.adds = {}
BY DEF Mls!NoOp, Mls!Op

LEMMA HintKeeps == ASSUME Mls!Parameters, MlsInv, NEW d \in MlsDevices, Mls!Hint(d) PROVE MlsInv'
<1>1. /\ d \in Mls!Active /\ op[d] = Mls!NoOp /\ group[d] > 0 /\ Mls!Epoch < MaxEpoch
      /\ UNCHANGED <<identity, packages, claims, roster, mailbox, reach, ready, group, stranded,
         incidents>>
  BY DEF Mls!Hint, Mls!Signed, Mls!server
<1>2. group[d] < MaxEpoch
  BY <1>1 DEF MlsInv, MlsTyped, Grounded, MemberAt, Mls!Parameters, Mls!Epoch
<1>3. PICK o \in Mls!Op : op' = [op EXCEPT ![d] = o] /\ o.step \in {"adding", "sent"} /\ o.adds = {}
  <2>1. Mls!Unresolved(d) \subseteq MlsDevices
    BY DEF Mls!Unresolved, Mls!Members, MlsInv, OfEnrolled, Enrolled
  <2>2. \A p \in {"adding", "sent"}, r \in SUBSET MlsDevices :
            [step |-> p, adds |-> {}, removes |-> r] \in Mls!Op
    BY DEF Mls!Op
  <2>3. \E p \in {"adding", "sent"}, r \in SUBSET MlsDevices :
            op' = [op EXCEPT ![d] = [step |-> p, adds |-> {}, removes |-> r]]
    BY <2>1 DEF Mls!Hint, Mls!Set
  <2>4. PICK p \in {"adding", "sent"}, r \in SUBSET MlsDevices :
            op' = [op EXCEPT ![d] = [step |-> p, adds |-> {}, removes |-> r]]
    BY <2>3
  <2>5. PICK o : o = [step |-> p, adds |-> {}, removes |-> r]
    OBVIOUS
  <2> QED BY <2>2, <2>4, <2>5
<1>4. d \in Enrolled
  BY <1>1 DEF Mls!Active, Enrolled
<1>5. op' \in [MlsDevices -> Mls!Op] /\ Grounded' /\ OfEnrolled' /\ Strangers' /\ Following'
  BY <1>1, <1>2, <1>3, <1>4, NoOpIs, Turns
<1>6. MlsTyped'
  BY <1>1, <1>5 DEF MlsInv, MlsTyped, Mls!Epoch
<1> QED BY <1>5, <1>6 DEF MlsInv

LEMMA GiveUpKeeps == ASSUME MlsInv, NEW d \in MlsDevices, Mls!GiveUp(d) \/ Mls!Refuse(d)
    PROVE MlsInv'
<1>1. /\ op[d].step # "accepted" /\ op' = [op EXCEPT ![d] = Mls!NoOp]
      /\ UNCHANGED <<identity, packages, claims, roster, mailbox, reach, ready, group, stranded,
         incidents>>
  BY DEF Mls!GiveUp, Mls!Refuse, Mls!server
<1>2. op' \in [MlsDevices -> Mls!Op] /\ Grounded' /\ OfEnrolled' /\ Strangers' /\ Following'
  BY <1>1, NoOpIs, Turns
<1>3. MlsTyped'
  BY <1>1, <1>2 DEF MlsInv, MlsTyped, Mls!Epoch
<1> QED BY <1>2, <1>3 DEF MlsInv

LEMMA LoseKeeps == ASSUME Mls!Parameters, MlsInv, NEW d \in MlsDevices, Mls!Lose(d) PROVE MlsInv'
<1>1. /\ op' = [op EXCEPT ![d] = Mls!NoOp] /\ stranded' = stranded \cup {d}
      /\ incidents < MaxIncidents /\ incidents' = incidents + 1
      /\ UNCHANGED <<identity, packages, claims, roster, mailbox, reach, ready, group>>
  BY DEF Mls!Lose, Mls!Happens, Mls!server
<1>2. op' \in [MlsDevices -> Mls!Op] /\ Grounded' /\ OfEnrolled' /\ Strangers' /\ Following'
  BY <1>1, NoOpIs, Turns
<1>3. MlsTyped'
  BY <1>1, <1>2 DEF MlsInv, MlsTyped, Mls!Epoch, Mls!Parameters
<1> QED BY <1>2, <1>3 DEF MlsInv

LEMMA MlsRestartKeeps == ASSUME Mls!Parameters, MlsInv, NEW d \in MlsDevices,
    Mls!Restart(d) PROVE MlsInv'
<1>1. /\ op' = [op EXCEPT ![d] = Mls!NoOp] /\ ready' = ready \ {d}
      /\ stranded' = IF op[d].step = "accepted" THEN stranded \cup {d} ELSE stranded
      /\ incidents < MaxIncidents /\ incidents' = incidents + 1
      /\ UNCHANGED <<identity, packages, claims, roster, mailbox, reach, group>>
  BY DEF Mls!Restart, Mls!Happens, Mls!server
<1>2. op' \in [MlsDevices -> Mls!Op] /\ Grounded' /\ OfEnrolled' /\ Strangers' /\ Following'
  BY <1>1, NoOpIs, Turns
<1>3. MlsTyped'
  BY <1>1, <1>2 DEF MlsInv, MlsTyped, Mls!Epoch, Mls!Parameters
<1> QED BY <1>2, <1>3 DEF MlsInv
LEMMA Missing == ASSUME MlsInv, NEW d \in MlsDevices
                 PROVE  /\ (Mls!Active \cap reach) \ (Mls!Members \cup {d}) \subseteq Enrolled \ {d}
                        /\ Mls!Claimed(d) \subseteq Enrolled \ {d}
<1>1. Mls!Active \subseteq Enrolled
  BY DEF Mls!Active, Enrolled
<1>2. \A x \in MlsDevices : <<d, x>> \in claims => x \in Enrolled \ {d}
  BY DEF MlsInv, OfEnrolled
<1> QED BY <1>1, <1>2 DEF Mls!Claimed

LEMMA ClaimKeeps == ASSUME Mls!Parameters, MlsInv, NEW d \in MlsDevices, Mls!Claim(d) PROVE MlsInv'
<1> DEFINE missing == (Mls!Active \cap reach) \ (Mls!Members \cup {d})
           adds == IF Mls!Claimed(d) # {} THEN Mls!Claimed(d) ELSE missing
<1>1. /\ d \in Mls!Active /\ Mls!Epoch < MaxEpoch /\ op[d].step \in {"adding", "idle"}
      /\ UNCHANGED <<identity, roster, mailbox, reach, ready, group, stranded, incidents>>
  BY NoOpIs DEF Mls!Claim, Mls!Signed
<1>2. /\ packages' \in [MlsDevices -> 0 .. Stock]
      /\ claims' \subseteq claims \cup ({d} \X missing)
  <2>1. CASE Mls!Claimed(d) # {}
    BY <2>1 DEF Mls!Claim, MlsInv, MlsTyped
  <2>2. CASE Mls!Claimed(d) = {}
    <3>1. /\ \A x \in missing : packages[x] > 0
          /\ packages' = [x \in MlsDevices |-> IF x \in missing THEN packages[x] - 1 ELSE packages[x]]
          /\ claims' = claims \cup ({d} \X missing)
      BY <2>2 DEF Mls!Claim
    <3>2. packages \in [MlsDevices -> 0 .. Stock]
      BY DEF MlsInv, MlsTyped
    <3> HIDE DEF missing
    <3>3. packages' \in [MlsDevices -> 0 .. Stock]
      BY <3>1, <3>2 DEF Mls!Parameters
    <3> QED BY <3>1, <3>3
  <2> QED BY <2>1, <2>2
<1>3. group[d] < MaxEpoch
  <2>1. group[d] \in Nat /\ MemberAt(d, group[d]) /\ Mls!Epoch \in Nat /\ Mls!Epoch <= MaxEpoch
    BY DEF MlsInv, MlsTyped, Grounded, Mls!Epoch, Mls!Parameters
  <2> QED BY <1>1, <2>1 DEF MemberAt, Mls!Parameters
<1>4. adds \subseteq Enrolled \ {d} /\ missing \subseteq Enrolled \ {d}
  BY Missing
<1>5. PICK o \in Mls!Op : op' = [op EXCEPT ![d] = o] /\ o.step # "accepted" /\ o.adds \subseteq adds
  <2>1. /\ [step |-> "dropped", adds |-> {}, removes |-> {}] \in Mls!Op
        /\ [step |-> "sent", adds |-> adds, removes |-> {}] \in Mls!Op
    <3> HIDE DEF adds
    <3> QED BY <1>4 DEF Mls!Op, Enrolled
  <2>2. \/ op' = [op EXCEPT ![d] = Mls!NoOp]
        \/ op' = [op EXCEPT ![d] = [step |-> "dropped", adds |-> {}, removes |-> {}]]
        \/ op' = [op EXCEPT ![d] = [step |-> "sent", adds |-> adds, removes |-> {}]]
    BY DEF Mls!Claim, Mls!Set
  <2> HIDE DEF adds
  <2>3. PICK o : /\ op' = [op EXCEPT ![d] = o]
                 /\ \/ o = Mls!NoOp
                    \/ o = [step |-> "dropped", adds |-> {}, removes |-> {}]
                    \/ o = [step |-> "sent", adds |-> adds, removes |-> {}]
    BY <2>2
  <2>4. o \in Mls!Op
    BY <2>1, <2>3, NoOpIs
  <2>5. o.step # "accepted" /\ o.adds \subseteq adds
    BY <2>3, NoOpIs
  <2> QED BY <2>3, <2>4, <2>5
<1>6. d \in Enrolled
  BY <1>1 DEF Mls!Active, Enrolled
<1> HIDE DEF missing, adds
<1>7. op' \in [MlsDevices -> Mls!Op] /\ Enrolled' = Enrolled
  BY <1>1, <1>5 DEF Enrolled, MlsInv, MlsTyped
<1>8. \A x \in MlsDevices \ {d} : op'[x] = op[x]
  BY <1>5, <1>7 DEF MlsInv, MlsTyped
<1>9. op'[d] = o
  BY <1>5, <1>7 DEF MlsInv, MlsTyped
<1>10. OfEnrolled'
  <2>1. Mls!Members' = Mls!Members /\ Mls!Members \subseteq Enrolled
    BY <1>1 DEF Mls!Members, MlsInv, OfEnrolled
  <2>2. \A c \in claims' : c[2] \in Enrolled \ {c[1]}
    BY <1>2, <1>4 DEF MlsInv, OfEnrolled
  <2>3. \A x \in MlsDevices : Busy(x, op[x], group[x])
    BY DEF MlsInv, OfEnrolled
  <2>4. Busy(d, o, group[d])
    BY <1>3, <1>4, <1>5, <1>6 DEF Busy
  <2>5. ASSUME NEW x \in MlsDevices PROVE Busy(x, op[x], group[x])'
    <3>1. Busy(x, op'[x], group[x])
      BY <1>8, <1>9, <2>3, <2>4
    <3> QED BY <1>1, <1>7, <3>1 DEF Busy
  <2> QED BY <1>1, <1>7, <2>1, <2>2, <2>5 DEF OfEnrolled
<1>11. \A x \in MlsDevices : (op'[x].step = "accepted") <=> (op[x].step = "accepted")
  BY <1>1, <1>5, <1>8, <1>9
<1>12. Grounded' /\ Strangers' /\ Following'
  BY <1>1, <1>11, StandsStill
<1>13. claims' \subseteq MlsDevices \X MlsDevices
  BY <1>2, <1>4 DEF MlsInv, MlsTyped, Enrolled
<1>14. MlsTyped'
  BY <1>1, <1>2, <1>7, <1>13 DEF MlsInv, MlsTyped, Mls!Epoch
<1> QED BY <1>10, <1>12, <1>14 DEF MlsInv

\* the reply arrives: the device holds what the server has counted it on
LEMMA SealKeeps == ASSUME Mls!Parameters, MlsInv, NEW d \in MlsDevices, Mls!Seal(d) PROVE MlsInv'
<1>1. /\ op[d].step = "accepted" /\ group' = [group EXCEPT ![d] = group[d] + 1]
      /\ op' = [op EXCEPT ![d] = Mls!NoOp]
      /\ UNCHANGED <<identity, packages, claims, roster, mailbox, reach, ready, stranded,
         incidents>>
  BY DEF Mls!Seal, Mls!server
<1>2. op \in [MlsDevices -> Mls!Op] /\ group \in [MlsDevices -> 0 .. MaxEpoch]
  BY DEF MlsInv, MlsTyped
<1>3. \A x \in MlsDevices \ {d} : op'[x] = op[x] /\ group'[x] = group[x]
  BY <1>1, <1>2
<1>4. op'[d] = Mls!NoOp /\ group'[d] = group[d] + 1 /\ op' \in [MlsDevices -> Mls!Op]
  BY <1>1, <1>2, NoOpIs
<1>5. \A x \in MlsDevices : Reached(x)' = Reached(x)
  BY <1>1, <1>3, <1>4, NoOpIs DEF Reached
<1>6. Mls!Members' = Mls!Members /\ Mls!Epoch' = Mls!Epoch /\ Mls!Active' = Mls!Active
      /\ Enrolled' = Enrolled
  BY <1>1 DEF Mls!Members, Mls!Epoch, Mls!Active, Enrolled
<1>7. \A x \in MlsDevices : group'[x] = group[x] \/ group'[x] = Reached(x)
  BY <1>1, <1>3, <1>4 DEF Reached
<1>8. Grounded'
  <2> SUFFICES ASSUME NEW x \in MlsDevices
               PROVE  /\ MemberAt(x, group[x])' /\ MemberAt(x, Reached(x))'
                      /\ \A i \in 1 .. Len(mailbox'[x]) : MemberAt(x, mailbox[x][i].epoch)'
    BY DEF Grounded
  <2>1. /\ MemberAt(x, group[x]) /\ MemberAt(x, Reached(x))
        /\ \A i \in 1 .. Len(mailbox[x]) : MemberAt(x, mailbox[x][i].epoch)
    BY DEF MlsInv, Grounded
  <2> QED BY <1>1, <1>5, <1>6, <1>7, <2>1 DEF MemberAt
<1>9. group' \in [MlsDevices -> 0 .. MaxEpoch]
  <2>1. MemberAt(d, group[d] + 1)
    BY <1>1 DEF MlsInv, Grounded, Reached
  <2>2. group[d] + 1 \in 0 .. MaxEpoch
    BY <1>2, <2>1 DEF MemberAt, MlsInv, MlsTyped, Mls!Parameters, Mls!Epoch
  <2> QED BY <1>1, <1>2, <2>2
<1>10. MlsTyped'
  BY <1>1, <1>4, <1>6, <1>9 DEF MlsInv, MlsTyped
<1>11. OfEnrolled'
  <2>1. \A x \in MlsDevices : Busy(x, op[x], group[x])
    BY DEF MlsInv, OfEnrolled
  <2>2. Busy(d, Mls!NoOp, group'[d])
    BY NoOpIs DEF Busy
  <2>3. \A x \in MlsDevices : Busy(x, op'[x], group'[x])
    BY <1>3, <1>4, <2>1, <2>2
  <2> QED BY <1>1, <1>6, <2>3, StaysEnrolled
<1>12. Strangers'
  BY <1>1, <1>3, <1>4, <1>6, NoOpIs DEF MlsInv, Strangers, Stranger
<1>13. Following'
  BY <1>1, <1>5, <1>6 DEF MlsInv, Following, Caught, Takes, Mls!Active
<1> QED BY <1>8, <1>10, <1>11, <1>12, <1>13 DEF MlsInv
\* a device takes what is at the head of its mailbox
LEMMA HandleKeeps == ASSUME Mls!Parameters, MlsInv, NEW d \in MlsDevices, Mls!Handle(d)
    PROVE MlsInv'
<1> DEFINE box == mailbox[d]
<1>1. PICK m : m = Head(box)
  OBVIOUS
<1>2. PICK n : n = group'[d]
  OBVIOUS
<1>3. /\ group \in [MlsDevices -> 0 .. MaxEpoch] /\ mailbox \in [MlsDevices -> Seq(Mls!Delivery)]
      /\ box \in Seq(Mls!Delivery) /\ box # <<>> /\ op[d].step # "accepted"
      /\ UNCHANGED <<identity, packages, claims, roster, reach, ready, op>>
  BY DEF MlsInv, MlsTyped, Mls!Handle
<1>4. m \in Mls!Delivery /\ m = box[1] /\ 1 \in 1 .. Len(box)
  BY <1>1, <1>3
<1>5. \/ m.kind = "welcome" /\ group[d] > 0 /\ group' = group
      \/ m.kind = "welcome" /\ group[d] = 0 /\ group' = [group EXCEPT ![d] = m.epoch]
      \/ m = Commit(group[d] + 1) /\ group[d] > 0 /\ group' = [group EXCEPT ![d] = m.epoch]
  <2>1. m.kind = "commit" /\ m.epoch = group[d] + 1 => m = Commit(group[d] + 1)
    BY <1>4 DEF Mls!Delivery, Commit
  <2> QED BY <1>1, <2>1 DEF Mls!Handle, Mls!Inbox, Mls!Joins, Mls!Follows
<1>6. \/ mailbox' = [mailbox EXCEPT ![d] = Tail(box)] /\ UNCHANGED <<stranded, incidents>>
      \/ /\ mailbox' = mailbox /\ incidents < MaxIncidents /\ incidents' = incidents + 1
         /\ stranded' = IF m.kind = "commit" THEN stranded \cup {d} ELSE stranded
  BY <1>1 DEF Mls!Handle, Mls!Acknowledged, Mls!Happens, Mls!Inbox
<1>7. PICK rest : rest = mailbox'[d]
  OBVIOUS
<1>8. rest = box \/ rest = Tail(box)
  BY <1>3, <1>6, <1>7
<1>9. \A x \in MlsDevices \ {d} : group'[x] = group[x] /\ mailbox'[x] = mailbox[x]
  BY <1>3, <1>5, <1>6
<1>10. m.epoch \in 1 .. MaxEpoch /\ (n = group[d] \/ n = m.epoch)
  BY <1>2, <1>3, <1>4, <1>5 DEF Mls!Delivery
<1>11. group' \in [MlsDevices -> 0 .. MaxEpoch]
  BY <1>3, <1>5, <1>10 DEF Mls!Parameters
<1>12. /\ rest \in Seq(Mls!Delivery) /\ mailbox' \in [MlsDevices -> Seq(Mls!Delivery)]
       /\ \A i \in 1 .. Len(rest) : \E j \in 1 .. Len(box) : rest[i] = box[j]
  <2>1. PICK b : b = Tail(box)
    OBVIOUS
  <2>2. b \in Seq(Mls!Delivery) /\ Len(b) = Len(box) - 1 /\ Len(box) \in Nat
        /\ \A i \in 1 .. Len(b) : b[i] = box[i + 1]
    BY <1>3, <2>1
  <2>3. \A i \in 1 .. Len(b) : i + 1 \in 1 .. Len(box)
    BY <2>2
  <2>4. mailbox' \in [MlsDevices -> Seq(Mls!Delivery)]
    BY <1>3, <1>6, <2>1, <2>2
  <2> QED BY <1>3, <1>8, <2>1, <2>2, <2>3, <2>4
<1>13. /\ Mls!Members' = Mls!Members /\ Mls!Epoch' = Mls!Epoch /\ Mls!Active' = Mls!Active
          /\ Enrolled' = Enrolled
       /\ \A x \in MlsDevices : \A e : MemberAt(x, e)' <=> MemberAt(x, e)
  BY <1>3 DEF Mls!Members, Mls!Epoch, Mls!Active, Enrolled, MemberAt
<1>14. \A x \in MlsDevices : /\ MemberAt(x, group[x]) /\ MemberAt(x, Reached(x))
                         /\ \A i \in 1 .. Len(mailbox[x]) : MemberAt(x, mailbox[x][i].epoch)
  BY DEF MlsInv, Grounded
<1>15. Reached(d)' = n /\ \A x \in MlsDevices \ {d} : Reached(x)' = Reached(x)
  BY <1>2, <1>3, <1>9 DEF Reached
<1>16. MemberAt(d, n) /\ \A i \in 1 .. Len(rest) : MemberAt(d, rest[i].epoch)
  <2>1. \A i \in 1 .. Len(box) : MemberAt(d, box[i].epoch)
    BY <1>14
  <2> QED BY <1>4, <1>10, <1>12, <1>14, <2>1
<1>17. Grounded'
  <2> SUFFICES ASSUME NEW x \in MlsDevices
               PROVE  /\ MemberAt(x, group[x])' /\ MemberAt(x, Reached(x))'
                      /\ \A i \in 1 .. Len(mailbox'[x]) : MemberAt(x, mailbox[x][i].epoch)'
    BY DEF Grounded
  <2>1. MemberAt(x, group'[x]) /\ MemberAt(x, Reached(x)')
    BY <1>2, <1>9, <1>14, <1>15, <1>16
  <2>2. \A i \in 1 .. Len(mailbox'[x]) : MemberAt(x, mailbox'[x][i].epoch)
    BY <1>7, <1>9, <1>14, <1>16
  <2> QED BY <1>13, <2>1, <2>2 DEF MemberAt
<1>18. MlsTyped'
  <2>1. stranded' \subseteq MlsDevices /\ incidents' \in 0 .. MaxIncidents
    BY <1>6 DEF MlsInv, MlsTyped, Mls!Parameters
  <2> QED BY <1>3, <1>11, <1>12, <1>13, <2>1 DEF MlsInv, MlsTyped
<1>19. OfEnrolled'
  <2>1. op[d].step # "sent"
    BY DEF Mls!Handle
  <2>2. \A x \in MlsDevices : Busy(x, op[x], group[x])
    BY DEF MlsInv, OfEnrolled
  <2>3. Busy(d, op[d], n)
    BY <2>1, <2>2 DEF Busy
  <2>4. \A x \in MlsDevices : Busy(x, op'[x], group'[x])
    BY <1>2, <1>3, <1>9, <2>2, <2>3
  <2> QED BY <1>3, <1>13, <2>4, StaysEnrolled
<1>20. Strangers'
  <2> SUFFICES ASSUME NEW x \in MlsDevices, identity'[x] # "revoked", x \notin Mls!Members'
               PROVE  Stranger(x)'
    BY DEF Strangers
  <2>1. Stranger(x) /\ x # d
    BY <1>3, <1>13 DEF MlsInv, Strangers, Stranger
  <2> QED BY <1>3, <1>9, <2>1 DEF Stranger
<1>21. d \in (Mls!Members \cap Mls!Active) \ stranded' => Caught(rest, n, Mls!Epoch)
  <2> SUFFICES ASSUME d \in (Mls!Members \cap Mls!Active) \ stranded' PROVE Caught(rest, n,
      Mls!Epoch)
    OBVIOUS
  <2>1. d \notin stranded /\ (rest = box => m.kind # "commit" \/ rest = Tail(box))
    BY <1>3, <1>6, <1>7
  <2>2. Caught(box, group[d], Mls!Epoch) /\ group[d] \in Nat /\ Mls!Epoch \in Nat
    BY <1>3, <2>1 DEF MlsInv, Following, Reached, MlsTyped, Mls!Epoch
  <2>3. /\ group[d] = 0 => m.kind = "welcome"
        /\ m.kind = "welcome" /\ group[d] > 0 => Caught(Tail(box), group[d], Mls!Epoch)
        /\ group[d] = 0 => Caught(Tail(box), m.epoch, Mls!Epoch) /\ Caught(box, m.epoch, Mls!Epoch)
        /\ group[d] > 0 /\ m = Commit(group[d] + 1) => Caught(Tail(box), group[d] + 1, Mls!Epoch)
    BY <1>1, <1>3, <1>10, <2>2, CaughtHandled
  <2>4. CASE m.kind = "welcome" /\ group[d] > 0 /\ group' = group
    BY <1>2, <1>8, <2>2, <2>3, <2>4
  <2>5. CASE m.kind = "welcome" /\ group[d] = 0 /\ group' = [group EXCEPT ![d] = m.epoch]
    BY <1>2, <1>3, <1>8, <2>3, <2>5
  <2>6. CASE m = Commit(group[d] + 1) /\ group[d] > 0 /\ group' = [group EXCEPT ![d] = m.epoch]
    <3>1. m.kind = "commit" /\ m.epoch = group[d] + 1
      BY <2>6, Kinds
    <3>2. n = group[d] + 1
      BY <1>2, <1>3, <2>6, <3>1
    <3> QED BY <1>8, <2>1, <2>3, <2>6, <3>1, <3>2
  <2> QED BY <1>5, <2>4, <2>5, <2>6
<1>22. Following'
  <2> SUFFICES ASSUME NEW x \in (Mls!Members' \cap Mls!Active') \ stranded'
               PROVE  Caught(mailbox[x], Reached(x), Mls!Epoch)'
    BY DEF Following
  <2>1. x \in (Mls!Members \cap Mls!Active) \ stranded'
    BY <1>13
  <2>2. CASE x = d
    <3>1. Caught(mailbox'[x], Reached(x)', Mls!Epoch)
      BY <1>7, <1>15, <1>21, <2>1, <2>2
    <3> QED BY <1>13, <3>1 DEF Caught, Takes
  <2>3. CASE x # d
    <3>1. x \in MlsDevices \ {d} /\ x \in (Mls!Members \cap Mls!Active) \ stranded
      BY <1>6, <2>1, <2>3 DEF Mls!Active
    <3>2. Caught(mailbox'[x], Reached(x)', Mls!Epoch)
      BY <1>9, <1>15, <3>1 DEF MlsInv, Following
    <3> QED BY <1>13, <3>2 DEF Caught, Takes
  <2> QED BY <2>2, <2>3
<1> QED BY <1>17, <1>18, <1>19, <1>20, <1>22 DEF MlsInv
\* the server accepts the change of d: what it makes of the group
LEMMA AcceptKeeps == ASSUME Mls!Parameters, MlsInv, NEW d \in MlsDevices, Mls!Accept(d)
    PROVE MlsInv'
<1> DEFINE grown == Mls!NextMembers(d)
           added == op[d].adds
           told == Mls!Recipients(d)
           next == Mls!Epoch + 1
<1>1. /\ op[d].step = "sent" /\ Mls!Acceptable(d)
      /\ roster' = Append(roster, grown)
      /\ mailbox' = [x \in MlsDevices |-> IF x \in told THEN Append(mailbox[x], Commit(next))
                                      ELSE IF x \in added THEN Append(mailbox[x], Welcome(next))
                                      ELSE mailbox[x]]
      /\ stranded' = stranded \cup ((Mls!Members \cap Mls!Active) \ (told \cup op[d].removes \cup {d}))
      /\ op' = [op EXCEPT ![d].step = "accepted"]
      /\ UNCHANGED <<identity, packages, claims, reach, ready, group, incidents>>
  BY DEF Mls!Accept, Mls!Post, Commit, Welcome
<1>2. /\ roster \in Seq(SUBSET MlsDevices) /\ Mls!Epoch \in Nat /\ Mls!Epoch = Len(roster)
         /\ Mls!Epoch <= MaxEpoch
      /\ mailbox \in [MlsDevices -> Seq(Mls!Delivery)] /\ group \in [MlsDevices -> 0 .. MaxEpoch]
      /\ op \in [MlsDevices -> Mls!Op] /\ op[d].adds \subseteq MlsDevices /\ MaxEpoch \in Nat
  BY DEF MlsInv, MlsTyped, Mls!Epoch, Mls!Parameters, Mls!Op
<1>3. /\ Mls!Members \subseteq Enrolled /\ added \subseteq Enrolled \ {d} /\ d \in Enrolled
      /\ group[d] < MaxEpoch
  BY <1>1 DEF MlsInv, OfEnrolled, Busy
<1>4. /\ group[d] = Mls!Epoch
      /\ group[d] = 0 => Mls!Members = {}
      /\ group[d] > 0 => d \in Mls!Members \cap Mls!Active
         /\ op[d].removes \subseteq Mls!Members \ Mls!Active
  BY <1>1, <1>2 DEF Mls!Acceptable, Mls!CanBootstrap, Mls!CanUpdate, Mls!Members
<1>5. added \cap Mls!Members = {}
  BY <1>1, <1>2, <1>4 DEF Mls!Acceptable, Mls!WelcomesClaimed
<1>6. /\ \A x \in Mls!Members \cap Mls!Active : x \in grown
      /\ added \subseteq grown /\ d \in grown /\ grown \subseteq Mls!Members \cup added \cup {d}
      /\ told \subseteq (Mls!Members \cap Mls!Active \cap grown) \ {d}
  <2>1. Mls!Members \cap Mls!Active \cap op[d].removes = {}
    BY <1>2, <1>4
  <2> QED BY <2>1 DEF Mls!NextMembers, Mls!Recipients
<1>7. next \in 1 .. MaxEpoch
  BY <1>2, <1>3, <1>4
<1>8. /\ roster' \in Seq(SUBSET MlsDevices) /\ Mls!Epoch' = next /\ Len(roster') = next
      /\ roster'[next] = grown /\ \A i \in 1 .. Mls!Epoch : roster'[i] = roster[i]
  <2>1. grown \in SUBSET MlsDevices
    BY <1>3, <1>6 DEF Enrolled
  <2> HIDE DEF grown
  <2> QED BY <1>1, <1>2, <2>1 DEF Mls!Epoch
<1>9. Mls!Members' = grown
  BY <1>2, <1>8 DEF Mls!Members
<1>10. Mls!Active' = Mls!Active /\ Enrolled' = Enrolled
  BY <1>1 DEF Mls!Active, Enrolled
<1>11. /\ op'[d].step = "accepted" /\ op'[d].adds = added /\ op' \in [MlsDevices -> Mls!Op]
       /\ \A x \in MlsDevices \ {d} : op'[x] = op[x]
  <2>1. PICK o : o = op[d]
    OBVIOUS
  <2>2. op' = [op EXCEPT ![d] = [o EXCEPT !.step = "accepted"]] /\ o \in Mls!Op
    BY <1>1, <1>2, <2>1
  <2>3. PICK p : p = [o EXCEPT !.step = "accepted"]
    OBVIOUS
  <2>4. p \in Mls!Op /\ p.step = "accepted" /\ p.adds = o.adds
    BY <2>2, <2>3 DEF Mls!Op
  <2>5. op' = [op EXCEPT ![d] = p]
    BY <2>2, <2>3
  <2> QED BY <1>2, <2>1, <2>4, <2>5
<1>12. Reached(d)' = next /\ \A x \in MlsDevices \ {d} : Reached(x)' = Reached(x)
  BY <1>1, <1>4, <1>11 DEF Reached
<1> HIDE DEF grown, told, added, next
<1>13. Commit(next) \in Mls!Delivery /\ Welcome(next) \in Mls!Delivery
  BY <1>7 DEF Commit, Welcome, Mls!Delivery
<1>14. ASSUME NEW x \in MlsDevices
       PROVE  /\ mailbox'[x] \in Seq(Mls!Delivery)
              /\ \A i \in 1 .. Len(mailbox'[x]) :
                     \/ i \in 1 .. Len(mailbox[x]) /\ mailbox'[x][i] = mailbox[x][i]
                     \/ (x \in told \/ x \in added) /\ mailbox'[x][i].epoch = next
              /\ x \notin told /\ x \notin added => mailbox'[x] = mailbox[x]
  <2>1. PICK box : box = mailbox[x]
    OBVIOUS
  <2>2. box \in Seq(Mls!Delivery)
    BY <1>2, <2>1
  <2>3. \/ mailbox'[x] = box /\ x \notin told /\ x \notin added
        \/ mailbox'[x] = Append(box, Commit(next)) /\ x \in told
        \/ mailbox'[x] = Append(box, Welcome(next)) /\ x \in added
    BY <1>1, <2>1
  <2>4. CASE mailbox'[x] = box /\ x \notin told /\ x \notin added
    BY <2>1, <2>2, <2>4
  <2>5. ASSUME NEW m \in Mls!Delivery, m.epoch = next, mailbox'[x] = Append(box, m),
               x \in told \/ x \in added
        PROVE  /\ mailbox'[x] \in Seq(Mls!Delivery)
               /\ \A i \in 1 .. Len(mailbox'[x]) :
                     \/ i \in 1 .. Len(box) /\ mailbox'[x][i] = box[i]
                     \/ mailbox'[x][i].epoch = next
    <3>1. PICK b : b = Append(box, m)
      OBVIOUS
    <3>2. /\ b \in Seq(Mls!Delivery) /\ Len(b) = Len(box) + 1 /\ b[Len(b)] = m /\ Len(box) \in Nat
          /\ \A i \in 1 .. Len(box) : b[i] = box[i]
      BY <2>2, <2>5, <3>1
    <3>3. \A i \in 1 .. Len(b) : i \in 1 .. Len(box) \/ i = Len(b)
      BY <3>2
    <3> QED BY <2>5, <3>1, <3>2, <3>3
  <2> QED BY <1>13, <2>1, <2>3, <2>4, <2>5, Kinds
<1>15. MlsTyped'
  <2>1. mailbox' \in [MlsDevices -> Seq(Mls!Delivery)]
    BY <1>1, <1>14
  <2>2. stranded' \subseteq MlsDevices
    BY <1>1 DEF Mls!Active, MlsInv, MlsTyped
  <2> QED BY <1>1, <1>7, <1>8, <1>11, <2>1, <2>2 DEF MlsInv, MlsTyped
<1>16. Grounded'
  <2> SUFFICES ASSUME NEW x \in MlsDevices
               PROVE  /\ MemberAt(x, group[x])' /\ MemberAt(x, Reached(x))'
                      /\ \A i \in 1 .. Len(mailbox'[x]) : MemberAt(x, mailbox[x][i].epoch)'
    BY DEF Grounded
  <2>1. \A n \in Nat : MemberAt(x, n) => (n > 0 => n <= Mls!Epoch' /\ x \in roster'[n])
    BY <1>2, <1>8 DEF MemberAt, next
  <2>2. x \in grown => next <= Mls!Epoch' /\ x \in roster'[next]
    BY <1>2, <1>8 DEF next
  <2>3. /\ MemberAt(x, group[x]) /\ MemberAt(x, Reached(x))
        /\ \A i \in 1 .. Len(mailbox[x]) : MemberAt(x, mailbox[x][i].epoch)
    BY DEF MlsInv, Grounded
  <2>4. group[x] \in Nat /\ Reached(x) \in Nat /\ group'[x] = group[x]
    BY <1>1, <1>2 DEF Reached
  <2>5. MemberAt(x, group[x])'
    BY <2>1, <2>3, <2>4 DEF MemberAt
  <2>6. MemberAt(x, Reached(x))'
    <3>1. Reached(x)' = Reached(x) \/ (Reached(x)' = next /\ x \in grown)
      BY <1>6, <1>12
    <3> QED BY <2>1, <2>2, <2>3, <2>4, <3>1 DEF MemberAt
  <2>7. ASSUME NEW i \in 1 .. Len(mailbox'[x]) PROVE MemberAt(x, mailbox[x][i].epoch)'
    <3>1. CASE i \in 1 .. Len(mailbox[x]) /\ mailbox'[x][i] = mailbox[x][i]
      <4>1. mailbox[x][i] \in Mls!Delivery
        BY <1>2, <3>1
      <4>2. mailbox[x][i].epoch \in Nat
        BY <4>1 DEF Mls!Delivery
      <4>3. MemberAt(x, mailbox[x][i].epoch)
        BY <2>3, <3>1
      <4> QED BY <2>1, <3>1, <4>2, <4>3 DEF MemberAt
    <3>2. CASE (x \in told \/ x \in added) /\ mailbox'[x][i].epoch = next
      BY <1>6, <2>2, <3>2 DEF MemberAt
    <3> QED BY <1>14, <3>1, <3>2
  <2> QED BY <2>5, <2>6, <2>7
<1>17. OfEnrolled'
  <2>1. Mls!Members' \subseteq Enrolled'
    BY <1>3, <1>6, <1>9, <1>10
  <2>2. \A c \in claims' : c[2] \in Enrolled' \ {c[1]}
    BY <1>1, <1>10 DEF MlsInv, OfEnrolled
  <2>3. ASSUME NEW x \in MlsDevices PROVE Busy(x, op[x], group[x])'
    <3>1. Busy(x, op[x], group[x])
      BY DEF MlsInv, OfEnrolled
    <3>2. Busy(x, op'[x], group[x])
      BY <1>3, <1>11, <3>1 DEF Busy, added
    <3> QED BY <1>1, <1>10, <3>2 DEF Busy
  <2> QED BY <2>1, <2>2, <2>3 DEF OfEnrolled
<1>18. Strangers'
  <2> SUFFICES ASSUME NEW x \in MlsDevices, identity'[x] # "revoked", x \notin Mls!Members'
               PROVE  Stranger(x)'
    BY DEF Strangers
  <2>1. x \notin Mls!Members
    <3>1. x \in Enrolled => x \in Mls!Active
      BY <1>1 DEF Enrolled, Mls!Active, MlsInv, MlsTyped
    <3> QED BY <1>3, <1>6, <1>9, <3>1
  <2>2. Stranger(x)
    BY <1>1, <2>1 DEF MlsInv, Strangers
  <2>3. x # d /\ x \notin added /\ x \notin told
    BY <1>6, <1>9, <2>1
  <2> QED BY <1>1, <1>11, <1>14, <2>2, <2>3 DEF Stranger
<1>19. Following'
  <2> SUFFICES ASSUME NEW x \in (Mls!Members' \cap Mls!Active') \ stranded'
               PROVE  Caught(mailbox[x], Reached(x), Mls!Epoch)'
    BY DEF Following
  <2>1. x \in MlsDevices /\ x \in Mls!Active /\ x \in grown /\ x \notin stranded
    BY <1>1, <1>9, <1>10 DEF Mls!Active
  <2>2. x \in Mls!Members \/ Stranger(x)
    BY <2>1 DEF Mls!Active, MlsInv, Strangers
  <2>3. Caught(mailbox'[x], Reached(x)', next)
    <3>1. CASE x = d
      <4>1. mailbox'[d] = mailbox[d]
        BY <1>3, <1>6, <1>14
      <4>2. CASE group[d] = 0
        <5>1. mailbox[d] = <<>> /\ next = 1
          BY <1>4, <2>2, <3>1, <4>2 DEF Stranger, next
        <5> QED BY <1>12, <3>1, <4>1, <5>1, CaughtFirst
      <4>3. CASE group[d] > 0
        <5>1. Caught(mailbox[d], Mls!Epoch, Mls!Epoch)
          BY <1>1, <1>4, <2>1, <3>1, <4>3 DEF MlsInv, Following, Reached
        <5>2. Caught(mailbox[d], next, next)
          BY <1>2, <1>4, <4>3, <5>1, CaughtOwn DEF next
        <5> QED BY <1>12, <3>1, <4>1, <5>2
      <4> QED BY <1>2, <4>2, <4>3
    <3>2. CASE x \in Mls!Members /\ x # d
      <4>1. x \in told
        BY <1>1, <1>2, <1>4, <2>1, <3>2
      <4>2. Caught(mailbox[x], Reached(x), Mls!Epoch)
        BY <2>1, <3>2 DEF MlsInv, Following
      <4>3. mailbox'[x] = Append(mailbox[x], Commit(next)) /\ Reached(x) \in Nat
        BY <1>1, <1>2, <2>1, <4>1 DEF Reached
      <4>4. mailbox[x] \in Seq(Mls!Delivery)
        BY <1>2, <2>1
      <4>5. PICK m : m = Commit(Mls!Epoch + 1)
        OBVIOUS
      <4>6. Caught(Append(mailbox[x], m), Reached(x), Mls!Epoch + 1)
        BY <1>2, <1>13, <4>2, <4>3, <4>4, <4>5, CaughtMore DEF next
      <4> QED BY <1>12, <2>1, <3>2, <4>3, <4>5, <4>6 DEF next
    <3>3. CASE x \notin Mls!Members /\ x # d
      <4>1. x \in added /\ x \notin told /\ Stranger(x)
        BY <1>6, <2>1, <2>2, <3>3
      <4>2. mailbox'[x] = Append(<<>>, Welcome(next)) /\ Reached(x)' = 0
        BY <1>1, <1>12, <2>1, <3>3, <4>1 DEF Stranger, Reached
      <4>3. Append(<<>>, Welcome(next)) = <<Welcome(next)>>
        OBVIOUS
      <4>4. Caught(<<Welcome(next)>>, 0, next)
        BY <1>7, CaughtWelcome
      <4> QED BY <4>2, <4>3, <4>4
    <3> QED BY <3>1, <3>2, <3>3
  <2> QED BY <1>8, <2>3 DEF Caught, Takes
<1> QED BY <1>15, <1>16, <1>17, <1>18, <1>19 DEF MlsInv

-----------------------------------------------------------------------------
LEMMA MlsStart == ASSUME Mls!Parameters, Mls!Init PROVE MlsInv
<1>1. Mls!Epoch = 0 /\ Mls!Members = {} /\ \A d \in MlsDevices : op[d] = Mls!NoOp
      /\ group[d] = 0 /\ mailbox[d] = <<>>
  BY DEF Mls!Init, Mls!Epoch, Mls!Members
<1>2. MlsTyped
  <2>1. mailbox \in [MlsDevices -> Seq(Mls!Delivery)] /\ roster \in Seq(SUBSET MlsDevices)
    BY DEF Mls!Init
  <2> QED BY <1>1, <2>1, NoOpIs DEF Mls!Init, MlsTyped, Mls!Parameters
<1>3. Grounded
  <2> SUFFICES ASSUME NEW d \in MlsDevices
               PROVE  /\ MemberAt(d, group[d]) /\ MemberAt(d, Reached(d))
                      /\ \A i \in 1 .. Len(mailbox[d]) : MemberAt(d, mailbox[d][i].epoch)
    BY DEF Grounded
  <2>1. 1 .. Len(mailbox[d]) = {} /\ Reached(d) = 0
    BY <1>1, NoOpIs DEF Reached
  <2> QED BY <1>1, <2>1 DEF MemberAt
<1>4. OfEnrolled
  BY <1>1, NoOpIs DEF Mls!Init, OfEnrolled, Busy
<1>5. Strangers /\ Following
  BY <1>1, NoOpIs DEF Strangers, Stranger, Following
<1> QED BY <1>2, <1>3, <1>4, <1>5 DEF MlsInv

LEMMA MlsStep == ASSUME Mls!Parameters, MlsInv, [Mls!Next]_(Mls!vars) PROVE MlsInv'
<1>1. CASE UNCHANGED Mls!vars
  BY <1>1 DEF Mls!vars, Mls!server, Mls!client, MlsInv, MlsTyped, Grounded, OfEnrolled,
     Strangers, Following,
     MemberAt, Reached, Busy, Stranger, Enrolled, Mls!Active, Mls!Members, Mls!Epoch, Caught, Takes
<1>2. ASSUME NEW d \in MlsDevices,
             Mls!Register(d) \/ Mls!PublishPackages(d) \/ Mls!Revoke(d) \/ Mls!ChangeAccess(d)
      PROVE  MlsInv'
  BY <1>2, EnrolKeeps, PublishPackagesKeeps, RevokeKeeps, ChangeAccessKeeps
<1>3. ASSUME NEW d \in MlsDevices,
             Mls!Hint(d) \/ Mls!Claim(d) \/ Mls!GiveUp(d) \/ Mls!Refuse(d) PROVE MlsInv'
  BY <1>3, HintKeeps, ClaimKeeps, GiveUpKeeps
<1>4. ASSUME NEW d \in MlsDevices, Mls!Accept(d) \/ Mls!Seal(d) \/ Mls!Lose(d) PROVE MlsInv'
  BY <1>4, AcceptKeeps, SealKeeps, LoseKeeps
<1>5. ASSUME NEW d \in MlsDevices, Mls!Handle(d) \/ Mls!Restart(d) PROVE MlsInv'
  BY <1>5, HandleKeeps, MlsRestartKeeps
<1> QED BY <1>1, <1>2, <1>3, <1>4, <1>5 DEF Mls!Next

LEMMA MlsMeaning == ASSUME Mls!Parameters, MlsInv PROVE Mls!TypeOK /\ Mls!MembersCatchUp
<1>1. Mls!TypeOK
  BY DEF MlsInv, MlsTyped, Grounded, MemberAt, Mls!TypeOK
<1>2. ASSUME NEW d \in MlsDevices \ stranded, Mls!Settled(d) PROVE Mls!CatchesUp(d)
  <2>1. Caught(mailbox[d], group[d], Mls!Epoch)
    BY <1>2 DEF MlsInv, Following, Mls!Settled, Reached
  <2>2. mailbox[d] \in Seq(Mls!Delivery) /\ group[d] \in Nat /\ Mls!Epoch \in Nat
    BY DEF MlsInv, MlsTyped, Mls!Epoch, Mls!Parameters
  <2> QED BY <2>1, <2>2, CaughtIsCatchesUp
<1> QED BY <1>1, <1>2 DEF Mls!MembersCatchUp

LEMMA MembersCatchUpThm ==
    ASSUME Mls!Parameters PROVE Mls!Spec => [](Mls!TypeOK /\ Mls!MembersCatchUp)
<1>1. Mls!Init => MlsInv
  BY MlsStart
<1>2. MlsInv /\ [Mls!Next]_(Mls!vars) => MlsInv'
  BY MlsStep
<1>3. MlsInv => Mls!TypeOK /\ Mls!MembersCatchUp
  BY MlsMeaning
<1> QED BY <1>1, <1>2, <1>3, PTL DEF Mls!Spec

-----------------------------------------------------------------------------
(* PrivateHistory *)
\* the texts of one message: what there is of it is no newer than the message
Texts(v, s, c, a, r, k) ==
    /\ v \in 0 .. MaxVersions /\ r \in 0 .. v /\ s \subseteq 1 .. v
    /\ c \in History!Absent .. v /\ a \in History!Absent .. v /\ k \in History!Absent .. v

HistoryInv ==
    /\ version \in [Messages -> Nat] /\ sealed \in [Messages -> SUBSET Nat]
    /\ texts \in [Messages -> Int] /\ archive \in [Messages -> Int] /\ read \in [Messages -> Nat]
    /\ outbox \subseteq Messages /\ retry \in BOOLEAN
    /\ sync \in [step : {"idle", "snapshot", "messages", "restore"},
                 known : [Messages -> Int], todo : SUBSET Messages]
    /\ \A m \in Messages :
           Texts(version[m], sealed[m], texts[m], archive[m], read[m], sync.known[m])

Values == \A m \in Messages :
    /\ version[m] \in Nat /\ version[m] <= MaxVersions /\ texts[m] \in Int /\ archive[m] \in Int
    /\ read[m] \in Nat /\ sync.known[m] \in Int /\ sealed[m] \subseteq 1 .. version[m]
    /\ read[m] <= version[m] /\ History!Absent <= texts[m] /\ texts[m] <= version[m]
    /\ History!Absent <= archive[m] /\ archive[m] <= version[m]
    /\ History!Absent <= sync.known[m] /\ sync.known[m] <= version[m]

LEMMA InValues == ASSUME History!Parameters, HistoryInv PROVE Values
BY DEF HistoryInv, Texts, Values, History!Parameters, History!Absent

LEMMA NoSyncIs == /\ History!NoSync \in [step : {"idle", "snapshot", "messages", "restore"},
                                 known : [Messages -> Int], todo : SUBSET Messages]
                  /\ \A m \in Messages : History!NoSync.known[m] = History!Absent
BY DEF History!NoSync, History!Absent

\* a text no newer than the message is put away
LEMMA ArchivesKeeps ==
    ASSUME History!Parameters, HistoryInv, NEW m \in Messages, NEW text \in Int, NEW outcome,
           History!Absent <= text, text <= version[m], History!Archives(m, text, outcome)
    PROVE  /\ archive' \in [Messages -> Int] /\ outbox' \subseteq Messages
           /\ \A x \in Messages : archive'[x] = archive[x] \/ (x = m /\ archive'[x] = text)
BY DEF History!Archives, HistoryInv

LEMMA ShowsKeeps ==
    ASSUME History!Parameters, HistoryInv, NEW m \in Messages, NEW text \in Nat, History!Shows(m,
           text)
    PROVE  /\ texts' \in [Messages -> Int] /\ read' \in [Messages -> Nat]
           /\ \A x \in Messages : texts'[x] = texts[x] \/ (x = m /\ texts'[x] = text)
           /\ \A x \in Messages : read'[x] = read[x] \/ (x = m /\ read'[x] = text)
BY DEF History!Shows, HistoryInv

LEMMA PostKeeps == ASSUME History!Parameters, HistoryInv, NEW m \in Messages,
    History!Post(m) PROVE HistoryInv'
<1>1. /\ version' = [version EXCEPT ![m] = version[m] + 1] /\ version[m] < MaxVersions
      /\ sealed' = [sealed EXCEPT ![m] = sealed[m] \cup {version[m] + 1}]
      /\ UNCHANGED <<texts, archive, outbox, sync, retry, read>>
  BY DEF History!Post
<1>2. Values
  BY InValues
<1>3. version' \in [Messages -> Nat] /\ sealed' \in [Messages -> SUBSET Nat]
  BY <1>1 DEF HistoryInv
<1>4. ASSUME NEW x \in Messages
      PROVE  Texts(version'[x], sealed'[x], texts[x], archive[x], read[x], sync.known[x])
  <2>1. CASE x = m
    <3>1. version'[x] = version[x] + 1 /\ sealed'[x] = sealed[x] \cup {version[x] + 1}
      BY <1>1, <2>1 DEF HistoryInv
    <3> QED BY <1>1, <1>2, <2>1, <3>1 DEF Texts, Values, History!Parameters, History!Absent
  <2>2. CASE x # m
    <3>1. version'[x] = version[x] /\ sealed'[x] = sealed[x]
      BY <1>1, <2>2 DEF HistoryInv
    <3> QED BY <3>1 DEF HistoryInv
  <2> QED BY <2>1, <2>2
<1> QED BY <1>1, <1>3, <1>4 DEF HistoryInv

LEMMA SendKeeps ==
    ASSUME History!Parameters, HistoryInv, NEW m \in Messages, NEW outcome, History!Send(m, outcome)
    PROVE  HistoryInv'
<1>1. /\ version' = [version EXCEPT ![m] = 1] /\ version[m] = 0
      /\ UNCHANGED <<sealed, sync, retry>>
  BY DEF History!Send
<1>2. Values
  BY InValues
<1>3. /\ texts' \in [Messages -> Int] /\ read' \in [Messages -> Nat]
      /\ \A x \in Messages : texts'[x] = texts[x] \/ (x = m /\ texts'[x] = 1)
      /\ \A x \in Messages : read'[x] = read[x] \/ (x = m /\ read'[x] = 1)
  BY ShowsKeeps DEF History!Send
<1>4. /\ archive' \in [Messages -> Int] /\ outbox' \subseteq Messages
      /\ \A x \in Messages : archive'[x] = archive[x] \/ (x = m /\ archive'[x] = 1)
  BY DEF History!Send, History!Archives, HistoryInv
<1>5. version' \in [Messages -> Nat] /\ version'[m] = 1
      /\ \A x \in Messages \ {m} : version'[x] = version[x]
  BY <1>1 DEF HistoryInv
<1>6. ASSUME NEW x \in Messages
      PROVE  Texts(version'[x], sealed[x], texts'[x], archive'[x], read'[x], sync.known[x])
  <2>1. CASE x = m
    BY <1>1, <1>2, <1>3, <1>4, <1>5, <2>1 DEF Texts, Values, History!Parameters,
       History!Absent
  <2>2. CASE x # m
    <3>1. version'[x] = version[x] /\ texts'[x] = texts[x] /\ read'[x] = read[x]
          /\ archive'[x] = archive[x]
      BY <1>3, <1>4, <1>5, <2>2
    <3> QED BY <3>1 DEF HistoryInv
  <2> QED BY <2>1, <2>2
<1> QED BY <1>1, <1>3, <1>4, <1>5, <1>6 DEF HistoryInv

\* a step that shows, archives and uses up texts the messages have had
LEMMA TextsKeep ==
    ASSUME History!Parameters, HistoryInv, version' = version,
           sealed' \in [Messages -> SUBSET Nat], texts' \in [Messages -> Int],
           archive' \in [Messages -> Int], read' \in [Messages -> Nat],
           outbox' \subseteq Messages, retry' \in BOOLEAN,
           sync' \in [step : {"idle", "snapshot", "messages", "restore"},
                      known : [Messages -> Int], todo : SUBSET Messages],
           \A x \in Messages :
               /\ sealed'[x] \subseteq sealed[x]
               /\ History!Absent <= texts'[x] /\ texts'[x] <= version[x]
               /\ History!Absent <= archive'[x] /\ archive'[x] <= version[x]
                  /\ read'[x] <= version[x]
               /\ History!Absent <= sync'.known[x] /\ sync'.known[x] <= version[x]
    PROVE  HistoryInv'
<1>1. Values
  BY InValues
<1>2. ASSUME NEW x \in Messages
      PROVE  Texts(version[x], sealed'[x], texts'[x], archive'[x], read'[x], sync'.known[x])
  <2>1. /\ sealed'[x] \subseteq 1 .. version[x] /\ version[x] \in 0 .. MaxVersions
        /\ texts'[x] \in Int /\ archive'[x] \in Int /\ read'[x] \in Nat /\ sync'.known[x] \in Int
    BY <1>1 DEF Values, History!Parameters
  <2> QED BY <2>1 DEF Texts, History!Parameters, History!Absent
<1> QED BY <1>2 DEF HistoryInv

LEMMA DecryptsKeeps ==
    ASSUME History!Parameters, HistoryInv, NEW m \in Messages, History!Decrypts(m)
    PROVE  /\ sealed' \in [Messages -> SUBSET Nat] /\ texts' \in [Messages -> Int]
           /\ read' \in [Messages -> Nat]
           /\ \A x \in Messages : /\ sealed'[x] \subseteq sealed[x] /\ read'[x] <= version[x]
                                  /\ History!Absent <= texts'[x] /\ texts'[x] <= version[x]
<1>1. Values
  BY InValues
<1>2. /\ texts' \in [Messages -> Int] /\ read' \in [Messages -> Nat]
      /\ \A x \in Messages : texts'[x] = texts[x] \/ (x = m /\ texts'[x] = version[m])
      /\ \A x \in Messages : read'[x] = read[x] \/ (x = m /\ read'[x] = version[m])
  BY <1>1, ShowsKeeps DEF History!Decrypts, Values
<1>3. sealed' \in [Messages -> SUBSET Nat] /\ \A x \in Messages : sealed'[x] \subseteq sealed[x]
  BY DEF History!Decrypts, HistoryInv
<1> QED BY <1>1, <1>2, <1>3 DEF Values, History!Absent

LEMMA ReceiveKeeps ==
    ASSUME History!Parameters, HistoryInv, NEW m \in Messages, NEW outcome, History!Receive(m,
           outcome)
    PROVE  HistoryInv'
<1>1. Values
  BY InValues
<1>2. History!Decrypts(m) /\ History!Archives(m, version[m], outcome) /\ UNCHANGED <<version,
      sync, retry>>
  BY DEF History!Receive
<1>3. /\ archive' \in [Messages -> Int] /\ outbox' \subseteq Messages
      /\ \A x \in Messages : archive'[x] = archive[x] \/ (x = m /\ archive'[x] = version[m])
  BY <1>1, <1>2, ArchivesKeeps DEF Values, History!Absent
<1>4. \A x \in Messages : History!Absent <= archive'[x] /\ archive'[x] <= version[x]
  BY <1>1, <1>3 DEF Values, History!Absent
<1> QED BY <1>1, <1>2, <1>3, <1>4, DecryptsKeeps, TextsKeep DEF Values, HistoryInv

LEMMA ApplySnapshotKeeps == ASSUME History!Parameters, HistoryInv, History!ApplySnapshot
    PROVE HistoryInv'
<1>1. Values
  BY InValues
<1>2. /\ texts' = [m \in Messages |-> IF version[m] > 0 THEN 0 ELSE History!Absent]
      /\ sync' = [sync EXCEPT !.step = "snapshot"]
      /\ UNCHANGED <<version, sealed, archive, outbox, retry, read>>
  BY DEF History!ApplySnapshot
<1>3. /\ texts' \in [Messages -> Int]
      /\ \A x \in Messages : History!Absent <= texts'[x] /\ texts'[x] <= version[x]
  BY <1>1, <1>2 DEF Values, History!Absent
<1>4. /\ sync' \in [step : {"idle", "snapshot", "messages", "restore"},
                    known : [Messages -> Int], todo : SUBSET Messages]
      /\ sync'.known = sync.known
  BY <1>2 DEF HistoryInv
<1> QED BY <1>1, <1>2, <1>3, <1>4, TextsKeep DEF Values, HistoryInv

LEMMA FetchHistoryKeeps ==
    ASSUME History!Parameters, HistoryInv, NEW ok \in BOOLEAN, History!FetchHistory(ok)
           PROVE HistoryInv'
<1>1. Values
  BY InValues
<1>2. /\ retry' \in BOOLEAN /\ UNCHANGED <<version, sealed, texts, archive, outbox, read>>
      /\ sync' = IF ok THEN [step |-> "messages", known |-> archive,
                             todo |-> {m \in Messages : texts[m] # History!Absent}]
                       ELSE History!NoSync
  BY DEF History!FetchHistory
<1>3. /\ sync' \in [step : {"idle", "snapshot", "messages", "restore"},
                    known : [Messages -> Int], todo : SUBSET Messages]
      /\ \A x \in Messages : sync'.known[x] = archive[x] \/ sync'.known[x] = History!Absent
  BY <1>2, NoSyncIs DEF HistoryInv
<1>4. \A x \in Messages : History!Absent <= sync'.known[x] /\ sync'.known[x] <= version[x]
  BY <1>1, <1>3 DEF Values, History!Absent
<1> QED BY <1>1, <1>2, <1>3, <1>4, TextsKeep DEF Values, HistoryInv

LEMMA UploadsKeeps ==
    ASSUME History!Parameters, HistoryInv, NEW m \in Messages, NEW text \in Int, NEW outcome,
           History!Absent <= text, text <= version[m], History!Uploads(m, text, outcome)
    PROVE  /\ archive' \in [Messages -> Int] /\ outbox' \subseteq Messages /\ retry' \in BOOLEAN
           /\ \A x \in Messages : History!Absent <= archive'[x] /\ archive'[x] <= version[x]
<1>1. Values
  BY InValues
<1>2. CASE History!Archives(m, text, outcome) /\ retry' = (retry \/ outcome # "stored")
  <2>1. /\ archive' \in [Messages -> Int] /\ outbox' \subseteq Messages
        /\ \A x \in Messages : archive'[x] = archive[x] \/ (x = m /\ archive'[x] = text)
    BY <1>2, ArchivesKeeps
  <2> QED BY <1>1, <1>2, <2>1 DEF Values, HistoryInv
<1>3. CASE UNCHANGED <<archive, outbox, retry>>
  BY <1>1, <1>3 DEF Values, HistoryInv
<1> QED BY <1>2, <1>3 DEF History!Uploads

LEMMA SyncMessageKeeps ==
    ASSUME History!Parameters, HistoryInv, NEW m \in Messages, NEW outcome,
           History!SyncMessage(m, outcome)
    PROVE  HistoryInv'
<1>1. Values
  BY InValues
<1>2. sync' = [sync EXCEPT !.todo = sync.todo \ {m}] /\ version' = version
  BY DEF History!SyncMessage
<1>3. /\ sync' \in [step : {"idle", "snapshot", "messages", "restore"},
                    known : [Messages -> Int], todo : SUBSET Messages]
      /\ sync'.known = sync.known
  BY <1>2 DEF HistoryInv
<1>4. /\ sealed' \in [Messages -> SUBSET Nat] /\ texts' \in [Messages -> Int]
      /\ read' \in [Messages -> Nat]
      /\ \A x \in Messages : /\ sealed'[x] \subseteq sealed[x] /\ read'[x] <= version[x]
                             /\ History!Absent <= texts'[x] /\ texts'[x] <= version[x]
  <2>1. History!Decrypts(m) \/ UNCHANGED <<sealed, texts, read>>
    BY DEF History!SyncMessage
  <2>2. CASE UNCHANGED <<sealed, texts, read>>
    BY <1>1, <2>2 DEF Values, HistoryInv
  <2> QED BY <2>1, <2>2, DecryptsKeeps
<1>5. /\ archive' \in [Messages -> Int] /\ outbox' \subseteq Messages /\ retry' \in BOOLEAN
      /\ \A x \in Messages : History!Absent <= archive'[x] /\ archive'[x] <= version[x]
  <2>1. /\ History!Absent <= version[m] /\ version[m] <= version[m] /\ version[m] \in Int
        /\ History!Absent <= texts[m] /\ texts[m] <= version[m] /\ texts[m] \in Int
    BY <1>1 DEF Values, History!Absent
  <2>2. CASE History!Uploads(m, version[m], outcome) \/ History!Uploads(m, texts[m], outcome)
    BY <2>1, <2>2, UploadsKeeps
  <2>3. CASE UNCHANGED <<archive, outbox>> /\ retry' = (retry \/ sync.known[m] = History!Absent)
    BY <1>1, <2>3 DEF Values, HistoryInv
  <2> QED BY <2>2, <2>3 DEF History!SyncMessage
<1> QED BY <1>1, <1>2, <1>3, <1>4, <1>5, TextsKeep DEF Values

\* what comes back from the archives
LEMMA RestoredKeeps ==
    ASSUME History!Parameters, HistoryInv, NEW known \in [Messages -> Int],
           \A x \in Messages : known[x] <= version[x], texts' = History!Restored(known)
    PROVE  /\ texts' \in [Messages -> Int]
           /\ \A x \in Messages : History!Absent <= texts'[x] /\ texts'[x] <= version[x]
<1>1. Values
  BY InValues
<1> QED BY <1>1 DEF Values, History!Restored, History!Absent

LEMMA RestoreKeeps == ASSUME History!Parameters, HistoryInv,
    History!Restore \/ History!RetryRestore PROVE HistoryInv'
<1>1. Values
  BY InValues
<1>2. PICK known \in [Messages -> Int] :
          texts' = History!Restored(known) /\ \A x \in Messages : known[x] <= version[x]
  <2>1. sync.known \in [Messages -> Int] /\ archive \in [Messages -> Int]
    BY DEF HistoryInv
  <2>2. texts' = History!Restored(sync.known) \/ texts' = History!Restored(archive)
    BY DEF History!Restore, History!RetryRestore
  <2> QED BY <1>1, <2>1, <2>2 DEF Values
<1>3. retry' \in BOOLEAN /\ UNCHANGED <<version, sealed, archive, outbox, read>>
  BY DEF History!Restore, History!RetryRestore, HistoryInv, History!Unrestored
<1>4. sync' = History!NoSync \/ sync' = sync
  BY DEF History!Restore, History!RetryRestore
<1>5. /\ sync' \in [step : {"idle", "snapshot", "messages", "restore"},
                    known : [Messages -> Int], todo : SUBSET Messages]
      /\ \A x \in Messages : History!Absent <= sync'.known[x] /\ sync'.known[x] <= version[x]
  BY <1>1, <1>4, NoSyncIs DEF HistoryInv, Values, History!Absent
<1> QED BY <1>1, <1>2, <1>3, <1>5, RestoredKeeps, TextsKeep DEF Values, HistoryInv

LEMMA QuietlyKeeps == ASSUME History!Parameters, HistoryInv,
    History!RestoreAll \/ History!Stop PROVE HistoryInv'
<1>1. Values
  BY InValues
<1>2. /\ retry' \in BOOLEAN /\ UNCHANGED <<version, sealed, texts, archive, outbox, read>>
      /\ sync' = History!NoSync \/ sync' = [sync EXCEPT !.step = "restore"]
  BY DEF History!RestoreAll, History!Stop, HistoryInv
<1>3. /\ sync' \in [step : {"idle", "snapshot", "messages", "restore"},
                    known : [Messages -> Int], todo : SUBSET Messages]
      /\ sync' = History!NoSync \/ sync'.known = sync.known
  BY <1>2, NoSyncIs DEF HistoryInv
<1>4. \A x \in Messages : History!Absent <= sync'.known[x] /\ sync'.known[x] <= version[x]
  BY <1>1, <1>3, NoSyncIs DEF Values, History!Absent
<1> QED BY <1>1, <1>2, <1>3, <1>4, TextsKeep DEF Values, HistoryInv

LEMMA FlushKeeps ==
    ASSUME History!Parameters, HistoryInv, NEW m \in Messages, NEW outcome, History!Flush(m,
           outcome)
    PROVE  HistoryInv'
<1>1. Values
  BY InValues
<1>2. History!Archives(m, texts[m], outcome) /\ UNCHANGED <<version, sealed, texts, sync, retry,
      read>>
  BY DEF History!Flush
<1>3. /\ archive' \in [Messages -> Int] /\ outbox' \subseteq Messages
      /\ \A x \in Messages : archive'[x] = archive[x] \/ (x = m /\ archive'[x] = texts[m])
  BY <1>1, <1>2, ArchivesKeeps DEF Values
<1>4. \A x \in Messages : History!Absent <= archive'[x] /\ archive'[x] <= version[x]
  BY <1>1, <1>3 DEF Values
<1> QED BY <1>1, <1>2, <1>3, <1>4, TextsKeep DEF Values, HistoryInv

LEMMA HistoryStart == ASSUME History!Parameters, History!Init PROVE HistoryInv
<1>1. /\ version = [m \in Messages |-> 0] /\ sealed = [m \in Messages |-> {}]
      /\ texts = [m \in Messages |-> History!Absent]
         /\ archive = [m \in Messages |-> History!Absent]
      /\ outbox = {} /\ sync = History!NoSync /\ retry = FALSE /\ read = [m \in Messages |-> 0]
  BY DEF History!Init
<1>2. History!Absent \in Int /\ \A m \in Messages : Texts(0, {}, History!Absent, History!Absent,
      0, History!Absent)
  BY DEF Texts, History!Absent, History!Parameters
<1> QED BY <1>1, <1>2, NoSyncIs DEF HistoryInv

LEMMA HistoryStep == ASSUME History!Parameters, HistoryInv, [History!Next]_(History!hvars)
    PROVE HistoryInv'
<1>1. CASE UNCHANGED History!hvars
  BY <1>1 DEF History!hvars, HistoryInv
<1>2. CASE \E m \in Messages : History!Post(m)
  BY <1>2, PostKeeps
<1>3. CASE \E m \in Messages, outcome \in History!Outcomes :
               History!Send(m, outcome) \/ History!Receive(m, outcome) \/ History!SyncMessage(m,
               outcome) \/ History!Flush(m, outcome)
  BY <1>3, SendKeeps, ReceiveKeeps, SyncMessageKeeps, FlushKeeps
<1>4. CASE \E ok \in BOOLEAN : History!FetchHistory(ok)
  BY <1>4, FetchHistoryKeeps
<1> QED BY <1>1, <1>2, <1>3, <1>4, ApplySnapshotKeeps, RestoreKeeps,
   QuietlyKeeps DEF History!Next

LEMMA HistoryTyped == ASSUME History!Parameters PROVE History!Spec => []History!TypeOK
<1>1. History!Init => HistoryInv
  BY HistoryStart
<1>2. HistoryInv /\ [History!Next]_(History!hvars) => HistoryInv'
  BY HistoryStep
<1>3. HistoryInv => History!TypeOK
  BY DEF HistoryInv, Texts, History!TypeOK
<1> QED BY <1>1, <1>2, <1>3, PTL DEF History!Spec

-----------------------------------------------------------------------------
(* The two instances of ServerRoles share their variables: a behaviour of the services is *)
(* one of the instance that moves, or leaves the variables as they are.                   *)
LEMMA RolesPart == ServicesSpec /\ part = "roles" => Spec
<1>1. ServicesInit => Init
  BY DEF ServicesInit
<1>2. part = "roles" /\ [ServicesNext]_servicesVars => (part = "roles")' /\ [Next]_vars
  BY DEF ServicesNext, servicesVars, rolesVars, roleTables, vars
<1> QED BY <1>1, <1>2, PTL DEF ServicesSpec, Spec

LEMMA RightsPart == ServicesSpec /\ part = "overwrites" => Rights!Spec
<1>1. ServicesInit => Rights!Init
  BY DEF ServicesInit, Init, Rights!Init, MemberDefault, Rights!MemberDefault
<1>2. part = "overwrites" /\ [ServicesNext]_servicesVars
         => (part = "overwrites")' /\ [Rights!Next]_(Rights!vars)
  BY DEF ServicesNext, servicesVars, rolesVars, roleTables, Rights!vars
<1> QED BY <1>1, <1>2, PTL DEF ServicesSpec, Rights!Spec

RolesRest == part \notin {"roles", "overwrites"}

LEMMA RestPart == ServicesSpec /\ RolesRest => Init /\ []RolesRest /\ [][FALSE]_vars
<1>1. ServicesInit => Init
  BY DEF ServicesInit
<1>2. RolesRest /\ [ServicesNext]_servicesVars => RolesRest' /\ UNCHANGED vars
  BY DEF RolesRest, ServicesNext, servicesVars, rolesVars, roleTables, vars
<1> QED BY <1>1, <1>2, PTL DEF ServicesSpec

\* the part stays the same
LEMMA PartsApart ==
    ServicesSpec => \/ [](part = "roles") \/ [](part = "overwrites") \/ []RolesRest
<1>1. part = "roles" /\ [ServicesNext]_servicesVars => (part = "roles")'
  BY DEF ServicesNext, servicesVars
<1>2. part = "overwrites" /\ [ServicesNext]_servicesVars => (part = "overwrites")'
  BY DEF ServicesNext, servicesVars
<1>3. RolesRest /\ [ServicesNext]_servicesVars => RolesRest'
  BY DEF RolesRest, ServicesNext, servicesVars
<1>4. part = "roles" \/ part = "overwrites" \/ RolesRest
  BY DEF RolesRest
<1> QED BY <1>1, <1>2, <1>3, <1>4, PTL DEF ServicesSpec

\* positions, ranks and authority depend on the variables only
LEMMA SameRights ==
    /\ Rights!PositionsAreDistinct <=> PositionsAreDistinct
    /\ \A u : Rights!Highest(u) = Highest(u) /\ Rights!Authority(u) = Authority(u)
    /\ \A u : (Rights!Highest(u) = Highest(u) /\ Rights!Authority(u) = Authority(u))'
    /\ Rights!vars = vars /\ Rights!vars' = vars'
BY DEF Rights!PositionsAreDistinct, PositionsAreDistinct, Rights!Highest, Highest, Rights!Has, Has,
   Rights!Given, Given, Rights!Top, Top, Rights!Authority, Authority, Rights!Raw, Raw,
   Rights!AllGuild, AllGuild, Rights!Bits, Bits, Rights!vars, vars

(* no two roles of a server share a position, with and without overwrites (create_role)   *)
THEOREM ServicesPositionsAreDistinct == ServicesSpec => []PositionsAreDistinct
<1>1. Spec => []PositionsAreDistinct
  BY PositionsAreDistinctThm, ServicesParameters
<1>2. Rights!Spec => []PositionsAreDistinct
  <2>1. Rights!PositionsAreDistinct => PositionsAreDistinct
    BY SameRights
  <2> QED BY <2>1, Rights!PositionsAreDistinctThm, ServicesParameters, PTL
<1>3. Init /\ [][FALSE]_vars => []PositionsAreDistinct
  <2>1. Init => PositionsAreDistinct
    BY DEF Init, PositionsAreDistinct
  <2>2. PositionsAreDistinct /\ [FALSE]_vars => PositionsAreDistinct'
    BY DEF vars, PositionsAreDistinct
  <2> QED BY <2>1, <2>2, PTL
<1>4. part = "roles" \/ part = "overwrites" \/ RolesRest
  BY DEF RolesRest
<1> QED BY <1>1, <1>2, <1>3, <1>4, RolesPart, RightsPart, RestPart, PTL

(* a member is removed, silenced or overtaken in rank only by the owner or by somebody    *)
(* above it, with and without overwrites (require_manageable_role,                        *)
(* require_moderatable_target)                                                            *)
THEOREM ServicesNoOverthrow == ServicesSpec => NoOverthrow
<1> DEFINE A == actor' = owner \/ \A u \in members : Demoted(u) => Highest(actor') > Highest(u)
           R == \/ actor' = owner
                \/ \A u \in members : Rights!Demoted(u) => Rights!Highest(actor') > Rights!Highest(u)
<1>1. Spec => [][A]_vars
  BY NoOverthrowThm, ServicesParameters DEF NoOverthrow
<1>2. Rights!Spec => [][R]_(Rights!vars)
  BY Rights!NoOverthrowThm, ServicesParameters, PTL DEF Rights!NoOverthrow
<1>3. [R]_(Rights!vars) => [A]_vars
  <2>1. \A u : Rights!Demoted(u) <=> Demoted(u)
    BY SameRights DEF Demoted, Rights!Demoted
  <2>2. R => A
    BY <2>1, SameRights
  <2> QED BY <2>2, SameRights
<1>4. [FALSE]_vars => [A]_vars
  OBVIOUS
<1>5. part = "roles" \/ part = "overwrites" \/ RolesRest
  BY DEF RolesRest
<1>6. ServicesSpec => [][A]_vars
  <2> HIDE DEF A, R
  <2> QED BY <1>1, <1>2, <1>3, <1>4, <1>5, RolesPart, RightsPart, RestPart, PTL
<1> QED BY <1>6 DEF NoOverthrow

(* no member but the owner widens its own authority, with and without overwrites          *)
(* (require_manageable_permissions, set_member_role)                                      *)
THEOREM ServicesNobodyRaisesThemselves == ServicesSpec => NobodyRaisesThemselves
<1> DEFINE A == \A u \in (members \cap members') \ {owner} :
                   actor' = u => Authority(u)' \subseteq Authority(u)
           R == \A u \in (members \cap members') \ {owner} :
                   actor' = u => Rights!Authority(u)' \subseteq Rights!Authority(u)
<1>1. Spec => [][A]_vars
  BY NobodyRaisesThemselvesThm, ServicesParameters DEF NobodyRaisesThemselves
<1>2. Rights!Spec => [][R]_(Rights!vars)
  BY Rights!NobodyRaisesThemselvesThm, ServicesParameters DEF Rights!NobodyRaisesThemselves
<1>3. [R]_(Rights!vars) => [A]_vars
  BY SameRights
<1>4. [FALSE]_vars => [A]_vars
  OBVIOUS
<1>5. part = "roles" \/ part = "overwrites" \/ RolesRest
  BY DEF RolesRest
<1>6. ServicesSpec => [][A]_vars
  <2> HIDE DEF A, R
  <2> QED BY <1>1, <1>2, <1>3, <1>4, <1>5, RolesPart, RightsPart, RestPart, PTL
<1> QED BY <1>6 DEF NobodyRaisesThemselves

(* the state of every service keeps to its types and to the limits of the code, whichever *)
(* of them moves                                                                          *)
THEOREM ServicesTypesOK == ServicesSpec => []TypesOK
<1>1. ServicesSpec => [](part = "roles" => TypeOK)
  <2>1. part = "overwrites" \/ RolesRest => ~(part = "roles")
    BY DEF RolesRest
  <2> QED BY <2>1, RolesPart, PartsApart, TypeCorrect, ServicesParameters, PTL
<1>2. ServicesSpec => [](part = "overwrites" => Rights!TypeOK)
  <2>1. part = "roles" \/ RolesRest => ~(part = "overwrites")
    BY DEF RolesRest
  <2> QED BY <2>1, RightsPart, PartsApart, Rights!TypeCorrect, ServicesParameters, PTL
<1>3. ServicesSpec => [](Mls!TypeOK /\ Resolver!TypeOK /\ Key!TypeOK /\ Gate!TypeOK)
  BY MlsPart, MembersCatchUpThm, ResolverPart, ResolverAgreesThm, KeyPart, Key!TypeCorrect,
     GatePart, Gate!TypeCorrect, ServicesParameters, PTL
<1>4. ServicesSpec => [](Sign!TypeOK /\ Pairs!TypeOK /\ Files!TypeOK /\ Mod!TypeOK)
  BY SignPart, SignInTyped, PairsPart, RowsAgreeThm, FilesPart, FilesTyped, ModPart,
     Mod!TypeCorrect, ServicesParameters, PTL
<1>5. ServicesSpec => [](Talk!TypeOK /\ Names!TypeOK /\ History!TypeOK /\ Disk!TypeOK)
  BY TalkPart, VoiceTyped, NamesPart, NamesAreKeptThm, HistoryPart, HistoryTyped, DiskPart,
     CacheIsKeptThm, ServicesParameters, PTL
<1>6. ServicesSpec => [](part \in Parts)
  <2>1. ServicesInit => part \in Parts
    BY DEF ServicesInit
  <2>2. part \in Parts /\ [ServicesNext]_servicesVars => (part \in Parts)'
    BY DEF ServicesNext, servicesVars
  <2> QED BY <2>1, <2>2, PTL DEF ServicesSpec
<1>7. ASSUME part \in Parts, part = "roles" => TypeOK, part = "overwrites" => Rights!TypeOK,
             Mls!TypeOK, Resolver!TypeOK, Key!TypeOK, Gate!TypeOK, Sign!TypeOK, Pairs!TypeOK,
             Files!TypeOK, Mod!TypeOK, Talk!TypeOK, Names!TypeOK, History!TypeOK, Disk!TypeOK
      PROVE  TypesOK
  BY <1>7 DEF TypesOK, Parts
<1> QED BY <1>1, <1>2, <1>3, <1>4, <1>5, <1>6, <1>7, PTL

-----------------------------------------------------------------------------
(* the wrapped history key opens with the current password, however the changes of the  *)
(* password and of the vault interleave (change_password, store_vault)                  *)
THEOREM ServicesPasswordOpens == ServicesSpec => []PasswordOpens
<1>1. Key!PasswordOpens => PasswordOpens
  BY DEF PasswordOpens
<1> QED BY <1>1, KeyPart, Key!PasswordOpensThm, PTL

(* the vault, the recovery codes and the installations hold one history key unless two  *)
(* installations made one at once (establish_account_history_key)                       *)
THEOREM ServicesKeysAgree == ServicesSpec => []KeysAgree
<1>1. Key!KeysAgree => KeysAgree
  BY DEF KeysAgree
<1> QED BY <1>1, KeyPart, Key!KeysAgreeThm, PTL

(* the user holds recovery codes the server accepts, at every point where a batch may   *)
(* be lost (stage_recovery_codes)                                                       *)
THEOREM ServicesCodesAtHand == ServicesSpec => []CodesAtHand
<1>1. Key!CodesAtHand => CodesAtHand
  BY DEF CodesAtHand
<1> QED BY <1>1, KeyPart, Key!CodesAtHandThm, PTL

(* an account that is suspended or leaving, and a revoked device, hear no event         *)
(* published after the request answered, unless suspension and reinstatement overlapped *)
(* or the device was not among those listed to be cut off (gateway_session)             *)
THEOREM ServicesBarredHearNothing == ServicesSpec => []BarredHearNothing
<1>1. Gate!BarredHearNothing => BarredHearNothing
  BY DEF BarredHearNothing
<1> QED BY <1>1, GatePart, Gate!BarredHearNothingThm, ServicesParameters, PTL

(* friends end up knowing whether a session is open, for any number of connections,     *)
(* unless announcements crossed or the last was dropped (publish_presence)              *)
THEOREM ServicesPresenceSettles == ServicesSpec => []PresenceSettles
<1>1. Gate!PresenceSettles => PresenceSettles
  BY DEF PresenceSettles
<1> QED BY <1>1, GatePart, Gate!PresenceSettlesThm, ServicesParameters, PTL

(* messages are judged by the rules in force, unless a request put older ones back      *)
(* after a change (invalidate_automod_engine)                                           *)
THEOREM ServicesCacheIsCurrent == ServicesSpec => []CacheIsCurrent
<1>1. Mod!CacheIsCurrent => CacheIsCurrent
  BY DEF CacheIsCurrent
<1> QED BY <1>1, ModPart, Mod!CacheIsCurrentThm, ServicesParameters, PTL

(* fewer repeats pass than the threshold of the rule against them (automod_engine)      *)
THEOREM ServicesRepeatsAreStopped == ServicesSpec => []RepeatsAreStopped
<1>1. Mod!RepeatsAreStopped => RepeatsAreStopped
  BY DEF RepeatsAreStopped
<1> QED BY <1>1, ModPart, Mod!RepeatsAreStoppedThm, ServicesParameters, PTL

(* the resolver agrees with the order the overwrites are documented to have, for any    *)
(* roles and overwrites (resolve)                                                       *)
THEOREM ServicesResolverAgrees == ServicesSpec => []ResolverAgrees
<1>1. Resolver!ResolverAgrees => ResolverAgrees
  BY DEF ResolverAgrees
<1> QED BY <1>1, ResolverPart, ResolverAgreesThm, ServicesParameters, PTL

(* the two rows of a pair of people tell the same story, for any people                 *)
(* (update_relationship)                                                                *)
THEOREM ServicesRowsAgree == ServicesSpec => []RowsAgree
<1>1. Pairs!RowsAgree => RowsAgree
  BY DEF RowsAgree
<1> QED BY <1>1, PairsPart, RowsAgreeThm, ServicesParameters, PTL

(* who lost the access to a voice channel is out of it once the evictions are done,     *)
(* unless no eviction was spawned for them or theirs did not reach them                 *)
(* (revoke_member_voice)                                                                *)
THEOREM ServicesOutsidersStayOut == ServicesSpec => []OutsidersStayOut
<1>1. Talk!OutsidersStayOut => OutsidersStayOut
  BY DEF OutsidersStayOut
<1> QED BY <1>1, TalkPart, OutsidersStayOutThm, ServicesParameters, PTL

(* a file that a message refers to, or may still refer to, stays in the store           *)
(* (cleanup_expired_attachments)                                                        *)
THEOREM ServicesFilesStay == ServicesSpec => []FilesStay
<1>1. Files!FilesStay => FilesStay
  BY DEF FilesStay
<1> QED BY <1>1, FilesPart, FilesStayThm, PTL

(* a registration sent again is not taken for another's (provisioning_matches)          *)
THEOREM ServicesRetriesAreRecognised == ServicesSpec => []RetriesAreRecognised
<1>1. Names!RetriesAreRecognised => RetriesAreRecognised
  BY DEF RetriesAreRecognised
<1> QED BY <1>1, NamesPart, RetriesAreRecognisedThm, ServicesParameters, PTL

(* who registered under a name gets it, unless a sign-in by code took it                *)
(* (ensure_authenticated_user)                                                          *)
THEOREM ServicesNamesAreKept == ServicesSpec => []NamesAreKept
<1>1. Names!NamesAreKept => NamesAreKept
  BY DEF NamesAreKept
<1> QED BY <1>1, NamesPart, NamesAreKeptThm, ServicesParameters, PTL

(* a code, or a browser flow, gives one session, and the session is given out once,     *)
(* however often the code is tried, Apple answers or the device asks                    *)
(* (verify_email_code, complete_apple_flow, poll_apple_flow)                            *)
THEOREM ServicesOneSessionEach == ServicesSpec => []OneSessionEach
<1>1. Sign!OneSessionEach => OneSessionEach
  BY DEF OneSessionEach
<1> QED BY <1>1, SignPart, OneSessionEachThm, ServicesParameters, PTL

(* an Apple identity joins an account that exists only over its verified address or by  *)
(* a link begun since the last recovery of the password (complete_apple_flow)           *)
THEOREM ServicesJoinsOnProof == ServicesSpec => JoinsOnProof
BY SignPart, JoinsOnProofThm, ServicesParameters, PTL DEF JoinsOnProof

(* the cache outlives every interruption of its encryption, of an upgrade and of a      *)
(* reset: a copy that opens is left unless the key was lost with it, and a start is     *)
(* blocked for a cause (encrypt_plaintext_cache, recover_interrupted_cache_migration,   *)
(* reset_local_cache)                                                                   *)
THEOREM ServicesCacheIsKept == ServicesSpec => []CacheIsKept
<1>1. Disk!CacheIsKept => CacheIsKept
  BY DEF CacheIsKept
<1> QED BY <1>1, DiskPart, CacheIsKeptThm, ServicesParameters, PTL

(* a member that was not cut off finds in its mailbox exactly the commits it misses, in *)
(* order, however devices race for the next epoch (update_mls_group, process_mls_inbox, *)
(* maintain_channel_mls)                                                                *)
THEOREM ServicesMembersCatchUp == ServicesSpec => []MembersCatchUp
<1>1. Mls!MembersCatchUp => MembersCatchUp
  BY DEF MembersCatchUp
<1> QED BY <1>1, MlsPart, MembersCatchUpThm, ServicesParameters, PTL

=============================================================================
