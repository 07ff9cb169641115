------------------------------- MODULE Voice -------------------------------
(***************************************************************************)
(* Voice tokens and evictions of one voice channel (lib.rs, repository.rs) *)
(* and the SFU as lib.rs uses it.  A token admits its member for a minute  *)
(* and the SFU never asks again; who loses access is put out by a task     *)
(* that most requests leave behind.  Where the request was not about this  *)
(* channel, the task looks the channels up first, and finds those that are *)
(* not deleted by then.                                                    *)
(***************************************************************************)
EXTENDS Naturals, FiniteSets

CONSTANTS
    Members,
    MaxAttempts,   \* of an eviction, to look up and to put out
    MaxChanges     \* bound: changes of the access, and restarts

VARIABLES
    deleted,     \* the channel, or its server
    access,      \* members whose permissions let them connect
    signing,     \* requests between voice_access and issue_voice_grant
    tokens,      \* members with a token the SFU still takes
    connected,   \* participants of the room
    evictions,   \* spawned tasks: whom they put out, what is next, and failures of it so far
    changes,
    excused      \* history: members no eviction is sure to reach

vvars == <<deleted, access, signing, tokens, connected, evictions, changes, excused>>

Room == "room"

\* what the theorems ask of the constants
Parameters == Room \notin Members /\ MaxAttempts \in Nat \ {0} /\ MaxChanges \in Nat
Eviction == [target : Members \cup {Room}, next : {"lookup", "remove"}, failed : 0 .. MaxAttempts - 1]

TypeOK ==
    /\ deleted \in BOOLEAN /\ (deleted => access = {})
    /\ access \subseteq Members /\ signing \subseteq Members
    /\ tokens \subseteq Members /\ connected \subseteq Members
    /\ evictions \subseteq Eviction
    /\ changes \in 0 .. MaxChanges /\ excused \subseteq Members

Init ==
    /\ deleted = FALSE /\ access = Members /\ signing = {} /\ tokens = {} /\ connected = {}
    /\ evictions = {} /\ changes = 0 /\ excused = {}

Happens == changes < MaxChanges /\ changes' = changes + 1

-----------------------------------------------------------------------------
(* Joining *)

\* create_voice_token: voice_access, then issue_voice_grant
CheckAccess(u) ==
    /\ u \in access
    /\ signing' = signing \cup {u}
    /\ UNCHANGED <<deleted, access, tokens, connected, evictions, changes, excused>>

\* the token is dated when it is signed, whatever happened since the check
Sign(u) ==
    /\ u \in signing /\ signing' = signing \ {u}
    /\ tokens' = tokens \cup {u}
    /\ excused' = excused \cup ({u} \ access)
    /\ UNCHANGED <<deleted, access, connected, evictions, changes>>

\* sixty seconds later
Expire(u) ==
    /\ u \in tokens /\ tokens' = tokens \ {u}
    /\ UNCHANGED <<deleted, access, signing, connected, evictions, changes, excused>>

Join(u) ==
    /\ u \in tokens /\ connected' = connected \cup {u}
    /\ UNCHANGED <<deleted, access, signing, tokens, evictions, changes, excused>>

Leave(u) ==
    /\ u \in connected /\ connected' = connected \ {u}
    /\ UNCHANGED <<deleted, access, signing, tokens, evictions, changes, excused>>

-----------------------------------------------------------------------------
(* Losing access *)

\* a request is committed that leaves S with access; an eviction is spawned and has
\* nothing to do with missed
Changed(S, target, next, missed) ==
    /\ Happens /\ (deleted => S = {})
    /\ access' = S
    /\ evictions' = evictions \cup {[target |-> target, next |-> next, failed |-> 0]}
    /\ excused' = (excused \ S) \cup missed
    /\ UNCHANGED <<signing, tokens, connected>>

\* a kick, ban, timeout or role assignment of a member, or a session of theirs is ended:
\* revoke_member_voice
ChangeMember(u, may) ==
    /\ Changed(IF may THEN access \cup {u} ELSE access \ {u}, u, "lookup", {})
    /\ UNCHANGED deleted

\* a role is changed or deleted, reset_guild_voice: the room is emptied, and tokens are
\* left alone
ChangeRole(S) ==
    /\ Changed(S, Room, "lookup", (access \ S) \cap tokens)
    /\ UNCHANGED deleted

\* set_channel_overwrite and delete_channel_overwrite, of a member or of a role
ChangeOverwrite(target, S) ==
    /\ ~deleted
    /\ IF target = Room
       THEN Changed(S, Room, "remove", (access \ S) \cap tokens)
       ELSE /\ S \ {target} = access \ {target}
            /\ Changed(S, target, "remove", {})
    /\ UNCHANGED deleted

\* delete_channel, and delete_guild, which reset the rooms they knew
DeleteChannel ==
    /\ ~deleted /\ deleted' = TRUE
    /\ Changed({}, Room, "remove", access \cap tokens)

\* the access becomes S, and no eviction follows
Unattended(S) ==
    /\ Happens /\ ~deleted
    /\ access' = S /\ excused' = (excused \ S) \cup (access \ S)
    /\ UNCHANGED <<deleted, signing, tokens, connected, evictions>>

\* transfer_guild_ownership: the former owner is left with what the roles allow
TransferOwnership(u, v, may) ==
    /\ u \in access /\ v \in Members \ {u}
    /\ Unattended({v} \cup IF may THEN access ELSE access \ {u})

\* accept_invite, or a timeout that is over
Return(u) == u \notin access /\ Unattended(access \cup {u})

\* the erasure of accounts, which removes memberships and evicts nobody, or a request that
\* takes access and is dropped once it is committed, with what was to follow
Interrupted(S) == S \subseteq access /\ Unattended(S)

InterruptedDeletion ==
    /\ Happens /\ ~deleted /\ deleted' = TRUE
    /\ access' = {} /\ excused' = excused \cup access \cup connected
    /\ UNCHANGED <<signing, tokens, connected, evictions>>

-----------------------------------------------------------------------------
(* Evictions *)

Missed(e) == IF e.target = Room THEN connected ELSE {e.target}

\* voice_channel_ids leaves deleted channels out
LookUp(e) ==
    /\ e.next = "lookup"
    /\ evictions' = (evictions \ {e}) \cup
          IF deleted THEN {} ELSE {[target |-> e.target, next |-> "remove", failed |-> 0]}
    /\ excused' = excused \cup IF deleted THEN {e.target} \cap Members ELSE {}
    /\ UNCHANGED <<deleted, access, signing, tokens, connected, changes>>

\* mutant: participants are put out and keep their tokens
Revoked_Kept(e) == {}
\* remove_participant revokes the tokens of the one it puts out; delete_room none
Revoked(e) == {e.target} \cap Members

Evict(e) ==
    /\ e.next = "remove" /\ evictions' = evictions \ {e}
    /\ connected' = IF e.target = Room THEN {} ELSE connected \ {e.target}
    /\ tokens' = tokens \ Revoked(e)
    /\ excused' = excused \cap (connected' \cup tokens')
    /\ UNCHANGED <<deleted, access, signing, changes>>

\* the database or the SFU fails: a limited number of attempts
Fail(e) ==
    /\ IF e.failed + 1 < MaxAttempts
       THEN /\ evictions' = (evictions \ {e}) \cup
                  {[target |-> e.target, next |-> e.next, failed |-> e.failed + 1]}
            /\ UNCHANGED excused
       ELSE evictions' = evictions \ {e} /\ excused' = excused \cup Missed(e)
    /\ UNCHANGED <<deleted, access, signing, tokens, connected, changes>>

\* the monolith stops: its tasks are gone, the SFU goes on
Restart ==
    /\ Happens
    /\ signing' = {} /\ evictions' = {}
    /\ excused' = excused \cup UNION {Missed(e) : e \in evictions}
    /\ UNCHANGED <<deleted, access, tokens, connected>>

Next ==
    \/ \E u \in Members :
          \/ CheckAccess(u) \/ Sign(u) \/ Expire(u) \/ Join(u) \/ Leave(u) \/ Return(u)
          \/ \E may \in BOOLEAN :
                ChangeMember(u, may) \/ \E v \in Members : TransferOwnership(u, v, may)
    \/ \E S \in SUBSET Members :
          \/ ChangeRole(S) \/ Interrupted(S)
          \/ \E target \in Members \cup {Room} : ChangeOverwrite(target, S)
    \/ DeleteChannel \/ InterruptedDeletion
    \/ \E e \in evictions : LookUp(e) \/ Evict(e) \/ Fail(e)
    \/ Restart

Spec == Init /\ [][Next]_vvars

-----------------------------------------------------------------------------
\* who has lost the access to a voice channel neither stays in it nor comes back with a
\* token signed before, once the evictions are done: "remove the affected participant
\* and revoke previously issued token timestamps" (docs/voice-media.md).  Excused is, until
\* an eviction puts them out, who lost the access by a transfer of ownership, an erasure
\* or a request cut short, which spawn none; whose eviction found the channel deleted, gave
\* up or was lost with the process; and who had a token signed after the loss, or still
\* good at a change of roles or the deletion of the channel, which only reset the room.
OutsidersStayOut ==
    \A u \in (connected \cup tokens) \ (access \cup excused) :
        \E e \in evictions : e.target \in {u, Room}
=============================================================================
