---------------------------- MODULE MlsDelivery ----------------------------
(***************************************************************************)
(* The MLS group of one encrypted server channel: the delivery service of  *)
(* the server (repository.rs), which keeps one-time KeyPackages, the epoch *)
(* and the members of the group and a mailbox per device, and the desktop  *)
(* client (src-tauri lib.rs), which creates the group, admits devices,     *)
(* removes revoked ones and follows the commits of the others.             *)
(*                                                                         *)
(* A client changes its group in memory, asks the server to accept the     *)
(* change and seals the new state only when the reply comes; any error     *)
(* restores the state from before.  The group a device holds is described  *)
(* by its epoch: what an epoch contains is decided by the server's order.  *)
(***************************************************************************)
EXTENDS Naturals, Sequences, FiniteSets

CONSTANTS
    Devices,     \* installations of the accounts that may see the channel
    Stock,       \* KeyPackages a device publishes at a start of its process (20)
    MaxEpoch,    \* bound: no membership change is begun from there on
    MaxEvents    \* bound: devices revoked, replies lost, restarts, access changes

VARIABLES
    identity,    \* device_identities: none, active or revoked
    packages,    \* KeyPackages of each device that nobody has claimed
    claims,      \* claimed packages, as <<claiming device, claimed device>>
    roster,      \* channel_mls_members at every epoch so far; <<>>: no group
    mailbox,     \* deliveries each device has not acknowledged
    reach,       \* devices of the accounts whose permissions cover the channel
    ready,       \* devices whose process has loaded and published its identity
    local,       \* epoch of the group each device has sealed; 0: no group
    op,          \* the membership change each device is working on
    stranded,    \* history: devices cut off by a lost reply or by missing access
    events       \* of the bounded kind so far

server == <<identity, packages, claims, roster, mailbox, reach>>
client == <<ready, local, op>>
vars == <<server, client, stranded, events>>

Epoch == Len(roster)
Members == IF roster = <<>> THEN {} ELSE roster[Len(roster)]
Active == {d \in Devices : identity[d] = "active"}

\* what the theorems ask of the constants
Parameters == Stock \in Nat /\ MaxEpoch \in Nat /\ MaxEvents \in Nat

Delivery == [kind : {"welcome", "commit"}, epoch : 1 .. MaxEpoch]

(***************************************************************************)
(* adding: told that nothing has to be removed, about to claim packages;   *)
(* sent: the group is changed in memory and the server is asked;           *)
(* accepted: the reply is on its way; dropped: the change failed after the *)
(* client was taken out of its slot, and nothing puts it back.             *)
(***************************************************************************)
Op == [step : {"idle", "adding", "sent", "accepted", "dropped"},
       adds : SUBSET Devices, removes : SUBSET Devices]
NoOp == [step |-> "idle", adds |-> {}, removes |-> {}]

TypeOK ==
    /\ identity \in [Devices -> {"none", "active", "revoked"}]
    /\ packages \in [Devices -> 0 .. Stock]
    /\ claims \subseteq Devices \X Devices
    /\ roster \in Seq(SUBSET Devices) /\ Epoch <= MaxEpoch
    /\ mailbox \in [Devices -> Seq(Delivery)]
    /\ reach \subseteq Devices
    /\ ready \subseteq Devices
    /\ local \in [Devices -> 0 .. MaxEpoch]
    /\ op \in [Devices -> Op]
    /\ stranded \subseteq Devices
    /\ events \in 0 .. MaxEvents
    \* a device holds a group only of an epoch it is a member of
    /\ \A d \in Devices : local[d] > 0 => local[d] <= Epoch /\ d \in roster[local[d]]

Init ==
    /\ identity = [d \in Devices |-> "none"]
    /\ packages = [d \in Devices |-> 0]
    /\ claims = {} /\ roster = <<>>
    /\ mailbox = [d \in Devices |-> <<>>]
    /\ reach = Devices
    /\ ready = {}
    /\ local = [d \in Devices |-> 0]
    /\ op = [d \in Devices |-> NoOp]
    /\ stranded = {} /\ events = 0

Happens == events < MaxEvents /\ events' = events + 1

-----------------------------------------------------------------------------
(* Identities and packages *)

\* register_device_identity: a revoked identity stays revoked
Register(d) ==
    /\ identity[d] = "none"
    /\ identity' = [identity EXCEPT ![d] = "active"]
    /\ UNCHANGED <<packages, claims, roster, mailbox, reach, client, stranded, events>>

\* publish_mls_key_packages, a request of its own at every start
PublishPackages(d) ==
    /\ d \in Active \ ready
    /\ packages' = [packages EXCEPT ![d] = Stock]
    /\ ready' = ready \cup {d}
    /\ UNCHANGED <<identity, claims, roster, mailbox, reach, local, op,
                   stranded, events>>

\* revoke_device_identity burns the packages nobody has claimed
Revoke(d) ==
    /\ d \in Active /\ Happens
    /\ identity' = [identity EXCEPT ![d] = "revoked"]
    /\ packages' = [packages EXCEPT ![d] = 0]
    /\ UNCHANGED <<claims, roster, mailbox, reach, client, stranded>>

\* a role, an overwrite or a timeout changes who may see the channel
ChangeAccess(d) ==
    /\ Happens
    /\ reach' = IF d \in reach THEN reach \ {d} ELSE reach \cup {d}
    /\ UNCHANGED <<identity, packages, claims, roster, mailbox, client, stranded>>

-----------------------------------------------------------------------------
(* Changing the group *)

Signed(d) == d \in Active \cap ready
Set(d, step, adds, removes) ==
    op' = [op EXCEPT ![d] = [step |-> step, adds |-> adds, removes |-> removes]]

\* unresolved_revoked_devices: revoked devices that its own group still contains
Unresolved(d) == (Members \ Active) \cap roster[local[d]]

\* pending_mls_removals, asked by the periodic maintenance of a member: removals come
\* first; and because any device of the service makes a hint, it may always try to add
Hint(d) ==
    /\ Signed(d) /\ d \in Members \cap reach /\ op[d] = NoOp
    /\ local[d] > 0 /\ Epoch < MaxEpoch
    /\ \/ Members \subseteq Active /\ Set(d, "adding", {}, {})
       \/ Unresolved(d) # {} /\ Set(d, "sent", {}, Unresolved(d))
    /\ UNCHANGED <<server, ready, local, stranded, events>>

\* what a device has claimed and not used: a repeated request gets the same packages
Claimed(d) == {x \in Devices : <<d, x>> \in claims} \ (Members \cap Active)

\* add_members refuses a device the group has
Rejects(d, adds) == local[d] > 0 /\ adds \cap roster[local[d]] # {}

\* claim_mls_key_packages: one package of every device that is not in the group, or
\* none at all; then create_group or add_members
Claim(d) ==
    LET missing == (Active \cap reach) \ (Members \cup {d})
        adds == IF Claimed(d) # {} THEN Claimed(d) ELSE missing
    IN  /\ Signed(d) /\ d \in reach
        /\ op[d].step = "adding" \/ (op[d] = NoOp /\ local[d] = 0)
        /\ Epoch < MaxEpoch
        /\ roster = <<>> \/ d \in Members
        /\ Claimed(d) # {} \/ \A x \in missing : packages[x] > 0
        /\ IF Claimed(d) # {} THEN UNCHANGED <<packages, claims>>
           ELSE /\ packages' = [x \in Devices |-> IF x \in missing THEN packages[x] - 1
                                                  ELSE packages[x]]
                /\ claims' = claims \cup ({d} \X missing)
        /\ IF local[d] > 0 /\ adds = {} THEN op' = [op EXCEPT ![d] = NoOp]
           ELSE IF Rejects(d, adds) THEN Set(d, "dropped", {}, {})
           ELSE Set(d, "sent", adds, {})
        /\ UNCHANGED <<identity, roster, mailbox, reach, ready, local, stranded, events>>

\* the claim fails, for want of a package or of access
GiveUp(d) ==
    /\ op[d].step = "adding"
    /\ \/ d \notin reach \/ d \notin Members \cap Active
       \/ \E x \in (Active \cap reach) \ (Members \cup {d}) : packages[x] = 0
    /\ op' = [op EXCEPT ![d] = NoOp]
    /\ UNCHANGED <<server, ready, local, stranded, events>>

Post(x, kind, epoch) == Append(mailbox[x], [kind |-> kind, epoch |-> epoch])

\* mutant: whatever epoch the sender has, its commit becomes the next
Acceptable_AnyEpoch(d) ==
    IF local[d] = 0 THEN roster = <<>>
    ELSE /\ d \in Members \cap Active
         /\ op[d].removes \subseteq Members \ Active

\* bootstrap_mls_group; a device that was revoked meanwhile is not told apart
CanBootstrap(d) == roster = <<>> /\ d \in reach

\* update_mls_group: the epoch the change is built on is the current one
CanUpdate(d) ==
    /\ d \in reach
    /\ local[d] = Epoch
    /\ d \in Members \cap Active
    /\ op[d].removes \subseteq Members \ Active

\* validate_welcome_set: the Welcomes are those of the packages claimed
WelcomesClaimed(d) ==
    op[d].adds # {} => op[d].adds = {x \in Devices : <<d, x>> \in claims} \ Members

Acceptable(d) == IF local[d] = 0 THEN CanBootstrap(d) ELSE CanUpdate(d) /\ WelcomesClaimed(d)

\* members that get the commit
Recipients(d) == (Members \cap Active \cap reach) \ (op[d].removes \cup {d})

\* what create_group, add_members or remove_devices make of the group
NextMembers(d) == ((Members \ op[d].removes) \cup op[d].adds) \cup {d}

Accept(d) ==
    /\ op[d].step = "sent" /\ Acceptable(d)
    /\ LET next == Epoch + 1
           told == Recipients(d)
       IN  /\ roster' = Append(roster, NextMembers(d))
           /\ mailbox' = [x \in Devices |->
                            IF x \in told THEN Post(x, "commit", next)
                            ELSE IF x \in op[d].adds THEN Post(x, "welcome", next)
                            ELSE mailbox[x]]
           /\ stranded' = stranded \cup
                            ((Members \cap Active) \ (told \cup op[d].removes \cup {d}))
    /\ op' = [op EXCEPT ![d].step = "accepted"]
    /\ UNCHANGED <<identity, packages, claims, reach, ready, local, events>>

\* the sealed state from before is restored
Refuse(d) ==
    /\ op[d].step = "sent" /\ ~Acceptable(d)
    /\ op' = [op EXCEPT ![d] = NoOp]
    /\ UNCHANGED <<server, ready, local, stranded, events>>

\* persist_mls_client
Seal(d) ==
    /\ op[d].step = "accepted"
    /\ local' = [local EXCEPT ![d] = @ + 1]
    /\ op' = [op EXCEPT ![d] = NoOp]
    /\ UNCHANGED <<server, ready, stranded, events>>

\* the reply is lost, and the client restores as if the server had refused
Lose(d) ==
    /\ op[d].step = "accepted" /\ Happens
    /\ op' = [op EXCEPT ![d] = NoOp]
    /\ stranded' = stranded \cup {d}
    /\ UNCHANGED <<server, ready, local>>

-----------------------------------------------------------------------------
(* Following the group *)

\* mls_inbox, in the order of the epochs, and acknowledge_mls_delivery
Inbox(d) == Head(mailbox[d])
Acknowledged(d) == [mailbox EXCEPT ![d] = Tail(@)]

\* join_group, process_commit
Joins(d, m) == m.kind = "welcome" /\ local[d] = 0
Follows(d, m) == m.kind = "commit" /\ local[d] > 0 /\ m.epoch = local[d] + 1

\* process_mls_inbox: a Welcome of the group that is held is passed over, a commit of
\* any epoch but the next is an error, and an error ends the pass before it acknowledges
Handle(d) ==
    LET m == Inbox(d)
    IN  /\ Signed(d) /\ op[d].step \in {"idle", "adding"} /\ mailbox[d] # <<>>
        /\ \/ m.kind = "welcome" /\ local[d] > 0 /\ UNCHANGED local
           \/ /\ Joins(d, m) \/ Follows(d, m)
              /\ local' = [local EXCEPT ![d] = m.epoch]
        /\ \/ /\ mailbox' = Acknowledged(d)
              /\ UNCHANGED <<stranded, events>>
           \* sealed, and the acknowledgement does not arrive
           \/ /\ Happens
              /\ stranded' = IF m.kind = "commit" THEN stranded \cup {d} ELSE stranded
              /\ UNCHANGED mailbox
        /\ UNCHANGED <<identity, packages, claims, roster, reach, ready, op>>

\* the process ends and starts again with what it has sealed
Restart(d) ==
    /\ d \in ready /\ Happens
    /\ ready' = ready \ {d}
    /\ op' = [op EXCEPT ![d] = NoOp]
    /\ stranded' = IF op[d].step = "accepted" THEN stranded \cup {d} ELSE stranded
    /\ UNCHANGED <<server, local>>

Next ==
    \E d \in Devices :
        \/ Register(d) \/ PublishPackages(d) \/ Revoke(d) \/ ChangeAccess(d)
        \/ Hint(d) \/ Claim(d) \/ GiveUp(d) \/ Accept(d) \/ Refuse(d) \/ Seal(d) \/ Lose(d)
        \/ Handle(d) \/ Restart(d)

Spec == Init /\ [][Next]_vars

-----------------------------------------------------------------------------
\* the mailbox of a device takes it from the epoch it holds to the current one
CatchesUp(d) ==
    LET welcomed == mailbox[d] # <<>> /\ Head(mailbox[d]).kind = "welcome"
        commits == IF welcomed THEN Tail(mailbox[d]) ELSE mailbox[d]
        from == IF local[d] > 0 THEN local[d] ELSE Head(mailbox[d]).epoch
    IN  /\ local[d] > 0 \/ welcomed
        /\ Len(commits) = Epoch - from
        /\ \A i \in 1 .. Len(commits) : commits[i] = [kind |-> "commit", epoch |-> from + i]

Settled(d) == d \in Members \cap Active /\ op[d].step # "accepted"

\* a member whose device works finds in its mailbox exactly the commits it misses, in
\* order, however devices race for the next epoch, unless it was cut off
\* (update_mls_group, process_mls_inbox, maintain_channel_mls)
MembersCatchUp == \A d \in Devices \ stranded : Settled(d) => CatchesUp(d)

=============================================================================
