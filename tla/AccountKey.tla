----------------------------- MODULE AccountKey -----------------------------
(***************************************************************************)
(* The history key of an account: a random key that every installation     *)
(* keeps in its credential vault and the server stores wrapped, once by    *)
(* the password (account_key_vaults) and once by each recovery code        *)
(* (password_recovery_codes).  Sign-in, password change, recovery and the  *)
(* replacement of the codes each take several requests of the desktop      *)
(* client (src-tauri lib.rs), which other installations come between.      *)
(*                                                                         *)
(* Keys, passwords and batches of codes are numbered as they are made.  A  *)
(* legacy account was registered without a wrapped key.                    *)
(***************************************************************************)
EXTENDS Naturals, FiniteSets

CONSTANTS
    Devices,
    MaxKeys, MaxPasswords, MaxBatches,   \* bounds: how many are ever made
    MaxDrops                             \* bound: requests given up, installations wiped

NoKey == 0

VARIABLES
    password,    \* the current one
    vault,       \* the wrapped key of the account: key and password it opens with
    batches,     \* batches of recovery codes: id and the key they wrap
    sessions,    \* installations with a session that is not revoked
    local,       \* the key in each installation's credential vault
    task,        \* what each installation is doing
    shown,       \* batches the user has been shown
    made,        \* how many keys, passwords and batches were made
    drops,
    unseen,      \* history: new codes were activated and never shown
    raced        \* history: two keys were made for a vault that was empty

stored == <<password, vault, batches, sessions>>
kvars == <<stored, local, task, shown, made, drops, unseen, raced>>

\* what the theorems ask of the constants
Parameters ==
    /\ {MaxKeys, MaxPasswords, MaxBatches} \subseteq Nat \ {0}
    /\ MaxDrops \in Nat

Key == 0 .. MaxKeys
Batch == [id : 1 .. MaxBatches, key : Key]
Steps == {"idle", "fetch", "set", "save", "ready", "upload", "show", "change", "recover"}
Task == [step : Steps, key : Key, with : 0 .. MaxPasswords, batch : 0 .. MaxBatches]
Idle == [step |-> "idle", key |-> NoKey, with |-> 0, batch |-> 0]

TypeOK ==
    /\ password \in 1 .. MaxPasswords
    /\ vault \in [key : Key, with : 0 .. MaxPasswords]
    /\ batches \subseteq Batch
    /\ \A b, c \in batches : b.id = c.id => b = c
    /\ sessions \subseteq Devices
    /\ local \in [Devices -> Key]
    /\ task \in [Devices -> Task]
    /\ shown \subseteq 1 .. MaxBatches
    /\ made \in [key : Key, password : 1 .. MaxPasswords, batch : 1 .. MaxBatches]
    /\ drops \in 0 .. MaxDrops /\ unseen \in BOOLEAN /\ raced \in BOOLEAN

\* just registered, with a wrapped key on the first installation or as a legacy account
Init ==
    /\ password = 1 /\ task = [d \in Devices |-> Idle] /\ shown = {1}
    /\ drops = 0 /\ unseen = FALSE /\ raced = FALSE
    /\ \E first \in Devices, key \in {NoKey, 1} :
          /\ sessions = {first}
          /\ local = [d \in Devices |-> IF d = first THEN key ELSE NoKey]
          /\ batches = {[id |-> 1, key |-> key]}
          /\ vault = [key |-> key, with |-> key]
          /\ made = [key |-> key, password |-> 1, batch |-> 1]

-----------------------------------------------------------------------------
At(d, step) == task[d].step = step
Go(d, t) == task' = [task EXCEPT ![d] = t]
Step(d, step) == Go(d, [task[d] EXCEPT !.step = step])
Save(d, key) == local' = [local EXCEPT ![d] = key]

\* a fresh key, password or batch
Make(kind) == made' = [made EXCEPT ![kind] = @ + 1]
MakeKey ==
    /\ made.key < MaxKeys /\ Make("key")
    /\ raced' = (raced \/ (vault.key = NoKey /\ made.key > 0))
NewKey == made.key + 1
NewPassword == made.password + 1
NewBatch == made.batch + 1

\* the session still counts and the password that comes with the request is the current one
Granted(d) == d \in sessions /\ task[d].with = password

-----------------------------------------------------------------------------
(* Signing in *)

\* login_password
Login(d) ==
    /\ At(d, "idle")
    /\ sessions' = sessions \cup {d}
    /\ Go(d, [Idle EXCEPT !.step = "fetch", !.with = password])
    /\ UNCHANGED <<password, vault, batches, local, shown, made, drops, unseen, raced>>

\* mutant: an installation without the key makes one whatever the server has
Missing_Local(d) == local[d] = NoKey
\* no key to be had: establish_account_history_key makes one
Missing(d) == local[d] = NoKey /\ vault.key = NoKey

\* establish_account_history_key, up to the reply of account_key_vault
Establish(d) ==
    LET opens == vault.with = task[d].with
    IN  /\ At(d, "fetch") /\ d \in sessions
        /\ \/ /\ Missing(d)
              /\ Go(d, [task[d] EXCEPT !.step = "set", !.key = NewKey])
              /\ MakeKey /\ UNCHANGED local
           \/ /\ ~Missing(d) /\ vault.key # NoKey /\ opens /\ local[d] \in {NoKey, vault.key}
              /\ Save(d, vault.key)
              /\ Go(d, [task[d] EXCEPT !.step = "ready", !.key = vault.key])
              /\ UNCHANGED <<made, raced>>
           \* with a key of its own, wrapped anew for a vault that is empty or does not open
           \/ /\ local[d] # NoKey /\ (vault.key = NoKey \/ ~opens)
              /\ Go(d, [task[d] EXCEPT !.step = "set", !.key = local[d]])
              /\ UNCHANGED <<local, made, raced>>
           \* "the server and this device disagree", or the password does not unlock
           \/ /\ ~Missing(d) /\ vault.key # NoKey
              /\ local[d] \notin IF opens THEN {NoKey, vault.key} ELSE Key \ {NoKey}
              /\ Go(d, Idle) /\ UNCHANGED <<local, made, raced>>
        /\ UNCHANGED <<stored, shown, drops, unseen>>

\* set_account_key_vault: whatever is there is replaced
SetVault(d) ==
    /\ At(d, "set") /\ Granted(d)
    /\ vault' = [key |-> task[d].key, with |-> task[d].with]
    /\ Step(d, "save")
    /\ UNCHANGED <<password, batches, sessions, local, shown, made, drops, unseen, raced>>

SaveKey(d) ==
    /\ At(d, "save")
    /\ Save(d, task[d].key) /\ Step(d, "ready")
    /\ UNCHANGED <<stored, shown, made, drops, unseen, raced>>

-----------------------------------------------------------------------------
(* Recovery codes *)

\* recovery_key_vaults_ready: all codes there are belong to one batch and wrap the key
Ready(d) ==
    /\ At(d, "ready") /\ d \in sessions
    /\ Cardinality(batches) = 1 /\ \A b \in batches : b.key # NoKey
    /\ Go(d, Idle)
    /\ UNCHANGED <<stored, local, shown, made, drops, unseen, raced>>

\* mutant: the new codes take the place of the old ones at once
Staged_Instead(new) == {new}
\* stage_recovery_codes: the older codes stay
Staged(new) == batches \cup {new}

Stage(d, with, key) ==
    /\ made.batch < MaxBatches
    /\ batches' = Staged([id |-> NewBatch, key |-> NoKey]) /\ Make("batch")
    /\ IF key = NoKey THEN Go(d, Idle)
       ELSE Go(d, [step |-> "upload", key |-> key, with |-> with, batch |-> NewBatch])
    /\ UNCHANGED <<password, vault, sessions, local, shown, drops, unseen, raced>>

\* regenerate_recovery_codes, at the end of a sign-in or asked for in the settings
Regenerate(d) ==
    \/ At(d, "ready") /\ Granted(d)
       /\ ~(Cardinality(batches) = 1 /\ \A b \in batches : b.key # NoKey)
       /\ Stage(d, password, task[d].key)
    \/ At(d, "idle") /\ d \in sessions /\ Stage(d, password, local[d])

\* set_recovery_key_vaults: the new codes get their keys and the older ones go
Upload(d) ==
    /\ At(d, "upload") /\ Granted(d)
    /\ \E b \in batches : b.id = task[d].batch
    /\ batches' = {[id |-> task[d].batch, key |-> task[d].key]}
    /\ Step(d, "show")
    /\ UNCHANGED <<password, vault, sessions, local, shown, made, drops, unseen, raced>>

Show(d) ==
    /\ At(d, "show")
    /\ shown' = shown \cup {task[d].batch} /\ Go(d, Idle)
    /\ UNCHANGED <<stored, local, made, drops, unseen, raced>>

-----------------------------------------------------------------------------
(* The password *)

\* mutant: the wrapped key is left for a request of its own
Rewrapped_Later(d) == vault
\* the key under the new password, in the transaction that stores the password
Rewrapped(d) == [key |-> task[d].key, with |-> NewPassword]

\* change_password: the current password is verified before the transaction
Verify(d) ==
    /\ At(d, "idle") /\ d \in sessions /\ local[d] # NoKey
    /\ Go(d, [Idle EXCEPT !.step = "change", !.with = password, !.key = local[d]])
    /\ UNCHANGED <<stored, local, shown, made, drops, unseen, raced>>

\* AND password_hash = ?4
Current(d) == task[d].with = password

ChangePassword(d) ==
    /\ At(d, "change") /\ Current(d) /\ made.password < MaxPasswords
    /\ password' = NewPassword /\ Make("password")
    /\ vault' = Rewrapped(d)
    /\ sessions' = sessions \cap {d}
    /\ Go(d, Idle)
    /\ UNCHANGED <<batches, local, shown, drops, unseen, raced>>

\* prepare_password_recovery: a code without a key cannot recover an account that has one
Usable(b) == b.key = NoKey => vault.key = NoKey

\* the client prepares with a code of a batch that was shown, picks the key and saves it
Prepare(d, b) ==
    /\ At(d, "idle") /\ b.id \in shown
    /\ Usable(b)
    /\ LET key == IF b.key # NoKey THEN b.key ELSE IF local[d] # NoKey THEN local[d] ELSE NewKey
       IN  /\ IF key = NewKey THEN MakeKey ELSE UNCHANGED <<made, raced>>
           /\ Save(d, key)
           /\ Go(d, [step |-> "recover", key |-> key, with |-> 0, batch |-> b.id])
    /\ UNCHANGED <<stored, shown, drops, unseen>>

\* recover_password_provisioned: every code and session is replaced
Recover(d) ==
    /\ At(d, "recover") /\ made.password < MaxPasswords /\ made.batch < MaxBatches
    /\ \E b \in batches : b.id = task[d].batch /\ Usable(b)
    /\ password' = NewPassword
    /\ vault' = Rewrapped(d)
    /\ batches' = {[id |-> NewBatch, key |-> task[d].key]}
    /\ sessions' = {d}
    /\ made' = [made EXCEPT !.password = NewPassword, !.batch = NewBatch]
    /\ Go(d, [Idle EXCEPT !.step = "show", !.batch = NewBatch])
    /\ UNCHANGED <<local, shown, drops, unseen, raced>>

-----------------------------------------------------------------------------
\* the server refuses: the session, the password or the codes are not those any more
Refuse(d) ==
    /\ \/ task[d].step \in {"fetch", "ready"} /\ d \notin sessions
       \/ task[d].step \in {"ready", "set", "upload"} /\ ~Granted(d)
       \/ At(d, "upload") /\ \A b \in batches : b.id # task[d].batch
       \/ At(d, "change") /\ ~Current(d)
       \/ At(d, "recover") /\ \A b \in batches : b.id = task[d].batch => ~Usable(b)
    /\ Go(d, Idle)
    /\ UNCHANGED <<stored, local, shown, made, drops, unseen, raced>>

\* a reply is lost, or the process ends
Drop(d) ==
    /\ ~At(d, "idle") /\ drops < MaxDrops /\ drops' = drops + 1
    /\ unseen' = (unseen \/ At(d, "show"))
    /\ Go(d, Idle)
    /\ UNCHANGED <<stored, local, shown, made, raced>>

\* the installation and its credential vault are gone
Reinstall(d) ==
    /\ At(d, "idle") /\ drops < MaxDrops /\ drops' = drops + 1
    /\ Save(d, NoKey)
    /\ UNCHANGED <<stored, task, shown, made, unseen, raced>>

Next ==
    \E d \in Devices :
        \/ Login(d) \/ Establish(d) \/ SetVault(d) \/ SaveKey(d)
        \/ Ready(d) \/ Regenerate(d) \/ Upload(d) \/ Show(d)
        \/ Verify(d) \/ ChangePassword(d) \/ Recover(d)
        \/ \E b \in batches : Prepare(d, b)
        \/ Refuse(d) \/ Drop(d) \/ Reinstall(d)

Spec == Init /\ [][Next]_kvars

-----------------------------------------------------------------------------
\* the wrapped key always opens with the current password, whatever changes come
\* together: "Password changes rewrap the same history key and commit the password hash
\* and replacement wrapper in one database transaction" (docs/end-to-end-encryption.md)
PasswordOpens == vault.key # NoKey => vault.with = password

\* password, recovery codes and installations hold the same key, so that "a password
\* sign-in or recovery code can restore archived DM content", unless two installations
\* made keys for an account that had none (establish_account_history_key)
KeysAgree ==
    vault.key # NoKey /\ ~raced =>
        /\ \A b \in batches : b.key \in {NoKey, vault.key}
        /\ \A d \in Devices : local[d] \in {NoKey, vault.key}

\* the user always holds codes the server accepts: "the older codes are not removed until
\* that completes" (docs/end-to-end-encryption.md), unless the last reply was lost
CodesAtHand ==
    unseen \/ \E b \in batches :
        b.id \in shown \/ \E d \in Devices : At(d, "show") /\ task[d].batch = b.id

=============================================================================
