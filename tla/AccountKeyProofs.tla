-------------------------- MODULE AccountKeyProofs --------------------------
(***************************************************************************)
(* The history key of an account survives any number of installations,     *)
(* passwords and recovery codes.                                           *)
(*                                                                         *)
(* The keys agree because a second key is only ever made while the vault   *)
(* is empty: every key there is was made, and unless two were made for an  *)
(* empty vault, one was (KeysAreMade).  The wrapped key opens because      *)
(* every request that stores it comes with the password that is current.   *)
(***************************************************************************)
EXTENDS AccountKey, TLAPS

TaskRec == [step : Steps, key : Nat, with : Nat, batch : Nat]
BatchRec == [id : Nat, key : Nat]

Shapes ==
    /\ password \in Nat
    /\ vault \in [key : Nat, with : Nat]
    /\ batches \subseteq BatchRec
    /\ local \in [Devices -> Nat]
    /\ task \in [Devices -> TaskRec]
    /\ made \in [key : Nat, password : Nat, batch : Nat]
    /\ raced \in BOOLEAN

\* every key is one that was made, and one was made, or two for an empty vault
KeysAreMade ==
    /\ vault.key <= made.key
    /\ \A b \in batches : b.key <= made.key
    /\ \A d \in Devices : local[d] <= made.key /\ task[d].key <= made.key
    /\ ~raced => made.key <= 1

Inv == Shapes /\ KeysAreMade /\ PasswordOpens /\ CodesAtHand

-----------------------------------------------------------------------------

\* one installation goes on with t and holds k; the rest is as the action says
LEMMA Goes ==
    ASSUME Inv, NEW d \in Devices, NEW t \in TaskRec, NEW k \in Nat,
           task' = [task EXCEPT ![d] = t], local' = [local EXCEPT ![d] = k],
           password' \in Nat, vault' \in [key : Nat, with : Nat], batches' \subseteq BatchRec,
           made' \in [key : Nat, password : Nat, batch : Nat], raced' \in BOOLEAN,
           made.key <= made'.key, t.key <= made'.key, k <= made'.key,
           vault'.key <= made'.key, \A b \in batches' : b.key <= made'.key,
           ~raced' => made'.key <= 1,
           PasswordOpens', CodesAtHand'
    PROVE  Inv'
<1>1. task' \in [Devices -> TaskRec] /\ local' \in [Devices -> Nat]
  BY DEF Inv, Shapes
<1>2. Shapes'
  BY <1>1 DEF Shapes
<1>3. \A e \in Devices : local'[e] <= made'.key /\ task'[e].key <= made'.key
  <2> SUFFICES ASSUME NEW e \in Devices PROVE local'[e] <= made'.key /\ task'[e].key <= made'.key
    OBVIOUS
  <2>1. CASE e = d
    BY <2>1 DEF Inv, Shapes
  <2>2. CASE e # d
    <3>1. local'[e] = local[e] /\ task'[e] = task[e]
      BY <2>2 DEF Inv, Shapes
    <3>2. local[e] \in Nat /\ task[e].key \in Nat /\ made.key \in Nat /\ made'.key \in Nat
      BY DEF Inv, Shapes, TaskRec
    <3>3. local[e] <= made.key /\ task[e].key <= made.key
      BY DEF Inv, KeysAreMade
    <3> QED
      BY <3>1, <3>2, <3>3
  <2> QED
    BY <2>1, <2>2
<1> QED
  BY <1>2, <1>3 DEF Inv, KeysAreMade

\* only the task changes, and it is not about codes that are to be shown
LEMMA OnlyTask ==
    ASSUME Inv, NEW d \in Devices, NEW t \in TaskRec, task' = [task EXCEPT ![d] = t],
           t.key <= made.key, task[d].step # "show",
           UNCHANGED <<stored, local, shown, made, unseen, raced>>
    PROVE  Inv'
<1>1. local' = [local EXCEPT ![d] = local[d]] /\ local[d] \in Nat /\ local[d] <= made.key
  BY DEF Inv, Shapes, KeysAreMade
<1>2. \A e \in Devices : e # d => task'[e] = task[e]
  BY DEF Inv, Shapes
<1>3. CodesAtHand'
  BY <1>2 DEF Inv, CodesAtHand, At, stored
<1> QED
  BY <1>1, <1>3, Goes DEF Inv, Shapes, KeysAreMade, PasswordOpens, stored

LEMMA IdleIs == Idle \in TaskRec /\ Idle.key = 0
BY DEF Idle, TaskRec, Steps, NoKey

\* the installation gives up, or is done
LEMMA GoIdle ==
    ASSUME Inv, NEW d \in Devices, Go(d, Idle), task[d].step # "show",
           UNCHANGED <<stored, local, shown, made, unseen, raced>>
    PROVE  Inv'
<1>1. Idle \in TaskRec /\ Idle.key <= made.key
  BY IdleIs DEF Inv, Shapes
<1>2. task' = [task EXCEPT ![d] = Idle]
  BY DEF Go
<1> QED
  BY <1>1, <1>2, OnlyTask

LEMMA LoginKeeps == ASSUME Inv, NEW d \in Devices, Login(d) PROVE Inv'
<1> DEFINE t == [Idle EXCEPT !.step = "fetch", !.with = password]
<1>1. /\ task' = [task EXCEPT ![d] = t] /\ task[d].step = "idle"
      /\ UNCHANGED <<password, vault, batches, local, shown, made, unseen, raced>>
  BY DEF Login, Go, At
<1>2. t \in TaskRec /\ t.key = 0
  BY IdleIs DEF TaskRec, Steps, Inv, Shapes
<1> HIDE DEF t
<1>3. local' = [local EXCEPT ![d] = local[d]] /\ local[d] \in Nat /\ local[d] <= made.key
  BY <1>1 DEF Inv, Shapes, KeysAreMade
<1>4. \A e \in Devices : e # d => task'[e] = task[e]
  BY <1>1 DEF Inv, Shapes
<1>5. CodesAtHand'
  BY <1>1, <1>4 DEF Inv, CodesAtHand, At
<1>6. t.key <= made.key
  BY <1>2 DEF Inv, Shapes
<1> QED
  BY <1>1, <1>2, <1>3, <1>5, <1>6, Goes DEF Inv, Shapes, KeysAreMade, PasswordOpens

\* a key is only made for an empty vault, and the second one is a race
LEMMA MakeKeyIs ==
    ASSUME Inv, MakeKey, vault.key = NoKey
    PROVE  /\ made' \in [key : Nat, password : Nat, batch : Nat] /\ made'.key = NewKey
           /\ NewKey \in Nat /\ made.key <= made'.key
           /\ raced' \in BOOLEAN /\ (~raced' => ~raced /\ made'.key <= 1)
<1>1. made' = [made EXCEPT !["key"] = @ + 1]
  BY DEF MakeKey, Make
<1>2. made \in [key : Nat, password : Nat, batch : Nat] /\ made.key \in Nat
  BY DEF Inv, Shapes
<1>3. made' \in [key : Nat, password : Nat, batch : Nat] /\ made'.key = made.key + 1
  BY <1>1, <1>2
<1>4. raced \in BOOLEAN
  BY DEF Inv, Shapes
<1>5. raced' = (raced \/ made.key > 0)
  BY DEF MakeKey
<1>6. raced' \in BOOLEAN /\ (~raced' => ~raced /\ ~(made.key > 0))
  BY <1>4, <1>5
<1> QED
  BY <1>2, <1>3, <1>6 DEF NewKey

LEMMA EstablishKeeps == ASSUME Inv, NEW d \in Devices, Establish(d) PROVE Inv'
<1>1. /\ UNCHANGED <<stored, shown, unseen>> /\ task[d].step = "fetch"
  BY DEF Establish, At
<1>2. /\ task[d] \in TaskRec /\ local[d] \in Nat /\ vault.key \in Nat /\ made.key \in Nat
      /\ local[d] <= made.key /\ vault.key <= made.key
  BY DEF Inv, Shapes, KeysAreMade
<1>3. ASSUME NEW t \in TaskRec, task' = [task EXCEPT ![d] = t] PROVE CodesAtHand'
  <2>1. \A e \in Devices : e # d => task'[e] = task[e]
    BY <1>3 DEF Inv, Shapes
  <2> QED
    BY <1>1, <2>1 DEF Inv, CodesAtHand, At, stored
<1>4. CASE Missing(d) /\ Go(d, [task[d] EXCEPT !.step = "set", !.key = NewKey]) /\ MakeKey
           /\ UNCHANGED local
  <2> DEFINE t == [task[d] EXCEPT !.step = "set", !.key = NewKey]
  <2>1. vault.key = NoKey
    BY <1>4 DEF Missing
  <2>2. t \in TaskRec /\ t.key = NewKey /\ task' = [task EXCEPT ![d] = t]
    BY <1>2, <1>4, <2>1, MakeKeyIs DEF TaskRec, Steps, Go
  <2> HIDE DEF t
  <2>3. local' = [local EXCEPT ![d] = local[d]]
    BY <1>4 DEF Inv, Shapes
  <2>4. local[d] <= made'.key /\ vault.key <= made'.key /\ \A b \in batches : b.key <= made'.key
    BY <1>2, <1>4, <2>1, MakeKeyIs DEF Inv, Shapes, KeysAreMade, BatchRec, NewKey
  <2>5. t.key <= made'.key
    BY <1>4, <2>1, <2>2, MakeKeyIs
  <2> QED
    BY <1>1, <1>2, <1>3, <1>4, <2>1, <2>2, <2>3, <2>4, <2>5, MakeKeyIs, Goes
       DEF Inv, Shapes, PasswordOpens, stored
<1>5. CASE Save(d, vault.key) /\ UNCHANGED <<made, raced>>
           /\ Go(d, [task[d] EXCEPT !.step = "ready", !.key = vault.key])
  <2> DEFINE t == [task[d] EXCEPT !.step = "ready", !.key = vault.key]
  <2>1. t \in TaskRec /\ t.key = vault.key /\ task' = [task EXCEPT ![d] = t]
    BY <1>2, <1>5 DEF TaskRec, Steps, Go
  <2> HIDE DEF t
  <2> QED
    BY <1>1, <1>2, <1>3, <1>5, <2>1, Goes DEF Save, Inv, Shapes, KeysAreMade, PasswordOpens, stored
<1>6. CASE Go(d, [task[d] EXCEPT !.step = "set", !.key = local[d]]) /\ UNCHANGED <<local, made, raced>>
  <2> DEFINE t == [task[d] EXCEPT !.step = "set", !.key = local[d]]
  <2>1. t \in TaskRec /\ t.key = local[d] /\ task' = [task EXCEPT ![d] = t]
    BY <1>2, <1>6 DEF TaskRec, Steps, Go
  <2> HIDE DEF t
  <2> QED
    BY <1>1, <1>2, <1>6, <2>1, OnlyTask
<1>7. CASE Go(d, Idle) /\ UNCHANGED <<local, made, raced>>
  BY <1>1, <1>7, GoIdle
<1> QED
  BY <1>4, <1>5, <1>6, <1>7 DEF Establish

\* a task that only takes its next step
LEMMA Stepped ==
    ASSUME Inv, NEW d \in Devices, NEW step \in Steps, Step(d, step)
    PROVE  \E t \in TaskRec : /\ task' = [task EXCEPT ![d] = t] /\ t.step = step
                              /\ t.key = task[d].key /\ t.batch = task[d].batch
                              /\ t.key <= made.key
<1> DEFINE t == [task[d] EXCEPT !.step = step]
<1>1. task[d] \in TaskRec /\ task[d].key <= made.key
  BY DEF Inv, Shapes, KeysAreMade
<1>2. t \in TaskRec /\ t.step = step /\ t.key = task[d].key /\ t.batch = task[d].batch
  BY <1>1 DEF TaskRec, Steps
<1>3. task' = [task EXCEPT ![d] = t]
  BY DEF Step, Go
<1> QED
  BY <1>1, <1>2, <1>3

LEMMA SetVaultKeeps == ASSUME Inv, NEW d \in Devices, SetVault(d) PROVE Inv'
<1>1. /\ task[d].step = "set" /\ task[d].with = password
      /\ vault' = [key |-> task[d].key, with |-> task[d].with] /\ Step(d, "save")
      /\ UNCHANGED <<password, batches, local, shown, made, unseen, raced>>
  BY DEF SetVault, At, Granted
<1>2. PICK t \in TaskRec : task' = [task EXCEPT ![d] = t] /\ t.key <= made.key
  BY <1>1, Stepped DEF Steps
<1>3. task[d] \in TaskRec /\ task[d].key <= made.key
  BY DEF Inv, Shapes, KeysAreMade
<1>4. /\ vault' \in [key : Nat, with : Nat] /\ vault'.key = task[d].key /\ vault'.with = password
  BY <1>1, <1>3 DEF TaskRec
<1>5. \A e \in Devices : e # d => task'[e] = task[e]
  BY <1>2 DEF Inv, Shapes
<1>6. CodesAtHand'
  BY <1>1, <1>5 DEF Inv, CodesAtHand, At
<1>7. PasswordOpens'
  BY <1>1, <1>4 DEF PasswordOpens
<1>8. local' = [local EXCEPT ![d] = local[d]] /\ local[d] \in Nat /\ local[d] <= made.key
  BY <1>1 DEF Inv, Shapes, KeysAreMade
<1> QED
  BY <1>1, <1>2, <1>3, <1>4, <1>6, <1>7, <1>8, Goes DEF Inv, Shapes, KeysAreMade

LEMMA SaveKeyKeeps == ASSUME Inv, NEW d \in Devices, SaveKey(d) PROVE Inv'
<1>1. /\ task[d].step = "save" /\ local' = [local EXCEPT ![d] = task[d].key] /\ Step(d, "ready")
      /\ UNCHANGED <<stored, shown, made, unseen, raced>>
  BY DEF SaveKey, At, Save
<1>2. PICK t \in TaskRec : task' = [task EXCEPT ![d] = t] /\ t.key <= made.key
  BY <1>1, Stepped DEF Steps
<1>3. task[d].key \in Nat /\ task[d].key <= made.key
  BY DEF Inv, Shapes, KeysAreMade, TaskRec
<1>4. \A e \in Devices : e # d => task'[e] = task[e]
  BY <1>2 DEF Inv, Shapes
<1>5. CodesAtHand'
  BY <1>1, <1>4 DEF Inv, CodesAtHand, At, stored
<1> QED
  BY <1>1, <1>2, <1>3, <1>5, Goes DEF Inv, Shapes, KeysAreMade, PasswordOpens, stored

LEMMA StageKeeps ==
    ASSUME Inv, NEW d \in Devices, NEW with \in Nat, NEW key \in Nat, Stage(d, with, key),
           key <= made.key, task[d].step # "show"
    PROVE  Inv'
<1> DEFINE fresh == [id |-> NewBatch, key |-> NoKey]
           upload == [step |-> "upload", key |-> key, with |-> with, batch |-> NewBatch]
           t == IF key = NoKey THEN Idle ELSE upload
<1>1. /\ batches' = batches \cup {fresh} /\ made' = [made EXCEPT !["batch"] = @ + 1]
      /\ task' = [task EXCEPT ![d] = t]
      /\ UNCHANGED <<password, vault, local, shown, unseen, raced>>
  BY DEF Stage, Staged, Make, Go
<1>2. made.key \in Nat /\ made.batch \in Nat /\ NewBatch \in Nat
  BY DEF Inv, Shapes, NewBatch
<1>3. made' \in [key : Nat, password : Nat, batch : Nat] /\ made'.key = made.key
  BY <1>1, <1>2 DEF Inv, Shapes
<1>4. fresh \in BatchRec /\ fresh.key = 0
  BY <1>2 DEF BatchRec, NoKey
<1>5. upload \in TaskRec /\ upload.key = key
  BY <1>2 DEF TaskRec, Steps
<1> HIDE DEF upload, fresh
<1>6. t \in TaskRec /\ t.key <= made.key
  BY <1>2, <1>5, IdleIs
<1> HIDE DEF t
<1>7. \A e \in Devices : e # d => task'[e] = task[e]
  BY <1>1 DEF Inv, Shapes
<1>8. CodesAtHand'
  BY <1>1, <1>7 DEF Inv, CodesAtHand, At
<1>9. local' = [local EXCEPT ![d] = local[d]] /\ local[d] \in Nat /\ local[d] <= made.key
  BY <1>1 DEF Inv, Shapes, KeysAreMade
<1>10. batches' \subseteq BatchRec /\ \A b \in batches' : b.key <= made.key
  BY <1>1, <1>2, <1>4 DEF Inv, Shapes, KeysAreMade
<1> QED
  BY <1>1, <1>3, <1>6, <1>8, <1>9, <1>10, Goes DEF Inv, Shapes, KeysAreMade, PasswordOpens

LEMMA RegenerateKeeps == ASSUME Inv, NEW d \in Devices, Regenerate(d) PROVE Inv'
<1>1. /\ task[d].key \in Nat /\ task[d].key <= made.key /\ password \in Nat
      /\ local[d] \in Nat /\ local[d] <= made.key
  BY DEF Inv, Shapes, KeysAreMade, TaskRec
<1> QED
  BY <1>1, StageKeeps DEF Regenerate, At

LEMMA UploadKeeps == ASSUME Inv, NEW d \in Devices, Upload(d) PROVE Inv'
<1> DEFINE wrapped == [id |-> task[d].batch, key |-> task[d].key]
<1>1. /\ task[d].step = "upload" /\ batches' = {wrapped} /\ Step(d, "show")
      /\ UNCHANGED <<password, vault, local, shown, made, unseen, raced>>
  BY DEF Upload, At
<1>2. task[d] \in TaskRec /\ task[d].key <= made.key
  BY DEF Inv, Shapes, KeysAreMade
<1>3. wrapped \in BatchRec /\ wrapped.key = task[d].key /\ wrapped.id = task[d].batch
  BY <1>2 DEF BatchRec, TaskRec
<1> HIDE DEF wrapped
<1>4. PICK t \in TaskRec : /\ task' = [task EXCEPT ![d] = t] /\ t.step = "show"
                           /\ t.key = task[d].key /\ t.batch = task[d].batch /\ t.key <= made.key
  BY <1>1, Stepped DEF Steps
<1>5. task'[d] = t
  BY <1>4 DEF Inv, Shapes
<1>6. CodesAtHand'
  BY <1>1, <1>3, <1>4, <1>5 DEF CodesAtHand, At
<1>7. local' = [local EXCEPT ![d] = local[d]] /\ local[d] \in Nat /\ local[d] <= made.key
  BY <1>1 DEF Inv, Shapes, KeysAreMade
<1>8. batches' \subseteq BatchRec /\ \A b \in batches' : b.key <= made.key
  BY <1>1, <1>2, <1>3
<1> QED
  BY <1>1, <1>4, <1>6, <1>7, <1>8, Goes DEF Inv, Shapes, KeysAreMade, PasswordOpens

LEMMA ShowKeeps == ASSUME Inv, NEW d \in Devices, Show(d) PROVE Inv'
<1>1. /\ task' = [task EXCEPT ![d] = Idle] /\ shown' = shown \cup {task[d].batch}
      /\ UNCHANGED <<password, vault, batches, local, made, unseen, raced>>
  BY DEF Show, Go, stored
<1>2. Idle \in TaskRec /\ Idle.key <= made.key
  BY IdleIs DEF Inv, Shapes
<1>3. \A e \in Devices : e # d => task'[e] = task[e]
  BY <1>1 DEF Inv, Shapes
<1>4. CodesAtHand'
  BY <1>1, <1>3 DEF Inv, CodesAtHand, At
<1>5. local' = [local EXCEPT ![d] = local[d]] /\ local[d] \in Nat /\ local[d] <= made.key
  BY <1>1 DEF Inv, Shapes, KeysAreMade
<1> QED
  BY <1>1, <1>2, <1>4, <1>5, Goes DEF Inv, Shapes, KeysAreMade, PasswordOpens

LEMMA VerifyKeeps == ASSUME Inv, NEW d \in Devices, Verify(d) PROVE Inv'
<1> DEFINE t == [Idle EXCEPT !.step = "change", !.with = password, !.key = local[d]]
<1>1. /\ task' = [task EXCEPT ![d] = t] /\ task[d].step = "idle"
      /\ UNCHANGED <<stored, local, shown, made, unseen, raced>>
  BY DEF Verify, Go, At
<1>2. local[d] \in Nat /\ local[d] <= made.key /\ password \in Nat
  BY DEF Inv, Shapes, KeysAreMade
<1>3. t \in TaskRec /\ t.key = local[d]
  BY <1>2, IdleIs DEF TaskRec, Steps
<1> HIDE DEF t
<1> QED
  BY <1>1, <1>2, <1>3, OnlyTask

LEMMA ChangePasswordKeeps == ASSUME Inv, NEW d \in Devices, ChangePassword(d) PROVE Inv'
<1>1. /\ task[d].step = "change" /\ password' = NewPassword
      /\ made' = [made EXCEPT !["password"] = @ + 1]
      /\ vault' = [key |-> task[d].key, with |-> NewPassword]
      /\ task' = [task EXCEPT ![d] = Idle]
      /\ UNCHANGED <<batches, local, shown, unseen, raced>>
  BY DEF ChangePassword, At, Go, Make, Rewrapped
<1>2. /\ task[d].key \in Nat /\ task[d].key <= made.key /\ NewPassword \in Nat /\ made.key \in Nat
  BY DEF Inv, Shapes, KeysAreMade, TaskRec, NewPassword
<1>3. made' \in [key : Nat, password : Nat, batch : Nat] /\ made'.key = made.key
  BY <1>1, <1>2 DEF Inv, Shapes
<1>4. /\ vault' \in [key : Nat, with : Nat] /\ vault'.key = task[d].key /\ vault'.with = NewPassword
  BY <1>1, <1>2
<1>5. Idle \in TaskRec /\ Idle.key <= made.key
  BY <1>2, IdleIs
<1>6. \A e \in Devices : e # d => task'[e] = task[e]
  BY <1>1 DEF Inv, Shapes
<1>7. CodesAtHand'
  BY <1>1, <1>6 DEF Inv, CodesAtHand, At
<1>8. local' = [local EXCEPT ![d] = local[d]] /\ local[d] \in Nat /\ local[d] <= made.key
  BY <1>1 DEF Inv, Shapes, KeysAreMade
<1>9. PasswordOpens'
  BY <1>1, <1>4 DEF PasswordOpens
<1> QED
  BY <1>1, <1>2, <1>3, <1>4, <1>5, <1>7, <1>8, <1>9, Goes DEF Inv, Shapes, KeysAreMade

LEMMA PrepareKeeps == ASSUME Inv, NEW d \in Devices, NEW b \in batches, Prepare(d, b) PROVE Inv'
<1> DEFINE key == IF b.key # NoKey THEN b.key ELSE IF local[d] # NoKey THEN local[d] ELSE NewKey
           t == [step |-> "recover", key |-> key, with |-> 0, batch |-> b.id]
<1>1. /\ task[d].step = "idle" /\ (b.key = NoKey => vault.key = NoKey)
      /\ IF key = NewKey THEN MakeKey ELSE UNCHANGED <<made, raced>>
      /\ local' = [local EXCEPT ![d] = key] /\ task' = [task EXCEPT ![d] = t]
      /\ UNCHANGED <<stored, shown, unseen>>
  BY DEF Prepare, Usable, At, Save, Go
<1>2. /\ made.key \in Nat /\ local[d] \in Nat /\ local[d] <= made.key
      /\ b.key \in Nat /\ b.id \in Nat /\ b.key <= made.key /\ NewKey = made.key + 1
  BY DEF Inv, Shapes, KeysAreMade, BatchRec, NewKey
<1>3. key \in Nat /\ key <= NewKey /\ (key = NewKey => b.key = NoKey)
  BY <1>2
<1>4. key # NewKey => key <= made.key
  BY <1>2
<1> HIDE DEF key
<1>5. t \in TaskRec /\ t.key = key
  BY <1>2, <1>3 DEF TaskRec, Steps
<1> HIDE DEF t
<1>6. /\ made' \in [key : Nat, password : Nat, batch : Nat] /\ made.key <= made'.key
      /\ key <= made'.key /\ raced' \in BOOLEAN /\ (~raced' => made'.key <= 1)
  <2>1. CASE key = NewKey
    BY <1>1, <1>3, <2>1, MakeKeyIs
  <2>2. CASE key # NewKey
    BY <1>1, <1>2, <1>4, <2>2 DEF Inv, Shapes, KeysAreMade
  <2> QED
    BY <2>1, <2>2
<1>7. \A e \in Devices : e # d => task'[e] = task[e]
  BY <1>1 DEF Inv, Shapes
<1>8. CodesAtHand'
  BY <1>1, <1>7 DEF Inv, CodesAtHand, At, stored
<1>9. /\ vault.key <= made'.key /\ \A c \in batches : c.key <= made'.key
  <2>1. /\ vault.key \in Nat /\ vault.key <= made.key /\ made'.key \in Nat
        /\ \A c \in batches : c.key \in Nat /\ c.key <= made.key
    BY <1>6 DEF Inv, Shapes, KeysAreMade, BatchRec
  <2> QED
    BY <1>2, <1>6, <2>1
<1> QED
  BY <1>1, <1>3, <1>5, <1>6, <1>8, <1>9, Goes DEF Inv, Shapes, PasswordOpens, stored

LEMMA RecoverKeeps == ASSUME Inv, NEW d \in Devices, Recover(d) PROVE Inv'
<1> DEFINE new == [id |-> NewBatch, key |-> task[d].key]
           t == [Idle EXCEPT !.step = "show", !.batch = NewBatch]
<1>1. /\ password' = NewPassword /\ batches' = {new}
      /\ vault' = [key |-> task[d].key, with |-> NewPassword]
      /\ made' = [made EXCEPT !.password = NewPassword, !.batch = NewBatch]
      /\ task' = [task EXCEPT ![d] = t]
      /\ UNCHANGED <<local, shown, unseen, raced>>
  BY DEF Recover, Usable, Go, Rewrapped
<1>2. /\ task[d].key \in Nat /\ task[d].key <= made.key /\ NewPassword \in Nat /\ NewBatch \in Nat
      /\ made.key \in Nat
  BY DEF Inv, Shapes, KeysAreMade, TaskRec, NewPassword, NewBatch
<1>3. made' \in [key : Nat, password : Nat, batch : Nat] /\ made'.key = made.key
  BY <1>1, <1>2 DEF Inv, Shapes
<1>4. /\ vault' \in [key : Nat, with : Nat] /\ vault'.key = task[d].key /\ vault'.with = NewPassword
  BY <1>1, <1>2
<1>5. /\ new \in BatchRec /\ new.key = task[d].key /\ new.id = NewBatch
  BY <1>2 DEF BatchRec
<1>6. t \in TaskRec /\ t.key = 0 /\ t.step = "show" /\ t.batch = NewBatch
  BY <1>2, IdleIs DEF TaskRec, Steps
<1> HIDE DEF new, t
<1>7. task'[d] = t
  BY <1>1 DEF Inv, Shapes
<1>8. CodesAtHand'
  BY <1>1, <1>5, <1>6, <1>7 DEF CodesAtHand, At
<1>9. local' = [local EXCEPT ![d] = local[d]] /\ local[d] \in Nat /\ local[d] <= made.key
  BY <1>1 DEF Inv, Shapes, KeysAreMade
<1>10. PasswordOpens'
  BY <1>1, <1>4 DEF PasswordOpens
<1>11. batches' \subseteq BatchRec /\ \A b \in batches' : b.key <= made.key
  BY <1>1, <1>2, <1>5
<1>12. t.key <= made.key
  BY <1>2, <1>6
<1> QED
  BY <1>1, <1>2, <1>3, <1>4, <1>6, <1>8, <1>9, <1>10, <1>11, <1>12, Goes
     DEF Inv, Shapes, KeysAreMade

LEMMA DropKeeps == ASSUME Inv, NEW d \in Devices, Drop(d) PROVE Inv'
<1>1. /\ task' = [task EXCEPT ![d] = Idle] /\ UNCHANGED <<stored, local, shown, made, raced>>
      /\ unseen' = (unseen \/ task[d].step = "show")
  BY DEF Drop, Go, At
<1>2. Idle \in TaskRec /\ Idle.key <= made.key
  BY IdleIs DEF Inv, Shapes
<1>3. \A e \in Devices : e # d => task'[e] = task[e]
  BY <1>1 DEF Inv, Shapes
<1>4. CodesAtHand'
  BY <1>1, <1>3 DEF Inv, CodesAtHand, At, stored
<1>5. local' = [local EXCEPT ![d] = local[d]] /\ local[d] \in Nat /\ local[d] <= made.key
  BY <1>1 DEF Inv, Shapes, KeysAreMade
<1> QED
  BY <1>1, <1>2, <1>4, <1>5, Goes DEF Inv, Shapes, KeysAreMade, PasswordOpens, stored

LEMMA ReinstallKeeps == ASSUME Inv, NEW d \in Devices, Reinstall(d) PROVE Inv'
<1>1. /\ local' = [local EXCEPT ![d] = 0] /\ UNCHANGED <<stored, task, shown, made, unseen, raced>>
  BY DEF Reinstall, Save, NoKey
<1>2. task' = [task EXCEPT ![d] = task[d]] /\ task[d] \in TaskRec /\ task[d].key <= made.key
  BY <1>1 DEF Inv, Shapes, KeysAreMade
<1>3. CodesAtHand'
  BY <1>1 DEF Inv, CodesAtHand, At, stored
<1>4. 0 <= made.key
  BY DEF Inv, Shapes
<1> QED
  BY <1>1, <1>2, <1>3, <1>4, Goes DEF Inv, Shapes, KeysAreMade, PasswordOpens, stored

-----------------------------------------------------------------------------

LEMMA StartKeys == Init => Inv
<1> SUFFICES ASSUME Init PROVE Inv
  OBVIOUS
<1>1. PICK first \in Devices, key \in {0, 1} :
         /\ local = [d \in Devices |-> IF d = first THEN key ELSE 0]
         /\ batches = {[id |-> 1, key |-> key]}
         /\ vault = [key |-> key, with |-> key]
         /\ made = [key |-> key, password |-> 1, batch |-> 1]
  BY DEF Init, NoKey
<1>2. /\ vault \in [key : Nat, with : Nat] /\ vault.key = key /\ vault.with = key
      /\ made \in [key : Nat, password : Nat, batch : Nat] /\ made.key = key
      /\ batches \subseteq BatchRec /\ \A b \in batches : b.key = key
      /\ \E b \in batches : b.id = 1
  BY <1>1 DEF BatchRec
<1>3. password = 1 /\ task = [d \in Devices |-> Idle] /\ shown = {1} /\ raced = FALSE
  BY DEF Init
<1>4. local \in [Devices -> Nat] /\ \A d \in Devices : local[d] \in {0, key}
  BY <1>1
<1>5. task \in [Devices -> TaskRec] /\ \A d \in Devices : task[d].key = 0
  BY <1>3, IdleIs
<1>6. Shapes
  BY <1>2, <1>3, <1>4, <1>5 DEF Shapes
<1>7. KeysAreMade
  BY <1>1, <1>2, <1>4, <1>5 DEF KeysAreMade
<1>8. PasswordOpens /\ CodesAtHand
  BY <1>1, <1>2, <1>3 DEF PasswordOpens, CodesAtHand, NoKey
<1> QED
  BY <1>6, <1>7, <1>8 DEF Inv

LEMMA NextKeys == Inv /\ [Next]_kvars => Inv'
<1> SUFFICES ASSUME Inv, [Next]_kvars PROVE Inv'
  OBVIOUS
<1>1. CASE UNCHANGED kvars
  BY <1>1 DEF kvars, stored, Inv, Shapes, KeysAreMade, PasswordOpens, CodesAtHand, At
<1>2. ASSUME NEW d \in Devices, Ready(d) \/ Refuse(d) PROVE Inv'
  <2>1. /\ Go(d, Idle) /\ task[d].step # "show"
        /\ UNCHANGED <<stored, local, shown, made, unseen, raced>>
    BY <1>2 DEF Ready, Refuse, At
  <2> QED
    BY <2>1, GoIdle
<1> QED
  BY <1>1, <1>2, LoginKeeps, EstablishKeeps, SetVaultKeeps, SaveKeyKeeps, RegenerateKeeps,
     UploadKeeps, ShowKeeps, VerifyKeeps, ChangePasswordKeeps, PrepareKeeps, RecoverKeeps,
     DropKeeps, ReinstallKeeps DEF Next

LEMMA Invariant == Spec => []Inv
BY StartKeys, NextKeys, PTL DEF Spec

(***************************************************************************)
(* The wrapped key of an account opens with its current password, whatever *)
(* changes of the password, recoveries and sign-ins of other installations *)
(* come together (change_password, set_account_key_vault).                 *)
(***************************************************************************)
THEOREM PasswordOpensThm == Spec => []PasswordOpens
<1>1. Inv => PasswordOpens
  BY DEF Inv
<1> QED
  BY <1>1, Invariant, PTL

(***************************************************************************)
(* Account, recovery codes and installations hold one key, unless two were *)
(* made for an account that had none (establish_account_history_key).      *)
(***************************************************************************)
THEOREM KeysAgreeThm == Spec => []KeysAgree
<1>1. Inv => KeysAgree
  <2> SUFFICES ASSUME Inv, vault.key # 0, ~raced
               PROVE  /\ \A b \in batches : b.key \in {0, vault.key}
                      /\ \A d \in Devices : local[d] \in {0, vault.key}
    BY DEF KeysAgree, NoKey
  <2>1. /\ vault.key \in Nat /\ vault.key <= made.key /\ made.key \in Nat /\ made.key <= 1
    BY DEF Inv, Shapes, KeysAreMade
  <2>2. \A b \in batches : b.key \in Nat /\ b.key <= made.key
    BY DEF Inv, Shapes, KeysAreMade, BatchRec
  <2>3. \A d \in Devices : local[d] \in Nat /\ local[d] <= made.key
    BY DEF Inv, Shapes, KeysAreMade
  <2> QED
    BY <2>1, <2>2, <2>3
<1> QED
  BY <1>1, Invariant, PTL

(***************************************************************************)
(* The user always has codes that the server accepts, or is about to be    *)
(* shown them, unless the reply that activated them was lost               *)
(* (stage_recovery_codes, set_recovery_key_vaults).                        *)
(***************************************************************************)
THEOREM CodesAtHandThm == Spec => []CodesAtHand
<1>1. Inv => CodesAtHand
  BY DEF Inv
<1> QED
  BY <1>1, Invariant, PTL

-----------------------------------------------------------------------------
(***************************************************************************)
(* The types.  Keys, passwords and batches are numbered as they are made,  *)
(* so that every number there is was given out before (Counted), and two   *)
(* batches never have the same one.                                        *)
(***************************************************************************)
Numbers(t) ==
    /\ t.with <= made.password /\ t.batch <= made.batch
    /\ t.step \in {"upload", "show", "recover"} => t.batch # 0

Counted ==
    /\ made.key <= MaxKeys /\ made.password \in 1 .. MaxPasswords
    /\ made.batch \in 1 .. MaxBatches
    /\ password = made.password /\ vault.with <= made.password
    /\ \A b \in batches : b.id # 0 /\ b.id <= made.batch
    /\ \A b, c \in batches : b.id = c.id => b = c
    /\ \A d \in Devices : Numbers(task[d])
    /\ sessions \subseteq Devices /\ shown \subseteq 1 .. made.batch
    /\ drops \in 0 .. MaxDrops /\ unseen \in BOOLEAN

LEMMA IdleNumbers == Idle.with = 0 /\ Idle.batch = 0 /\ Idle.step = "idle" /\ Idle.key = 0
BY DEF Idle, NoKey

\* one installation goes on with t, and no number comes from nowhere
LEMMA CountsOn ==
    ASSUME Parameters, Inv, Counted, NEW d \in Devices, NEW t \in TaskRec,
           task' = [task EXCEPT ![d] = t], t.with <= made'.password, t.batch <= made'.batch,
           t.step \in {"upload", "show", "recover"} => t.batch # 0,
           made' \in [key : Nat, password : Nat, batch : Nat],
           made'.key <= MaxKeys, made.password <= made'.password, made'.password <= MaxPasswords,
           made.batch <= made'.batch, made'.batch <= MaxBatches,
           password' = made'.password, vault' = vault \/ vault'.with <= made'.password,
           \A b \in batches' : b.id \in Nat /\ b.id # 0 /\ b.id <= made'.batch,
           \A b, c \in batches' : b.id = c.id => b = c,
           sessions' \subseteq Devices, shown' \subseteq 1 .. made'.batch,
           drops' \in 0 .. MaxDrops, unseen' \in BOOLEAN
    PROVE  Counted'
<1>1. /\ made.password \in Nat \ {0} /\ made.batch \in Nat \ {0} /\ made'.password \in Nat
      /\ made'.batch \in Nat /\ vault.with \in Nat /\ vault.with <= made.password
  BY DEF Inv, Shapes, Counted, Parameters
<1>2. /\ made'.password \in 1 .. MaxPasswords /\ made'.batch \in 1 .. MaxBatches
      /\ vault'.with <= made'.password
  BY <1>1 DEF Parameters
<1>3. ASSUME NEW e \in Devices PROVE Numbers(task[e])'
  <2>1. CASE e = d
    BY <2>1 DEF Numbers, Inv, Shapes
  <2>2. CASE e # d
    <3>1. task'[e] = task[e] /\ Numbers(task[e]) /\ task[e] \in TaskRec
      BY <2>2 DEF Inv, Shapes, Counted
    <3> QED BY <1>1, <3>1 DEF Numbers, TaskRec
  <2> QED BY <2>1, <2>2
<1> QED BY <1>2, <1>3 DEF Counted

\* ... in a step that makes nothing and stores nothing
LEMMA CountsStill ==
    ASSUME Parameters, Inv, Counted, NEW d \in Devices, NEW t \in TaskRec,
           task' = [task EXCEPT ![d] = t], Numbers(t), UNCHANGED <<stored, shown, made>>,
           drops' \in 0 .. MaxDrops, unseen' \in BOOLEAN
    PROVE  Counted'
<1>1. \A e \in Devices \ {d} : task'[e] = task[e]
  BY DEF Inv, Shapes
<1>2. task'[d] = t
  BY DEF Inv, Shapes
<1>3. \A e \in Devices : Numbers(task[e])'
  <2> TAKE e \in Devices
  <2>1. Numbers(task'[e])
    BY <1>1, <1>2 DEF Counted
  <2> QED BY <2>1 DEF Numbers
<1> QED BY <1>3 DEF Counted, stored

LEMMA IdleCounts ==
    ASSUME Parameters, Inv, Counted, NEW d \in Devices, Go(d, Idle),
           UNCHANGED <<stored, shown, made>>, drops' \in 0 .. MaxDrops, unseen' \in BOOLEAN
    PROVE  Counted'
<1>1. Numbers(Idle)
  BY IdleNumbers DEF Numbers, Counted, Parameters
<1> QED BY <1>1, IdleIs, CountsStill DEF Go

LEMMA SteppedNumbers ==
    ASSUME Parameters, Inv, Counted, NEW d \in Devices, NEW step \in Steps, Step(d, step)
    PROVE  \E t \in TaskRec : /\ task' = [task EXCEPT ![d] = t] /\ t.step = step
                              /\ t.batch = task[d].batch /\ t.with = task[d].with
                              /\ t.with <= made.password /\ t.batch <= made.batch
<1> DEFINE t == [task[d] EXCEPT !.step = step]
<1>1. task[d] \in TaskRec /\ Numbers(task[d])
  BY DEF Inv, Shapes, Counted
<1>2. t \in TaskRec /\ t.step = step /\ t.batch = task[d].batch /\ t.with = task[d].with
  BY <1>1 DEF TaskRec
<1>3. task' = [task EXCEPT ![d] = t]
  BY DEF Step, Go
<1> HIDE DEF t
<1> QED BY <1>1, <1>2, <1>3 DEF Numbers

LEMMA LoginCounts ==
    ASSUME Parameters, Inv, Counted, NEW d \in Devices, Login(d) PROVE Counted'
<1> DEFINE t == [Idle EXCEPT !.step = "fetch", !.with = password]
<1>1. /\ task' = [task EXCEPT ![d] = t] /\ sessions' = sessions \cup {d}
      /\ UNCHANGED <<password, vault, batches, shown, made, drops, unseen>>
  BY DEF Login, Go
<1>2. t \in TaskRec /\ t.with = password /\ t.batch = 0 /\ t.step = "fetch"
  BY IdleIs, IdleNumbers DEF TaskRec, Steps, Inv, Shapes, Idle
<1> HIDE DEF t
<1>3. Counted' <=> (\A e \in Devices : Numbers(task[e])') /\ sessions' \subseteq Devices
  BY <1>1 DEF Counted
<1>4. Numbers(t)
  BY <1>2 DEF Numbers, Counted, Inv, Shapes, Parameters
<1>5. ASSUME NEW e \in Devices PROVE Numbers(task[e])'
  <2>1. task'[e] = t \/ task'[e] = task[e]
    BY <1>1 DEF Inv, Shapes
  <2>2. Numbers(task'[e])
    BY <1>4, <2>1 DEF Counted
  <2> QED BY <1>1, <2>2 DEF Numbers
<1> QED BY <1>1, <1>3, <1>5 DEF Counted

\* making a key
LEMMA KeyCounts ==
    ASSUME Parameters, Inv, Counted, MakeKey
    PROVE  /\ made' \in [key : Nat, password : Nat, batch : Nat] /\ made'.key <= MaxKeys
           /\ made'.password = made.password /\ made'.batch = made.batch
<1>1. made' = [made EXCEPT !["key"] = @ + 1] /\ made.key < MaxKeys
  BY DEF MakeKey, Make
<1>2. made \in [key : Nat, password : Nat, batch : Nat]
  BY DEF Inv, Shapes
<1> QED BY <1>1, <1>2 DEF Parameters

LEMMA EstablishCounts ==
    ASSUME Parameters, Inv, Counted, NEW d \in Devices, Establish(d) PROVE Counted'
<1>1. UNCHANGED <<stored, shown, drops, unseen>>
  BY DEF Establish
<1>2. task[d] \in TaskRec /\ Numbers(task[d]) /\ local[d] \in Nat /\ vault.key \in Nat /\ made.key \in Nat
  BY DEF Inv, Shapes, Counted
<1>3. \/ Go(d, Idle) /\ made' = made
      \/ \E step \in {"set", "ready"}, key \in Nat :
             /\ task' = [task EXCEPT ![d] = [task[d] EXCEPT !.step = step, !.key = key]]
             /\ made' = made \/ MakeKey
  <2>1. NewKey \in Nat
    BY <1>2 DEF NewKey
  <2> QED BY <1>2, <2>1 DEF Establish, Go
<1>4. CASE Go(d, Idle) /\ made' = made
  BY <1>1, <1>4, IdleCounts DEF Counted
<1>5. ASSUME NEW step \in {"set", "ready"}, NEW key \in Nat,
             task' = [task EXCEPT ![d] = [task[d] EXCEPT !.step = step, !.key = key]],
             made' = made \/ MakeKey
      PROVE  Counted'
  <2> DEFINE t == [task[d] EXCEPT !.step = step, !.key = key]
  <2>1. t \in TaskRec /\ t.with = task[d].with /\ t.batch = task[d].batch /\ t.step = step
    BY <1>2 DEF TaskRec, Steps
  <2>2. task' = [task EXCEPT ![d] = t]
    BY <1>5
  <2> HIDE DEF t
  <2>3. /\ made' \in [key : Nat, password : Nat, batch : Nat] /\ made'.key <= MaxKeys
        /\ made'.password = made.password /\ made'.batch = made.batch
    BY <1>5, KeyCounts DEF Inv, Shapes, Counted
  <2>4. ASSUME NEW e \in Devices PROVE Numbers(task[e])'
    <3>1. task'[e] = t \/ task'[e] = task[e]
      BY <2>2 DEF Inv, Shapes
    <3>2. Numbers(t) /\ Numbers(task[e])
      BY <1>2, <2>1 DEF Numbers, Counted
    <3> QED BY <2>3, <3>1, <3>2 DEF Numbers
  <2> QED BY <1>1, <2>3, <2>4 DEF Counted, stored
<1> QED BY <1>3, <1>4, <1>5

LEMMA VaultCounts ==
    ASSUME Parameters, Inv, Counted, NEW d \in Devices, SetVault(d) \/ SaveKey(d) PROVE Counted'
<1>1. PICK step \in {"save", "ready"} : Step(d, step)
  BY DEF SetVault, SaveKey
<1>2. PICK t \in TaskRec : /\ task' = [task EXCEPT ![d] = t] /\ t.step = step
                           /\ t.with <= made.password /\ t.batch <= made.batch
  BY <1>1, SteppedNumbers DEF Steps
<1>3. /\ UNCHANGED <<password, batches, sessions, shown, made, drops, unseen>>
      /\ vault' = vault \/ vault' = [key |-> task[d].key, with |-> task[d].with]
  BY DEF SetVault, SaveKey, stored
<1>4. vault'.with <= made.password
  BY <1>3 DEF Counted, Numbers
<1>5. ASSUME NEW e \in Devices PROVE Numbers(task[e])'
  <2>1. task'[e] = t \/ task'[e] = task[e]
    BY <1>2 DEF Inv, Shapes
  <2> QED BY <1>2, <1>3, <2>1 DEF Numbers, Counted
<1> QED BY <1>3, <1>4, <1>5 DEF Counted

\* making a batch
LEMMA BatchCounts ==
    ASSUME Parameters, Inv, Counted, made.batch < MaxBatches, Make("batch")
    PROVE  /\ made' \in [key : Nat, password : Nat, batch : Nat] /\ made'.key = made.key
           /\ made'.password = made.password /\ made'.batch = NewBatch
           /\ NewBatch \in Nat \ {0} /\ made.batch < NewBatch /\ NewBatch <= MaxBatches
<1>1. made' = [made EXCEPT !["batch"] = @ + 1]
  BY DEF Make
<1>2. made \in [key : Nat, password : Nat, batch : Nat]
  BY DEF Inv, Shapes
<1> QED BY <1>1, <1>2 DEF Parameters, NewBatch

LEMMA StageCounts ==
    ASSUME Parameters, Inv, Counted, NEW d \in Devices, NEW with \in Nat, with <= made.password,
           NEW key \in Nat, Stage(d, with, key)
    PROVE  Counted'
<1> DEFINE new == [id |-> NewBatch, key |-> NoKey]
           upload == [step |-> "upload", key |-> key, with |-> with, batch |-> NewBatch]
<1>1. /\ batches' = batches \cup {new}
      /\ task' = [task EXCEPT ![d] = Idle] \/ task' = [task EXCEPT ![d] = upload]
      /\ UNCHANGED <<password, vault, sessions, shown, drops, unseen>>
  BY DEF Stage, Staged, Go
<1>2. /\ made' \in [key : Nat, password : Nat, batch : Nat] /\ made'.key = made.key
      /\ made'.password = made.password /\ made'.batch = NewBatch
      /\ NewBatch \in Nat \ {0} /\ made.batch < NewBatch /\ NewBatch <= MaxBatches
  BY BatchCounts DEF Stage
<1>3. new.id = NewBatch
  OBVIOUS
<1>4. upload \in TaskRec /\ upload.with = with /\ upload.batch = NewBatch
  BY <1>2 DEF TaskRec, Steps
<1> HIDE DEF new, upload
<1>5. PICK t \in TaskRec : /\ task' = [task EXCEPT ![d] = t] /\ t.with <= made.password
                           /\ t.batch <= NewBatch
                           /\ t.step \in {"upload", "show", "recover"} => t.batch # 0
  <2>1. Idle.with <= made.password /\ Idle.batch <= NewBatch /\ Idle.step = "idle"
    BY <1>2, IdleNumbers DEF Counted, Parameters
  <2> QED BY <1>1, <1>2, <1>4, <2>1, IdleIs
<1>6. /\ made.batch \in Nat /\ batches \subseteq BatchRec
      /\ \A b \in batches : b.id \in Nat /\ b.id # 0 /\ b.id <= made.batch
  BY DEF Inv, Shapes, BatchRec, Counted
<1>7. \A b \in batches' : b.id \in Nat /\ b.id # 0 /\ b.id <= made'.batch
  BY <1>1, <1>2, <1>3, <1>6
<1>8. \A b, c \in batches' : b.id = c.id => b = c
  BY <1>1, <1>2, <1>3, <1>6 DEF Counted
<1>9. shown' \subseteq 1 .. made'.batch
  BY <1>1, <1>2, <1>6 DEF Counted
<1>10. made'.key <= MaxKeys /\ made'.password <= MaxPasswords /\ password' = made'.password
  BY <1>1, <1>2 DEF Counted, Parameters
<1>11. made.password <= made'.password /\ made.batch <= made'.batch /\ t.with <= made'.password
  BY <1>2, <1>5, <1>6 DEF Inv, Shapes
<1>12. drops' \in 0 .. MaxDrops /\ unseen' \in BOOLEAN /\ sessions' \subseteq Devices
  BY <1>1 DEF Counted
<1> QED BY <1>1, <1>2, <1>5, <1>7, <1>8, <1>9, <1>10, <1>11, <1>12, CountsOn

LEMMA RegenerateCounts ==
    ASSUME Parameters, Inv, Counted, NEW d \in Devices, Regenerate(d) PROVE Counted'
<1>1. password \in Nat /\ password <= made.password /\ task[d].key \in Nat /\ local[d] \in Nat
  BY DEF Inv, Shapes, TaskRec, Counted, Parameters
<1> QED BY <1>1, StageCounts DEF Regenerate

LEMMA UploadCounts ==
    ASSUME Parameters, Inv, Counted, NEW d \in Devices, Upload(d) PROVE Counted'
<1>1. /\ task[d].step = "upload" /\ Step(d, "show")
      /\ batches' = {[id |-> task[d].batch, key |-> task[d].key]}
      /\ UNCHANGED <<password, vault, sessions, shown, made, drops, unseen>>
  BY DEF Upload, At
<1>2. PICK t \in TaskRec : /\ task' = [task EXCEPT ![d] = t] /\ t.batch = task[d].batch
                           /\ t.with <= made.password /\ t.batch <= made.batch
  BY <1>1, SteppedNumbers DEF Steps
<1>3. Numbers(task[d])
  BY DEF Counted
<1>4. task[d].batch # 0 /\ task[d].batch <= made.batch
  BY <1>1, <1>3 DEF Numbers
<1>5. ASSUME NEW e \in Devices PROVE Numbers(task[e])'
  <2>1. task'[e] = t \/ task'[e] = task[e]
    BY <1>2 DEF Inv, Shapes
  <2> QED BY <1>1, <1>2, <1>4, <2>1 DEF Numbers, Counted
<1>6. /\ \A b \in batches' : b.id # 0 /\ b.id <= made'.batch
      /\ \A b, c \in batches' : b.id = c.id => b = c
  BY <1>1, <1>4
<1> QED BY <1>1, <1>5, <1>6 DEF Counted

LEMMA ShowCounts ==
    ASSUME Parameters, Inv, Counted, NEW d \in Devices, Show(d) PROVE Counted'
<1>1. /\ task[d].step = "show" /\ shown' = shown \cup {task[d].batch} /\ task' = [task EXCEPT ![d] = Idle]
      /\ UNCHANGED <<stored, made, drops, unseen>>
  BY DEF Show, At, Go
<1>2. task[d].batch \in 1 .. made.batch
  BY <1>1 DEF Counted, Numbers, Inv, Shapes, TaskRec
<1>3. Numbers(Idle)
  BY IdleNumbers DEF Numbers, Counted, Parameters
<1>4. ASSUME NEW e \in Devices PROVE Numbers(task[e])'
  <2>1. task'[e] = Idle \/ task'[e] = task[e]
    BY <1>1 DEF Inv, Shapes
  <2> QED BY <1>1, <1>3, <2>1 DEF Numbers, Counted
<1> QED BY <1>1, <1>2, <1>4 DEF Counted, stored

LEMMA VerifyCounts ==
    ASSUME Parameters, Inv, Counted, NEW d \in Devices, Verify(d) PROVE Counted'
<1> DEFINE t == [Idle EXCEPT !.step = "change", !.with = password, !.key = local[d]]
<1>1. task' = [task EXCEPT ![d] = t] /\ UNCHANGED <<stored, shown, made, drops, unseen>>
  BY DEF Verify, Go
<1>2. t \in TaskRec /\ t.with = password /\ t.batch = 0 /\ t.step = "change"
  BY IdleIs, IdleNumbers DEF TaskRec, Steps, Inv, Shapes, Idle
<1> HIDE DEF t
<1>3. Numbers(t)
  BY <1>2 DEF Numbers, Counted, Parameters
<1> QED BY <1>1, <1>2, <1>3, CountsStill DEF Counted

LEMMA ChangePasswordCounts ==
    ASSUME Parameters, Inv, Counted, NEW d \in Devices, ChangePassword(d) PROVE Counted'
<1>1. /\ made.password < MaxPasswords /\ password' = NewPassword
      /\ made' = [made EXCEPT !["password"] = @ + 1]
      /\ vault' = [key |-> task[d].key, with |-> NewPassword]
      /\ sessions' = sessions \cap {d} /\ task' = [task EXCEPT ![d] = Idle]
      /\ UNCHANGED <<batches, shown, drops, unseen>>
  BY DEF ChangePassword, Make, Rewrapped, Go
<1>2. made \in [key : Nat, password : Nat, batch : Nat]
  BY DEF Inv, Shapes
<1>3. /\ made' \in [key : Nat, password : Nat, batch : Nat] /\ made'.key = made.key
      /\ made'.password = NewPassword /\ made'.batch = made.batch /\ vault'.with = NewPassword
      /\ made.password <= NewPassword /\ NewPassword <= MaxPasswords /\ NewPassword \in Nat
  BY <1>1, <1>2 DEF NewPassword, Parameters
<1>4. /\ \A b \in batches' : b.id \in Nat /\ b.id # 0 /\ b.id <= made'.batch
      /\ \A b, c \in batches' : b.id = c.id => b = c
  BY <1>1, <1>3 DEF Counted, Inv, Shapes, BatchRec
<1>5. Idle.with <= made'.password /\ Idle.batch <= made'.batch
  BY <1>2, <1>3, IdleNumbers
<1>6. /\ made'.key <= MaxKeys /\ made.batch <= made'.batch /\ made'.batch <= MaxBatches
      /\ vault'.with <= made'.password /\ password' = made'.password
  BY <1>1, <1>2, <1>3 DEF Counted, Parameters
<1>7. /\ sessions' \subseteq Devices /\ shown' \subseteq 1 .. made'.batch
      /\ drops' \in 0 .. MaxDrops /\ unseen' \in BOOLEAN
  BY <1>1, <1>3 DEF Counted
<1> QED BY <1>1, <1>3, <1>4, <1>5, <1>6, <1>7, IdleIs, IdleNumbers, CountsOn

LEMMA PrepareCounts ==
    ASSUME Parameters, Inv, Counted, NEW d \in Devices, NEW b \in batches, Prepare(d, b)
    PROVE  Counted'
<1> DEFINE key == IF b.key # NoKey THEN b.key ELSE IF local[d] # NoKey THEN local[d] ELSE NewKey
           t == [step |-> "recover", key |-> key, with |-> 0, batch |-> b.id]
<1>2. /\ made' = made \/ MakeKey
      /\ task' = [task EXCEPT ![d] = t] /\ UNCHANGED <<stored, shown, drops, unseen>>
  BY DEF Prepare, Go
<1>3. b.id \in Nat /\ b.key \in Nat /\ local[d] \in Nat /\ made.key \in Nat /\ b.id # 0 /\ b.id <= made.batch
  BY DEF Inv, Shapes, BatchRec, Counted
<1>4. t \in TaskRec /\ t.with = 0 /\ t.batch = b.id
  BY <1>3 DEF TaskRec, Steps, NewKey
<1> HIDE DEF t, key
<1>5. /\ made' \in [key : Nat, password : Nat, batch : Nat] /\ made'.key <= MaxKeys
      /\ made'.password = made.password /\ made'.batch = made.batch
  BY <1>2, KeyCounts DEF Inv, Shapes, Counted
<1>6. ASSUME NEW e \in Devices PROVE Numbers(task[e])'
  <2>1. task'[e] = t \/ task'[e] = task[e]
    BY <1>2 DEF Inv, Shapes
  <2>2. Numbers(t) /\ Numbers(task[e])
    BY <1>3, <1>4 DEF Numbers, Counted, Parameters
  <2> QED BY <1>5, <2>1, <2>2 DEF Numbers
<1> QED BY <1>2, <1>5, <1>6 DEF Counted, stored

LEMMA RecoverCounts ==
    ASSUME Parameters, Inv, Counted, NEW d \in Devices, Recover(d) PROVE Counted'
<1> DEFINE new == [id |-> NewBatch, key |-> task[d].key]
           t == [Idle EXCEPT !.step = "show", !.batch = NewBatch]
<1>1. /\ made.password < MaxPasswords /\ made.batch < MaxBatches /\ password' = NewPassword
      /\ vault' = [key |-> task[d].key, with |-> NewPassword] /\ batches' = {new}
      /\ sessions' = {d} /\ task' = [task EXCEPT ![d] = t]
      /\ made' = [made EXCEPT !.password = NewPassword, !.batch = NewBatch]
      /\ UNCHANGED <<shown, drops, unseen>>
  BY DEF Recover, Rewrapped, Go
<1>2. made \in [key : Nat, password : Nat, batch : Nat]
  BY DEF Inv, Shapes
<1>3. /\ NewPassword \in Nat /\ NewBatch \in Nat \ {0} /\ NewPassword <= MaxPasswords
      /\ NewBatch <= MaxBatches /\ made.password <= NewPassword /\ made.batch <= NewBatch
  BY <1>1, <1>2 DEF NewPassword, NewBatch, Parameters
<1>4. t \in TaskRec /\ t.with = 0 /\ t.batch = NewBatch
  BY <1>3, IdleIs, IdleNumbers DEF TaskRec, Steps, Idle
<1>5. new.id = NewBatch /\ vault'.with = NewPassword
  BY <1>1
<1>6. /\ made' \in [key : Nat, password : Nat, batch : Nat] /\ made'.key = made.key
      /\ made'.password = NewPassword /\ made'.batch = NewBatch
  BY <1>1, <1>2, <1>3
<1> HIDE DEF t, new
<1>7. /\ \A b \in batches' : b.id \in Nat /\ b.id # 0 /\ b.id <= made'.batch
      /\ \A b, c \in batches' : b.id = c.id => b = c
  BY <1>1, <1>3, <1>5, <1>6
<1>8. /\ sessions' \subseteq Devices /\ shown' \subseteq 1 .. made'.batch
      /\ drops' \in 0 .. MaxDrops /\ unseen' \in BOOLEAN /\ made'.key <= MaxKeys
  BY <1>1, <1>2, <1>3, <1>6 DEF Counted
<1>9. t.with <= made'.password /\ t.batch <= made'.batch /\ t.batch # 0 /\ vault'.with <= made'.password
  BY <1>3, <1>4, <1>5, <1>6
<1> QED BY <1>1, <1>3, <1>4, <1>6, <1>7, <1>8, <1>9, CountsOn

LEMMA CountsStart == ASSUME Parameters, Init PROVE Counted
<1>1. PICK first \in Devices, key \in {0, 1} :
          /\ sessions = {first} /\ batches = {[id |-> 1, key |-> key]}
          /\ vault = [key |-> key, with |-> key]
          /\ made = [key |-> key, password |-> 1, batch |-> 1]
  BY DEF Init, NoKey
<1>2. /\ password = 1 /\ shown = {1} /\ drops = 0 /\ unseen = FALSE
      /\ \A d \in Devices : task[d] = Idle
  BY DEF Init
<1>3. \A d \in Devices : Numbers(task[d])
  BY <1>1, <1>2, IdleNumbers DEF Numbers
<1>4. made.key <= MaxKeys /\ 1 \in 1 .. MaxPasswords /\ 1 \in 1 .. MaxBatches /\ 0 \in 0 .. MaxDrops
  BY <1>1 DEF Parameters
<1>5. made.password = 1 /\ made.batch = 1 /\ password = 1 /\ vault.with <= 1
  BY <1>1, <1>2
<1>6. /\ \A b \in batches : b.id # 0 /\ b.id <= made.batch
      /\ \A b, c \in batches : b.id = c.id => b = c
  BY <1>1, <1>5
<1>7. sessions \subseteq Devices /\ shown \subseteq 1 .. made.batch
  BY <1>1, <1>2, <1>5
<1> QED BY <1>2, <1>3, <1>4, <1>5, <1>6, <1>7 DEF Counted

LEMMA CountsStep == ASSUME Parameters, Inv, Counted, [Next]_kvars PROVE Counted'
<1>1. CASE UNCHANGED kvars
  BY <1>1 DEF kvars, stored, Counted, Numbers
<1>2. ASSUME NEW d \in Devices, Login(d) \/ Establish(d) \/ SetVault(d) \/ SaveKey(d) PROVE Counted'
  BY <1>2, LoginCounts, EstablishCounts, VaultCounts
<1>3. ASSUME NEW d \in Devices, Ready(d) \/ Refuse(d) PROVE Counted'
  <2>1. Go(d, Idle) /\ UNCHANGED <<stored, shown, made, drops, unseen>>
    BY <1>3 DEF Ready, Refuse
  <2> QED BY <2>1, IdleCounts DEF Counted
<1>4. ASSUME NEW d \in Devices, Regenerate(d) \/ Upload(d) \/ Show(d) PROVE Counted'
  BY <1>4, RegenerateCounts, UploadCounts, ShowCounts
<1>5. ASSUME NEW d \in Devices, Verify(d) \/ ChangePassword(d) \/ Recover(d) PROVE Counted'
  BY <1>5, VerifyCounts, ChangePasswordCounts, RecoverCounts
<1>6. ASSUME NEW d \in Devices, NEW b \in batches, Prepare(d, b) PROVE Counted'
  BY <1>6, PrepareCounts
<1>7. ASSUME NEW d \in Devices, Drop(d) PROVE Counted'
  <2>1. /\ Go(d, Idle) /\ UNCHANGED <<stored, shown, made>>
        /\ drops' = drops + 1 /\ drops < MaxDrops /\ unseen' \in BOOLEAN
    BY <1>7 DEF Drop, Counted
  <2>2. drops' \in 0 .. MaxDrops
    BY <2>1 DEF Counted, Parameters
  <2> QED BY <2>1, <2>2, IdleCounts
<1>8. ASSUME NEW d \in Devices, Reinstall(d) PROVE Counted'
  <2>1. drops' \in 0 .. MaxDrops /\ UNCHANGED <<stored, task, shown, made, unseen>>
    BY <1>8 DEF Reinstall, Counted, Parameters
  <2> QED BY <2>1 DEF stored, Counted, Numbers
<1> QED BY <1>1, <1>2, <1>3, <1>4, <1>5, <1>6, <1>7, <1>8 DEF Next

(***************************************************************************)
(* The tables, the installations and the tasks keep to their types, and    *)
(* two batches of codes never have one number (stage_recovery_codes).      *)
(***************************************************************************)
THEOREM TypeCorrect == ASSUME Parameters PROVE Spec => []TypeOK
<1>1. Init => Inv /\ Counted
  BY StartKeys, CountsStart
<1>2. Inv /\ Counted /\ [Next]_kvars => (Inv /\ Counted)'
  BY NextKeys, CountsStep
<1>3. Inv /\ Counted => TypeOK
  <2> SUFFICES ASSUME Inv, Counted PROVE TypeOK
    OBVIOUS
  <2>1. /\ made \in [key : Nat, password : Nat, batch : Nat] /\ made.key <= MaxKeys
        /\ made.password \in 1 .. MaxPasswords /\ made.batch \in 1 .. MaxBatches
    BY DEF Inv, Shapes, Counted
  <2>2. made \in [key : Key, password : 1 .. MaxPasswords, batch : 1 .. MaxBatches]
    BY <2>1 DEF Key, Parameters
  <2>3. vault \in [key : Key, with : 0 .. MaxPasswords]
    BY <2>1 DEF Inv, Shapes, KeysAreMade, Counted, Key, Parameters
  <2>4. batches \subseteq Batch
    BY <2>1 DEF Inv, Shapes, KeysAreMade, Counted, BatchRec, Batch, Key, Parameters
  <2>5. ASSUME NEW d \in Devices PROVE local[d] \in Key /\ task[d] \in Task
    <3>1. local[d] \in Nat /\ task[d] \in TaskRec /\ local[d] <= made.key /\ task[d].key <= made.key /\ Numbers(task[d])
      BY DEF Inv, Shapes, KeysAreMade, Counted
    <3> QED BY <2>1, <3>1 DEF Numbers, TaskRec, Task, Key, Parameters
  <2>6. local \in [Devices -> Key] /\ task \in [Devices -> Task]
    BY <2>5 DEF Inv, Shapes
  <2>7. shown \subseteq 1 .. MaxBatches
    BY <2>1 DEF Counted, Parameters
  <2> QED BY <2>1, <2>2, <2>3, <2>4, <2>6, <2>7 DEF Counted, TypeOK, Inv, Shapes
<1> QED BY <1>1, <1>2, <1>3, PTL DEF Spec

=============================================================================
