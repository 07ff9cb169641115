----------------------------- MODULE LocalCache -----------------------------
(***************************************************************************)
(* The cache file of an account on the desktop: a start of the process     *)
(* takes the key from the vault, recovers a swap that was cut short,       *)
(* replaces a plaintext database by a sealed copy of it and upgrades the   *)
(* schema (store.rs); a start that cannot do so is blocked until it is     *)
(* tried again or the user has the files set aside (src-tauri lib.rs).     *)
(*                                                                         *)
(* A step is one change of the file system or of the vault, and the        *)
(* process may end between any two.  The write-ahead log and the journal   *)
(* of a database are not told apart from it.  The cache that is followed   *)
(* is the one that is there at first: what is written after a reset is not *)
(* looked into.                                                            *)
(***************************************************************************)
EXTENDS Naturals

CONSTANTS
    MaxKeys,     \* bound: keys made for the account
    MaxEvents    \* bound: operations that fail and losses of the vault's entry

VARIABLES
    files,     \* the database, the copy being sealed and the backup of the plaintext
    vault,     \* the cache key of the vault; 0: no entry
    key,       \* the key this start has loaded
    stage,     \* where the process is
    aside,     \* files moved to the folder of the reset that is going on
    kept,      \* files in folders nothing will be moved back from
    keys,      \* keys made so far
    failed,    \* an operation has failed in this start
    reset,     \* history: the user has asked for a reset
    lost,      \* history: the key went when no plaintext copy was left
    events

disk == <<files, aside, kept>>
cvars == <<disk, vault, key, stage, keys, failed, reset, lost, events>>

Places == {"main", "temporary", "backup"}

(***************************************************************************)
(* plain and sealed files hold the cache, a fresh one holds nothing, and   *)
(* garbage is an unfinished export or a file that was overwritten.  The    *)
(* schema is torn when statements of an upgrade were executed and its      *)
(* version was not written.                                                *)
(***************************************************************************)
File == [form : {"none", "plain", "sealed", "fresh", "garbage"}, key : 0 .. MaxKeys,
         schema : {"old", "torn", "current"}]
Unsealed(form) == [form |-> form, key |-> 0, schema |-> "old"]
Nothing == Unsealed("none")
Plain == Unsealed("plain")
Fresh == Unsealed("fresh")
Garbage == Unsealed("garbage")
Absent(p) == files[p] = Nothing
NoFiles == [p \in Places |-> Nothing]

\* what the theorems ask of the constants
Parameters == MaxKeys \in Nat \ {0} /\ MaxEvents \in Nat

Stages == {"down", "recovering", "cleaning", "opening", "exporting", "exported", "swapped",
           "checking", "undoing", "upgrading", "upgraded", "open", "blocked", "moving",
           "moved", "returning", "restoring"}

TypeOK ==
    /\ files \in [Places -> File] /\ aside \in [Places -> File] /\ kept \subseteq File
    /\ vault \in 0 .. MaxKeys /\ key \in 0 .. MaxKeys /\ keys \in 0 .. MaxKeys
    /\ stage \in Stages
    /\ failed \in BOOLEAN /\ reset \in BOOLEAN /\ lost \in BOOLEAN
    /\ events \in 0 .. MaxEvents

\* a plaintext cache from before encryption, or a sealed one of this or an older version
Init ==
    /\ \/ files = [NoFiles EXCEPT !["main"] = Plain] /\ keys = 0
       \/ /\ keys = 1
          /\ \E s \in {"old", "current"} :
                files = [NoFiles EXCEPT !["main"] = [form |-> "sealed", key |-> 1, schema |-> s]]
    /\ vault = keys /\ key = 0 /\ stage = "down"
    /\ aside = NoFiles /\ kept = {}
    /\ failed = FALSE /\ reset = FALSE /\ lost = FALSE /\ events = 0

Copies == {files[p] : p \in Places} \cup {aside[p] : p \in Places} \cup kept
Happens == events < MaxEvents /\ events' = events + 1
Become(s) == stage' = s /\ UNCHANGED <<vault, key, keys, failed, reset, lost, events>>
Fails(s) == stage' = s /\ failed' = TRUE /\ Happens /\ UNCHANGED <<vault, key, keys, reset, lost>>
Move(from, to) ==
    files' = [files EXCEPT ![to] = files[from], ![from] = Nothing]

-----------------------------------------------------------------------------
(* The key *)

\* open_keyed_connection and verify_cache_integrity; an empty file takes any key
Readable(f) == f.form \in {"sealed", "fresh"} /\ f.key \in {0, key}

\* load_or_create_cache_key: no entry, and there is a new key
Start ==
    /\ stage = "down" /\ stage' = "recovering" /\ failed' = FALSE
    /\ IF vault # 0 THEN UNCHANGED <<vault, keys>>
       ELSE keys < MaxKeys /\ keys' = keys + 1 /\ vault' = keys + 1
    /\ key' = vault'
    /\ UNCHANGED <<disk, reset, lost, events>>

KeyFails == stage = "down" /\ Fails("blocked") /\ UNCHANGED disk

\* the entry of the vault disappears
Forgotten == lost' = (lost \/ \A f \in Copies : f.form # "plain")
LoseKey ==
    /\ stage = "down" /\ vault # 0 /\ Happens
    /\ vault' = 0 /\ Forgotten
    /\ UNCHANGED <<disk, key, stage, keys, failed, reset>>

-----------------------------------------------------------------------------
(* recover_interrupted_cache_migration *)

RestoreBackup ==
    /\ stage = "recovering" /\ Absent("main") /\ ~Absent("backup")
    /\ IF Absent("temporary") THEN Move("backup", "main") /\ Become("opening")
       ELSE files' = [files EXCEPT !["temporary"] = Nothing] /\ Become("recovering")
    /\ UNCHANGED <<aside, kept>>

PromoteLeftover ==
    /\ stage = "recovering" /\ Absent("main") /\ Absent("backup") /\ ~Absent("temporary")
    /\ IF Readable(files["temporary"])
       THEN Move("temporary", "main") /\ Become("opening")
       ELSE UNCHANGED files /\ Become("blocked")
    /\ UNCHANGED <<aside, kept>>

\* mutant: the companions go without a look at the database
Trusted_Always == TRUE
\* companions are removed only beside a database that is whole
Trusted == files["main"].form = "plain" \/ Readable(files["main"])

Recover ==
    /\ stage = "recovering" /\ UNCHANGED disk
    /\ IF Absent("temporary") /\ Absent("backup") THEN Become("opening")
       ELSE ~Absent("main") /\ Become(IF Trusted THEN "cleaning" ELSE "blocked")

\* remove_file_if_exists of the copy, then scrub_and_remove of the backup
Clean ==
    /\ stage = "cleaning" /\ UNCHANGED <<aside, kept>>
    /\ \/ ~Absent("temporary") /\ files' = [files EXCEPT !["temporary"] = Nothing]
       \/ /\ Absent("temporary") /\ ~Absent("backup")
          /\ files' = [files EXCEPT !["backup"] = IF @ = Garbage THEN Nothing ELSE Garbage]
    /\ Become("cleaning")
Cleaned ==
    /\ stage = "cleaning" /\ Absent("temporary") /\ Absent("backup")
    /\ Become("opening") /\ UNCHANGED disk

-----------------------------------------------------------------------------
(* encrypt_plaintext_cache *)

IsPlain == files["main"].form = "plain"
Attach ==
    /\ stage = "opening" /\ IsPlain
    /\ files' = [files EXCEPT !["temporary"] = Garbage]
    /\ Become("exporting") /\ UNCHANGED <<aside, kept>>
Export ==
    /\ stage = "exporting"
    /\ files' = [files EXCEPT !["temporary"] =
                    [form |-> "sealed", key |-> key, schema |-> files["main"].schema]]
    /\ Become("exported") /\ UNCHANGED <<aside, kept>>
ExportFails ==
    /\ stage = "exporting"
    /\ files' = [files EXCEPT !["temporary"] = Nothing]
    /\ Fails("blocked") /\ UNCHANGED <<aside, kept>>

\* the copy was verified
Swap ==
    /\ stage = "exported" /\ Readable(files["temporary"])
    /\ Move("main", "backup") /\ Become("swapped") /\ UNCHANGED <<aside, kept>>
Promote ==
    /\ stage = "swapped"
    /\ Move("temporary", "main") /\ Become("checking") /\ UNCHANGED <<aside, kept>>
PromoteFails ==
    /\ stage = "swapped"
    /\ Move("backup", "main") \/ UNCHANGED files
    /\ Fails("blocked") /\ UNCHANGED <<aside, kept>>
Check ==
    /\ stage = "checking" /\ Readable(files["main"])
    /\ Become("cleaning") /\ UNCHANGED disk
CheckFails ==
    /\ stage = "checking"
    /\ files' = [files EXCEPT !["main"] = Nothing]
    /\ Fails("undoing") /\ UNCHANGED <<aside, kept>>
Undo ==
    /\ stage = "undoing"
    /\ Move("backup", "main") /\ Become("blocked") /\ UNCHANGED <<aside, kept>>

-----------------------------------------------------------------------------
(* Opening *)

\* a database that is missing is created
Open ==
    /\ stage = "opening" /\ ~IsPlain
    /\ files' = IF Absent("main") THEN [files EXCEPT !["main"] = Fresh] ELSE files
    /\ Become(IF Absent("main") \/ Readable(files["main"]) THEN "upgrading" ELSE "blocked")
    /\ UNCHANGED <<aside, kept>>

\* migrate: the statements are committed one by one and do not bear to be repeated
Upgrade ==
    LET old == files["main"].schema = "old"
    IN  /\ stage = "upgrading"
        /\ files' = IF old THEN [files EXCEPT !["main"] =
                                    [form |-> @.form, key |-> key, schema |-> "torn"]]
                    ELSE files
        /\ Become(CASE old -> "upgraded"
                    [] files["main"].schema = "torn" -> "blocked"
                    [] OTHER -> "open")
        /\ UNCHANGED <<aside, kept>>
WriteVersion ==
    /\ stage = "upgraded"
    /\ files' = [files EXCEPT !["main"].schema = "current"]
    /\ Become("open") /\ UNCHANGED <<aside, kept>>

\* any other operation fails: the start is given up with the files as they are
StartFails ==
    /\ stage \in {"recovering", "cleaning", "opening", "exporting", "exported", "checking",
                  "undoing", "upgrading", "upgraded"}
    /\ Fails("blocked") /\ UNCHANGED disk

\* quit, crash, or retry_local_cache
Stop ==
    /\ stage # "down" /\ stage' = "down" /\ key' = 0 /\ failed' = FALSE
    /\ kept' = kept \cup ({aside[p] : p \in Places} \ {Nothing}) /\ aside' = NoFiles
    /\ UNCHANGED <<files, vault, keys, reset, lost, events>>

-----------------------------------------------------------------------------
(* reset_local_cache *)

Confirm ==
    /\ stage = "blocked" /\ stage' = "moving" /\ reset' = TRUE
    /\ UNCHANGED <<disk, vault, key, keys, failed, lost, events>>

\* cache_artifact_paths: the database first, the backup last
Before(p) == CASE p = "main" -> {} [] p = "temporary" -> {"main"} [] OTHER -> Places \ {p}
Preserve(p) ==
    /\ stage = "moving" /\ ~Absent(p) /\ \A q \in Before(p) : Absent(q)
    /\ files' = [files EXCEPT ![p] = Nothing] /\ aside' = [aside EXCEPT ![p] = files[p]]
    /\ Become("moving") /\ UNCHANGED kept
Preserved == stage = "moving" /\ files = NoFiles /\ Become("moved") /\ UNCHANGED disk

\* a move fails, or recovery.json cannot be written
PreserveFails == stage = "moving" /\ Fails("returning") /\ UNCHANGED disk

\* clear_cache_key, and the application restarts
ClearKey ==
    /\ stage = "moved" /\ stage' = "down" /\ vault' = 0 /\ Forgotten
    /\ kept' = kept \cup ({aside[p] : p \in Places} \ {Nothing}) /\ aside' = NoFiles
    /\ key' = 0 /\ failed' = FALSE
    /\ UNCHANGED <<files, keys, reset, events>>
ClearFails == stage = "moved" /\ Fails("restoring") /\ UNCHANGED disk

\* rollback_cache_moves and restore_cache_artifacts
TakeBack(p) ==
    /\ stage \in {"returning", "restoring"} /\ aside[p] # Nothing /\ Absent(p)
    /\ files' = [files EXCEPT ![p] = aside[p]] /\ aside' = [aside EXCEPT ![p] = Nothing]
    /\ Become(stage) /\ UNCHANGED kept
Returned ==
    /\ stage \in {"returning", "restoring"} /\ aside = NoFiles
    /\ Become("blocked") /\ UNCHANGED disk

\* a rollback leaves behind the file that cannot be moved and goes on
LeftBehind(p) ==
    /\ stage = "returning" /\ aside[p] # Nothing
    /\ kept' = kept \cup {aside[p]} /\ aside' = [aside EXCEPT ![p] = Nothing]
    /\ Fails("returning") /\ UNCHANGED files

\* restore_cache_artifacts puts everything back into the folder
RestoreFails ==
    /\ stage = "restoring"
    /\ kept' = Copies \ {Nothing} /\ files' = NoFiles /\ aside' = NoFiles
    /\ Fails("blocked")

Next ==
    \/ Start \/ KeyFails \/ LoseKey
    \/ RestoreBackup \/ PromoteLeftover \/ Recover \/ Clean \/ Cleaned
    \/ Attach \/ Export \/ ExportFails \/ Swap \/ Promote \/ PromoteFails
    \/ Check \/ CheckFails \/ Undo
    \/ Open \/ Upgrade \/ WriteVersion \/ StartFails \/ Stop
    \/ Confirm \/ Preserved \/ PreserveFails \/ ClearKey \/ ClearFails \/ Returned
    \/ RestoreFails
    \/ \E p \in Places : Preserve(p) \/ TakeBack(p) \/ LeftBehind(p)

Spec == Init /\ [][Next]_cvars

-----------------------------------------------------------------------------
Legible(f) == f.form = "plain" \/ (f.form = "sealed" /\ f.key = vault /\ vault # 0)

\* a cache that could be read is never destroyed, in place or in a recovery folder
CopyRemains == lost \/ \E f \in Copies : Legible(f)

\* a start that succeeds has opened the cache itself, not a fresh one in its place, with
\* the key of the vault, and has left no plaintext beside it
OpensWhole ==
    stage = "open" =>
        /\ files["main"].form = "sealed" \/ (reset /\ files["main"].form = "fresh")
        /\ files["main"].key = vault
        /\ Absent("temporary") /\ Absent("backup")

\* "startup can recover a process or power failure during the swap": a start in which
\* nothing fails is blocked only after a lost key or a reset, or because of an upgrade
\* that was cut short
BlockedForCause ==
    stage = "blocked" /\ ~failed =>
        keys > 1 \/ reset \/ files["main"].schema = "torn"

\* wherever the process ends and whatever fails, nothing of the cache is destroyed, and
\* the next starts find it again (docs/local-cache-encryption.md:51-68, open_encrypted)
CacheIsKept == CopyRemains /\ OpensWhole /\ BlockedForCause
=============================================================================
