--------------------------- MODULE PrivateHistory ---------------------------
(***************************************************************************)
(* The private history of one account on one device (desktop lib.rs,       *)
(* store.rs): an encrypted message can be decrypted once, its text is kept *)
(* in the cache and in an archive on the server, and every full            *)
(* synchronization empties the cache and fills it from both again.         *)
(*                                                                         *)
(* A text is the number of the version that was read; 0 is the empty text  *)
(* the server gives for an encrypted message.  Messages are not deleted.   *)
(***************************************************************************)
EXTENDS Integers, FiniteSets

CONSTANTS
    Messages,
    MaxVersions   \* bound: versions of a message

VARIABLES
    version,  \* the newest version the server holds, 0 before the message
    sealed,   \* message -> versions this device can still decrypt
    cache,    \* message -> its text in the cache, Absent when there is no row
    archive,  \* message -> the text of its archive, Absent when there is none
    outbox,   \* private_history_outbox
    sync,     \* the full synchronization under way
    retry,    \* private_history_retry
    read      \* history: message -> the last version this device could show

hvars == <<version, sealed, cache, archive, outbox, sync, retry, read>>

\* what the theorems ask of the constants
Parameters == MaxVersions \in Nat \ {0}

Absent == -1
Outcomes == {"stored", "lost", "failed"}   \* of put_private_history
NoSync == [step |-> "idle", known |-> [m \in Messages |-> Absent], todo |-> {}]

TypeOK ==
    /\ \A m \in Messages :
          /\ version[m] \in 0 .. MaxVersions /\ read[m] \in 0 .. version[m]
          /\ sealed[m] \subseteq 1 .. version[m]
          /\ cache[m] \in Absent .. version[m] /\ archive[m] \in Absent .. version[m]
    /\ outbox \subseteq Messages /\ retry \in BOOLEAN
    /\ sync.step \in {"idle", "snapshot", "messages", "restore"} /\ sync.todo \subseteq Messages

Init ==
    /\ version = [m \in Messages |-> 0] /\ sealed = [m \in Messages |-> {}]
    /\ cache = [m \in Messages |-> Absent] /\ archive = [m \in Messages |-> Absent]
    /\ outbox = {} /\ sync = NoSync /\ retry = FALSE /\ read = [m \in Messages |-> 0]

\* somebody posts or edits a message; this device may miss the event
Post(m) ==
    /\ version[m] < MaxVersions
    /\ version' = [version EXCEPT ![m] = @ + 1]
    /\ sealed' = [sealed EXCEPT ![m] = @ \cup {version[m] + 1}]
    /\ UNCHANGED <<cache, archive, outbox, sync, retry, read>>

\* archive_private_message: queued, uploaded, and taken off the queue when that is confirmed
Archives(m, text, outcome) ==
    /\ archive' = IF outcome = "failed" THEN archive ELSE [archive EXCEPT ![m] = text]
    /\ outbox' = IF outcome = "stored" THEN outbox \ {m} ELSE outbox \cup {m}

Shows(m, text) ==
    /\ cache' = [cache EXCEPT ![m] = text]
    /\ read' = [read EXCEPT ![m] = IF text > @ THEN text ELSE @]

\* deliver_message: the author's own text is never decrypted
Send(m, outcome) ==
    /\ version[m] = 0
    /\ version' = [version EXCEPT ![m] = 1]
    /\ Shows(m, 1) /\ Archives(m, 1, outcome)
    /\ UNCHANGED <<sealed, sync, retry>>

\* decrypt_message uses up the key of the version
Decrypts(m) ==
    /\ version[m] \in sealed[m]
    /\ sealed' = [sealed EXCEPT ![m] = @ \ {version[m]}]
    /\ Shows(m, version[m])

\* apply_gateway_message, apply_gateway_message_update
Receive(m, outcome) ==
    /\ sync.step = "idle" /\ Decrypts(m) /\ Archives(m, version[m], outcome)
    /\ UNCHANGED <<version, sync, retry>>

\* synchronize_once: apply_remote_snapshot replaces every remote row
ApplySnapshot ==
    /\ sync.step = "idle"
    /\ cache' = [m \in Messages |-> IF version[m] > 0 THEN 0 ELSE Absent]
    /\ sync' = [sync EXCEPT !.step = "snapshot"]
    /\ UNCHANGED <<version, sealed, archive, outbox, retry, read>>

FetchHistory(ok) ==
    /\ sync.step = "snapshot"
    /\ sync' = IF ok THEN [step |-> "messages", known |-> archive,
                           todo |-> {m \in Messages : cache[m] # Absent}]
                     ELSE NoSync
    /\ retry' = ~ok
    /\ UNCHANGED <<version, sealed, cache, archive, outbox, read>>

\* a text without an archive is uploaded
Uploads(m, text, outcome) ==
    IF sync.known[m] = Absent
    THEN Archives(m, text, outcome) /\ retry' = (retry \/ outcome # "stored")
    ELSE UNCHANGED <<archive, outbox, retry>>

\* synchronize_private_history, the messages of the snapshot
SyncMessage(m, outcome) ==
    /\ sync.step = "messages" /\ m \in sync.todo
    /\ sync' = [sync EXCEPT !.todo = @ \ {m}]
    /\ \/ cache[m] = 0 /\ Decrypts(m) /\ Uploads(m, version[m], outcome)
       \/ cache[m] > 0 /\ Uploads(m, cache[m], outcome) /\ UNCHANGED <<sealed, cache, read>>
       \/ /\ cache[m] = 0 /\ version[m] \notin sealed[m]
          /\ retry' = (retry \/ sync.known[m] = Absent)
          /\ UNCHANGED <<sealed, cache, read, archive, outbox>>
    /\ UNCHANGED version

RestoreAll ==
    /\ sync.step = "messages" /\ sync.todo = {}
    /\ sync' = [sync EXCEPT !.step = "restore"]
    /\ UNCHANGED <<version, sealed, cache, archive, outbox, retry, read>>

\* restore_private_message refuses an archive without text
Restored(known) == [m \in Messages |-> IF cache[m] <= 0 /\ known[m] > 0 THEN known[m] ELSE cache[m]]
Unrestored(known) == \E m \in Messages : cache[m] <= 0 /\ known[m] = 0

\* ... then the archives
Restore ==
    /\ sync.step = "restore"
    /\ cache' = Restored(sync.known)
    /\ retry' = (retry \/ Unrestored(sync.known))
    /\ sync' = NoSync
    /\ UNCHANGED <<version, sealed, archive, outbox, read>>

\* flush_private_history_outbox: whatever the cache holds is archived
Flush(m, outcome) ==
    /\ sync.step = "idle" /\ m \in outbox
    /\ Archives(m, cache[m], outcome)
    /\ UNCHANGED <<version, sealed, cache, sync, retry, read>>

\* retry_private_history_restore
RetryRestore ==
    /\ sync.step = "idle" /\ retry
    /\ cache' = Restored(archive) /\ retry' = Unrestored(archive)
    /\ UNCHANGED <<version, sealed, archive, outbox, sync, read>>

\* the application ends; the cache, the keys and the outbox are on the disk
Stop ==
    /\ sync' = NoSync /\ retry' = FALSE
    /\ UNCHANGED <<version, sealed, cache, archive, outbox, read>>

Next ==
    \/ \E m \in Messages : Post(m)
    \/ \E m \in Messages, outcome \in Outcomes :
          Send(m, outcome) \/ Receive(m, outcome) \/ SyncMessage(m, outcome) \/ Flush(m, outcome)
    \/ \E ok \in BOOLEAN : FetchHistory(ok)
    \/ ApplySnapshot \/ RestoreAll \/ Restore \/ RetryRestore \/ Stop
Spec == Init /\ [][Next]_hvars

\* A text this device once showed is not lost: at rest, the cache or the
\* archive holds it, or an archive the user can restore it from is still to be
\* uploaded from the cache (docs/end-to-end-encryption.md, "For each decrypted
\* direct message, the desktop ... uploads it").  The code loses it: a queued
\* upload takes the text of the cache, which a synchronization has emptied.
TextIsKept ==
    \A m \in Messages :
       sync.step = "idle" /\ read[m] > 0 /\ outbox = {} => archive[m] >= read[m] \/ cache[m] >= read[m]
=============================================================================
