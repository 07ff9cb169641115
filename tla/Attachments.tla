---------------------------- MODULE Attachments ----------------------------
(***************************************************************************)
(* Attachment uploads of one author (lib.rs, repository.rs, media.rs):     *)
(* reservation, upload of the bytes, completion, the message that links    *)
(* them, and the cleanup of what expired.  Objects are named by their      *)
(* content, so several uploads may share one.                              *)
(*                                                                         *)
(* A reservation, a completion and the cleanup of an object lock it; a     *)
(* message locks the rows it links and not the object.  The stored bytes   *)
(* are no part of any transaction.                                         *)
(***************************************************************************)
EXTENDS FiniteSets

CONSTANTS Uploads, Contents, None

VARIABLES
    row,       \* attachment_uploads
    objects,   \* the stored objects
    uploading, \* capabilities checked, bytes not stored yet
    inspected, \* completions between the inspection of the object and the row
    linking,   \* messages being created: rows they checked and hold locked
    cleanup,   \* the object the cleanup holds, with what it saw
    overran    \* history: a reservation ran out while a message was linking it

avars == <<row, objects, uploading, inspected, linking, cleanup, overran>>

NoRow == [stage |-> "none", content |-> None, linked |-> FALSE, expired |-> FALSE]
Idle == [content |-> None, due |-> {}, step |-> "idle"]
Exists(u) == row[u].stage # "none"

TypeOK ==
    /\ row \in [Uploads -> [stage : {"none", "reserved", "ready"}, content : Contents \cup {None},
                            linked : BOOLEAN, expired : BOOLEAN]]
    /\ \A u \in Uploads : Exists(u) => row[u].content \in Contents
    /\ objects \subseteq Contents
    /\ uploading \subseteq Contents /\ inspected \subseteq Uploads
    /\ linking \subseteq Uploads
    /\ \A u \in linking : row[u].stage = "ready" /\ ~row[u].linked
    /\ cleanup \in [content : Contents \cup {None}, due : SUBSET Uploads,
                    step : {"idle", "locked", "deleting", "rows"}]
    /\ overran \in BOOLEAN

Init ==
    /\ row = [u \in Uploads |-> NoRow] /\ objects = {}
    /\ uploading = {} /\ inspected = {} /\ linking = {}
    /\ cleanup = Idle /\ overran = FALSE

\* reserve_attachment, under the lock of the object
Reserve(u, c) ==
    /\ ~Exists(u) /\ cleanup.content # c /\ u \notin inspected
    /\ row' = [row EXCEPT ![u] = [stage |-> "reserved", content |-> c,
                                 linked |-> FALSE, expired |-> FALSE]]
    /\ UNCHANGED <<objects, uploading, inspected, linking, cleanup, overran>>

\* upload_attachment: verify_upload_capability, then store_local_upload
BeginUpload(u) ==
    /\ Exists(u) /\ ~row[u].expired
    /\ uploading' = uploading \cup {row[u].content}
    /\ UNCHANGED <<row, objects, inspected, linking, cleanup, overran>>

StoreUpload(c, stored) ==
    /\ c \in uploading /\ uploading' = uploading \ {c}
    /\ objects' = IF stored THEN objects \cup {c} ELSE objects
    /\ UNCHANGED <<row, inspected, linking, cleanup, overran>>

\* inspect_reserved_object reads the object of the record
Inspectable(u) == Exists(u) /\ row[u].content \in objects

\* complete_attachment: the object is inspected, then the row changes under the lock
Inspect(u) ==
    /\ Inspectable(u)
    /\ inspected' = inspected \cup {u}
    /\ UNCHANGED <<row, objects, uploading, linking, cleanup, overran>>

\* validate_attachment_completion
Completes(u) == Exists(u) /\ ~row[u].linked /\ ~row[u].expired

CompleteAttachment(u) ==
    /\ u \in inspected \ linking /\ inspected' = inspected \ {u}
    /\ Exists(u) => cleanup.content # row[u].content
    /\ row' = IF Completes(u) THEN [row EXCEPT ![u].stage = "ready"] ELSE row
    /\ UNCHANGED <<objects, uploading, linking, cleanup, overran>>

\* create_message: validate_attachment_for_message on the locked row, then the commit
BeginLink(u) ==
    /\ row[u].stage = "ready" /\ ~row[u].linked /\ ~row[u].expired
    /\ linking' = linking \cup {u}
    /\ UNCHANGED <<row, objects, uploading, inspected, cleanup, overran>>

CommitLink(u, stored) ==
    /\ u \in linking /\ linking' = linking \ {u}
    /\ row' = IF stored THEN [row EXCEPT ![u].linked = TRUE] ELSE row
    /\ UNCHANGED <<objects, uploading, inspected, cleanup, overran>>

\* delete_message: its attachments are free again, for seven days
DeleteMessage(u) ==
    /\ row[u].linked
    /\ row' = [row EXCEPT ![u].linked = FALSE, ![u].expired = FALSE]
    /\ UNCHANGED <<objects, uploading, inspected, linking, cleanup, overran>>

\* fifteen minutes after the reservation, seven days after the message
Expire(u) ==
    /\ Exists(u) /\ ~row[u].expired /\ ~row[u].linked
    /\ row' = [row EXCEPT ![u].expired = TRUE]
    /\ overran' = (overran \/ u \in linking)
    /\ UNCHANGED <<objects, uploading, inspected, linking, cleanup>>

-----------------------------------------------------------------------------
(* cleanup_expired_attachments *)

Of(c) == {u \in Uploads : row[u].content = c}
Due(c) == {u \in Of(c) : ~row[u].linked /\ row[u].expired}

LockObject(c) ==
    /\ cleanup = Idle /\ Due(c) # {}
    /\ cleanup' = [content |-> c, due |-> Due(c), step |-> "locked"]
    /\ UNCHANGED <<row, objects, uploading, inspected, linking, overran>>

\* mutant: only reservations count
HasLiveReference_Reservations(c) == \E u \in Of(c) : ~row[u].linked /\ u \notin cleanup.due
\* a row of the object is linked, or had not expired when the pass began
HasLiveReference(c) == \E u \in Of(c) : row[u].linked \/ u \notin cleanup.due

CheckReferences ==
    /\ cleanup.step = "locked"
    /\ cleanup' = [cleanup EXCEPT !.step = IF HasLiveReference(cleanup.content)
                                           THEN "rows" ELSE "deleting"]
    /\ UNCHANGED <<row, objects, uploading, inspected, linking, overran>>

\* delete_object; when the storage fails the pass ends and the rows stay
DeleteObject(deleted) ==
    /\ cleanup.step = "deleting"
    /\ objects' = IF deleted THEN objects \ {cleanup.content} ELSE objects
    /\ cleanup' = IF deleted THEN [cleanup EXCEPT !.step = "rows"] ELSE Idle
    /\ UNCHANGED <<row, uploading, inspected, linking, overran>>

\* the rows go, once the messages that hold them locked have committed
DeleteRows ==
    LET gone == cleanup.due \cap Due(cleanup.content) IN
    /\ cleanup.step = "rows" /\ gone \cap linking = {}
    /\ row' = [u \in Uploads |-> IF u \in gone THEN NoRow ELSE row[u]]
    /\ cleanup' = Idle
    /\ UNCHANGED <<objects, uploading, inspected, linking, overran>>

\* the process ends: transactions roll back, stored bytes stay
Restart ==
    /\ uploading' = {} /\ inspected' = {} /\ linking' = {} /\ cleanup' = Idle
    /\ UNCHANGED <<row, objects, overran>>

Next ==
    \/ \E u \in Uploads, c \in Contents : Reserve(u, c)
    \/ \E u \in Uploads : BeginUpload(u) \/ Inspect(u) \/ CompleteAttachment(u)
                          \/ BeginLink(u) \/ DeleteMessage(u) \/ Expire(u)
    \/ \E u \in Uploads, stored \in BOOLEAN : CommitLink(u, stored)
    \/ \E c \in Contents, stored \in BOOLEAN : StoreUpload(c, stored)
    \/ \E c \in Contents : LockObject(c)
    \/ \E deleted \in BOOLEAN : DeleteObject(deleted)
    \/ CheckReferences \/ DeleteRows \/ Restart
Spec == Init /\ [][Next]_avars

\* The file of a message, and of an upload that a message may still link, is
\* stored, though uploads share objects and the cleanup deletes them outside
\* every transaction (cleanup_expired_attachments against reserve_attachment,
\* complete_attachment and create_message).  Not when the reservation runs
\* out while the message is being created: the cleanup does not see the rows
\* that message holds (docs/attachments-search.md, "cleanup first
\* checks for a live reservation or message reference").
FilesStay ==
    ~overran => \A u \in Uploads :
                   row[u].linked \/ (row[u].stage = "ready" /\ ~row[u].expired)
                      => row[u].content \in objects
=============================================================================
