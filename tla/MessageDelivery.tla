-------------------------- MODULE MessageDelivery --------------------------
(***************************************************************************)
(* A message written on one desktop: the encrypted outbox that delivers it *)
(* (store.rs, src-tauri lib.rs), the server that posts it once per nonce   *)
(* (repository.rs), and the cached row of it that snapshots, gateway       *)
(* events and replies write.                                               *)
(*                                                                         *)
(* Tasks of the process deliver side by side: the one send_message spawns  *)
(* per message, the synchronization loop, which flushes the outbox after   *)
(* each snapshot and on every maintenance tick, and the retry command.  A  *)
(* flush lists the pending entries and delivers them one after the other,  *)
(* and the loop handles no gateway event meanwhile.                        *)
(*                                                                         *)
(* The server checks the nonce, reserves it and publishes the event in     *)
(* steps of their own: a handler may be overtaken between any two, and it  *)
(* keeps running when the client has stopped waiting for its reply.        *)
(***************************************************************************)
EXTENDS Naturals, Sequences, FiniteSets

CONSTANTS
    Messages,       \* the messages; each carries the nonce it was given
    Loop, Retry,    \* the synchronization loop and the retry command
    MaxAttempts,    \* MAX_OUTBOX_ATTEMPTS
    MaxEvents       \* bound: edits, deletions and retries asked for, connections and
                    \* requests lost, lags and restarts, all together

Tasks == Messages \cup {Loop, Retry}

ASSUME TasksAssumption == Messages # {} /\ Loop \notin Messages /\ Retry \notin Messages /\ Loop # Retry
ASSUME AttemptsAssumption == MaxAttempts \in Nat \ {0}
ASSUME EventsAssumption == MaxEvents \in Nat

VARIABLES
    post,         \* the server's row: absent, live, or with deleted_at set
    version,      \* edits of that row
    rows,         \* history: rows inserted for the nonce
    unpublished,  \* events of committed changes, not yet on the broadcast
    late,         \* requests nobody waits for that the server still executes
    inbox,        \* events the gateway connection has for the loop
    stage,        \* where the loop is
    snap,         \* the snapshot it fetched
    entry,        \* the temporary row of a message and its outbox entry
    attempts,     \* outbox.attempts
    due,          \* next_attempt_at has passed
    cached,       \* the cached row with the server's identifier
    task,         \* what each task is doing
    replies,      \* replies to edits and deletions asked for on this device
    sent,         \* history: messages acknowledged
    disturbed,    \* history: messages a change of which may have been missed
    events        \* of the bounded kind so far

server == <<post, version, rows, unpublished, late>>
outbox == <<entry, attempts, due, sent>>
vars == <<server, inbox, stage, snap, outbox, cached, task, replies,
          disturbed, events>>

Version == 0 .. MaxEvents
Attempts == 0 .. MaxAttempts - 1
Row == [state : {"none", "shown", "deleted"}, version : Version]
NoRow == [state |-> "none", version |-> 0]

Event == [kind : {"create", "update", "delete"}, message : Messages, version : Version]

(***************************************************************************)
(* todo: the entries a flush has still to deliver, with the attempts it    *)
(* read; tried and version: the attempts the current delivery was given    *)
(* and the version of the message in its reply.                            *)
(***************************************************************************)
Steps == {"idle", "asked", "looked", "accepted"}
Task == [step : Steps, todo : SUBSET (Messages \X Attempts), message : Messages,
         tried : Attempts, version : Version]

TypeOK ==
    /\ post \in [Messages -> {"absent", "live", "deleted"}]
    /\ version \in [Messages -> Version]
    /\ rows \in [Messages -> Nat]
    /\ unpublished \subseteq Event
    /\ late \subseteq Messages \X {"asked", "looked"}
    /\ inbox \in Seq(Event)
    /\ stage \in {"offline", "fetched", "applied", "flushing", "connected", "refetched"}
    /\ snap \in [Messages -> Row]
    /\ entry \in [Messages -> {"none", "pending", "failed"}]
    /\ attempts \in [Messages -> Attempts]
    /\ due \in [Messages -> BOOLEAN]
    /\ cached \in [Messages -> Row]
    /\ task \in [Tasks -> Task]
    /\ replies \subseteq Event
    /\ sent \subseteq {m \in Messages : entry[m] = "none"}
    /\ disturbed \subseteq Messages
    /\ events \in 0 .. MaxEvents
    /\ \A m \in Messages : version[m] <= events

Idle == [step |-> "idle", todo |-> {}, message |-> CHOOSE m \in Messages : TRUE,
         tried |-> 0, version |-> 0]

Init ==
    /\ post = [m \in Messages |-> "absent"]
    /\ version = [m \in Messages |-> 0]
    /\ rows = [m \in Messages |-> 0]
    /\ unpublished = {} /\ late = {}
    /\ inbox = <<>> /\ stage = "offline"
    /\ snap = [m \in Messages |-> NoRow]
    /\ entry = [m \in Messages |-> "none"]
    /\ attempts = [m \in Messages |-> 0]
    /\ due = [m \in Messages |-> FALSE]
    /\ cached = [m \in Messages |-> NoRow]
    /\ task = [k \in Tasks |-> Idle]
    /\ replies = {} /\ sent = {} /\ disturbed = {}
    /\ events = 0

Happens == events < MaxEvents /\ events' = events + 1

-----------------------------------------------------------------------------
(* The server *)

\* whether an event is broadcast to the loop's connection
Subscribed == stage \in {"connected", "refetched"}

\* events in the order their changes were committed
Rank(e) == CASE e.kind = "create" -> 0
             [] e.kind = "update" -> e.version
             [] e.kind = "delete" -> MaxEvents + 1
Overtakes(e) == \E d \in unpublished : d.message = e.message /\ Rank(d) < Rank(e)

\* mutant: the message is inserted whether or not the nonce was reserved
Store_Unreserved(m) ==
    /\ post' = [post EXCEPT ![m] = "live"]
    /\ rows' = [rows EXCEPT ![m] = @ + 1]
    /\ UNCHANGED unpublished

\* create_message_payload: the nonce is reserved once, and whoever comes second
\* gets the message it stands for, which may have been deleted meanwhile
Store(m) ==
    IF post[m] = "absent"
    THEN /\ post' = [post EXCEPT ![m] = "live"]
         /\ rows' = [rows EXCEPT ![m] = @ + 1]
         /\ unpublished' = unpublished
                \cup {[kind |-> "create", message |-> m, version |-> 0]}
    ELSE UNCHANGED <<post, rows, unpublished>>

\* a request whose client has given up goes on
Answered(m) == post[m] = "live"
LateLook(m) ==
    /\ <<m, "asked">> \in late
    /\ late' = (late \ {<<m, "asked">>})
                  \cup IF Answered(m) THEN {} ELSE {<<m, "looked">>}
    /\ UNCHANGED <<post, version, rows, unpublished, inbox, stage, snap,
                   outbox, cached, task, replies, disturbed, events>>
LateStore(m) ==
    /\ <<m, "looked">> \in late
    /\ late' = late \ {<<m, "looked">>}
    /\ Store(m)
    /\ UNCHANGED <<version, inbox, stage, snap, outbox, cached, task,
                   replies, disturbed, events>>

\* an event goes out; the receiver of a connection that lags skips it
Publish(e) ==
    /\ e \in unpublished
    /\ unpublished' = unpublished \ {e}
    /\ \/ /\ inbox' = IF Subscribed THEN Append(inbox, e) ELSE inbox
          /\ disturbed' = IF stage \in {"fetched", "applied", "flushing"} \/ Overtakes(e)
                          THEN disturbed \cup {e.message} ELSE disturbed
          /\ UNCHANGED events
       \/ /\ Subscribed /\ Happens
          /\ disturbed' = disturbed \cup {e.message}
          /\ UNCHANGED inbox
    /\ UNCHANGED <<post, version, rows, late, stage, snap, outbox, cached,
                   task, replies>>

\* the author edits the message, on this device or on another one
Edit(m) ==
    /\ post[m] = "live" /\ Happens
    /\ version' = [version EXCEPT ![m] = @ + 1]
    /\ LET e == [kind |-> "update", message |-> m, version |-> version[m] + 1]
       IN  /\ unpublished' = unpublished \cup {e}
           /\ \/ UNCHANGED replies
              \/ cached[m].state = "shown" /\ replies' = replies \cup {e}
    /\ UNCHANGED <<post, rows, late, inbox, stage, snap, outbox, cached,
                   task, disturbed>>

\* the author or a moderator deletes it
Delete(m) ==
    /\ post[m] = "live" /\ Happens
    /\ post' = [post EXCEPT ![m] = "deleted"]
    /\ LET e == [kind |-> "delete", message |-> m, version |-> version[m]]
       IN  /\ unpublished' = unpublished \cup {e}
           /\ \/ UNCHANGED replies
              \/ cached[m].state = "shown" /\ replies' = replies \cup {e}
    /\ UNCHANGED <<version, rows, late, inbox, stage, snap, outbox, cached,
                   task, disturbed>>

-----------------------------------------------------------------------------
(* Delivering an entry *)

\* send_message: the row and the outbox entry, then a task that delivers it
Send(m) ==
    /\ entry[m] = "none" /\ m \notin sent
    /\ entry' = [entry EXCEPT ![m] = "pending"]
    /\ attempts' = [attempts EXCEPT ![m] = 0]
    /\ due' = [due EXCEPT ![m] = TRUE]
    /\ task' = [task EXCEPT ![m] = [Idle EXCEPT !.step = "asked", !.message = m]]
    /\ UNCHANGED <<server, inbox, stage, snap, cached, replies, sent,
                   disturbed, events>>

Busy(k) == task[k].step # "idle" \/ task[k].todo # {}

\* mutant: what failed once is not listed again
Pending_Untried ==
    {<<m, 0>> : m \in {n \in Messages : entry[n] = "pending" /\ due[n] /\ attempts[n] = 0}}

\* pending_messages: what may be tried now, with the attempts made so far
Pending == {<<m, attempts[m]>> : m \in {n \in Messages : entry[n] = "pending" /\ due[n]}}

\* the flush goes on with its next entry, as it was listed
Ask(k) ==
    /\ task[k].step = "idle"
    /\ \E next \in task[k].todo :
         task' = [task EXCEPT ![k] =
                    [Idle EXCEPT !.step = "asked", !.todo = task[k].todo \ {next},
                                 !.message = next[1], !.tried = next[2]]]
    /\ UNCHANGED <<server, inbox, stage, snap, outbox, cached, replies,
                   disturbed, events>>

Reply(k, step, v) == task' = [task EXCEPT ![k].step = step, ![k].version = v]
Quiet == UNCHANGED <<inbox, stage, snap, outbox, cached, replies, disturbed,
                     events>>

\* message_safety_context: a message that is there answers the request
Look(k) ==
    LET m == task[k].message
    IN  /\ task[k].step = "asked"
        /\ IF Answered(m) THEN Reply(k, "accepted", version[m]) ELSE Reply(k, "looked", 0)
        /\ UNCHANGED server /\ Quiet

Create(k) ==
    LET m == task[k].message
    IN  /\ task[k].step = "looked"
        /\ Store(m)
        /\ Reply(k, "accepted", version[m])
        /\ UNCHANGED <<version, late>> /\ Quiet

Finish(k) == task' = [task EXCEPT ![k] = [Idle EXCEPT !.todo = task[k].todo]]

\* mutant: the row is written afresh
Upsert_Undeletes(row, v) == [state |-> "shown", version |-> v]
\* upsert_message does not touch the flag of a row that was deleted
Upsert(row, v) ==
    [state |-> IF row.state = "deleted" THEN "deleted" ELSE "shown", version |-> v]

\* what is written is older than the server's row
Outdated(m, v) == cached[m].state # "deleted" /\ (post[m] = "deleted" \/ v # version[m])
Note(m, v) == disturbed' = IF Outdated(m, v) THEN disturbed \cup {m} ELSE disturbed

\* acknowledge_message: the temporary row and its entry give way to the server's row
Acknowledge(k) ==
    LET m == task[k].message
        v == task[k].version
    IN  /\ task[k].step = "accepted"
        /\ entry' = [entry EXCEPT ![m] = "none"]
        /\ attempts' = [attempts EXCEPT ![m] = 0]
        /\ due' = [due EXCEPT ![m] = FALSE]
        /\ sent' = sent \cup {m}
        /\ cached' = [cached EXCEPT ![m] = Upsert(@, v)]
        /\ Note(m, v)
        /\ Finish(k)
        /\ UNCHANGED <<server, inbox, stage, snap, replies, events>>

\* from MaxAttempts - 1 on every number of attempts decides the same
Count(n) == IF n + 1 < MaxAttempts THEN n + 1 ELSE MaxAttempts - 1
LastAttempt(tried) == tried + 1 >= MaxAttempts

\* mutant: an acknowledged message is marked failed by a slower attempt
Record_Blind(k, over) ==
    LET m == task[k].message
    IN  /\ attempts' = [attempts EXCEPT ![m] = Count(@)]
        /\ due' = [due EXCEPT ![m] = FALSE]
        /\ entry' = IF over THEN [entry EXCEPT ![m] = "failed"] ELSE entry
        /\ Finish(k)
        /\ UNCHANGED <<post, version, rows, unpublished, inbox, stage, snap, cached,
                       replies, sent, disturbed>>

\* record_attempt and mark_failed: an entry acknowledged meanwhile is left alone
Record(k, over) ==
    LET m == task[k].message
    IN  /\ IF entry[m] = "none" THEN UNCHANGED <<entry, attempts, due>>
           ELSE /\ attempts' = [attempts EXCEPT ![m] = Count(@)]
                /\ due' = [due EXCEPT ![m] = FALSE]
                /\ entry' = IF over THEN [entry EXCEPT ![m] = "failed"] ELSE entry
        /\ Finish(k)
        /\ UNCHANGED <<post, version, rows, unpublished, inbox, stage, snap,
                       cached, replies, sent, disturbed>>

\* the channel has left the cache, MLS has a lasting error, or the server says no
Refuse(k) ==
    /\ task[k].step \in {"asked", "looked"}
    /\ Record(k, TRUE)
    /\ UNCHANGED <<late, events>>

\* an error that may pass: before the request, in the server or on the way back;
\* the server may go on with what it was asked
Fail(k) ==
    /\ task[k].step \in {"asked", "looked", "accepted"}
    /\ Record(k, LastAttempt(task[k].tried))
    /\ \/ UNCHANGED <<late, events>>
       \/ /\ task[k].step # "accepted" /\ Happens
          /\ late' = late \cup {<<task[k].message, task[k].step>>}

\* the back-off of an entry passes
CoolDown(m) ==
    /\ entry[m] = "pending" /\ ~due[m]
    /\ due' = [due EXCEPT ![m] = TRUE]
    /\ UNCHANGED <<server, inbox, stage, snap, entry, attempts, sent, cached,
                   task, replies, disturbed, events>>

\* retry_outbox: requeue_failed_messages forgets the attempts of everything it finds
\* pending or failed, and a flush follows
Requeue ==
    /\ ~Busy(Retry) /\ Happens
    /\ entry' = [m \in Messages |-> IF entry[m] = "failed" THEN "pending" ELSE entry[m]]
    /\ attempts' = [m \in Messages |-> 0]
    /\ due' = [m \in Messages |-> entry[m] # "none"]
    /\ task' = [task EXCEPT ![Retry].todo =
                  {<<m, 0>> : m \in {n \in Messages : entry[n] # "none"}}]
    /\ UNCHANGED <<server, inbox, stage, snap, sent, cached, replies,
                   disturbed>>

-----------------------------------------------------------------------------
(* The synchronization loop *)

Rest == UNCHANGED <<server, outbox, replies>>

Snapshot == [m \in Messages |-> IF post[m] = "live"
                                THEN [state |-> "shown", version |-> version[m]]
                                ELSE NoRow]

\* fetch_sync; what was missed before is in the answer
Fetch ==
    /\ stage = "offline" /\ stage' = "fetched"
    /\ snap' = Snapshot
    /\ disturbed' = {m \in disturbed : \E e \in unpublished : e.message = m}
    /\ UNCHANGED <<inbox, cached, task, events>> /\ Rest

\* apply_remote_snapshot replaces every row that came from the server
Replace ==
    /\ cached' = snap
    /\ snap' = [m \in Messages |-> NoRow]

Apply ==
    /\ stage = "fetched" /\ stage' = "applied"
    /\ Replace
    /\ UNCHANGED <<inbox, task, disturbed, events>> /\ Rest

Flush ==
    /\ stage = "applied" /\ stage' = "flushing"
    /\ task' = [task EXCEPT ![Loop].todo = Pending]
    /\ UNCHANGED <<inbox, snap, cached, disturbed, events>> /\ Rest

\* connect_gateway: what was published before is never heard
Connect ==
    /\ stage = "flushing" /\ ~Busy(Loop)
    /\ stage' = "connected" /\ inbox' = <<>>
    /\ UNCHANGED <<snap, cached, task, disturbed, events>> /\ Rest

Handle ==
    LET e == Head(inbox)
        m == e.message
    IN  /\ stage = "connected" /\ ~Busy(Loop) /\ inbox # <<>>
        /\ inbox' = Tail(inbox)
        /\ \/ /\ e.kind # "delete"
              /\ cached' = [cached EXCEPT ![m] = Upsert(@, e.version)]
              /\ UNCHANGED disturbed
           \* a message this device cannot decrypt, its own among them, is passed over
           \/ /\ e.kind # "delete"
              /\ disturbed' = disturbed \cup {m}
              /\ UNCHANGED cached
           \/ /\ e.kind = "delete"
              /\ cached' = IF cached[m].state = "none" THEN cached
                           ELSE [cached EXCEPT ![m].state = "deleted"]
              /\ UNCHANGED disturbed
        /\ UNCHANGED <<stage, snap, task, events>> /\ Rest

\* the maintenance tick
Maintain ==
    /\ stage = "connected" /\ ~Busy(Loop) /\ Pending # {}
    /\ task' = [task EXCEPT ![Loop].todo = Pending]
    /\ UNCHANGED <<inbox, stage, snap, cached, disturbed, events>> /\ Rest

\* a change of servers, channels or friends is answered by a full synchronization
Refetch ==
    /\ stage = "connected" /\ ~Busy(Loop) /\ stage' = "refetched"
    /\ snap' = Snapshot
    /\ UNCHANGED <<inbox, cached, task, disturbed, events>> /\ Rest

Reapply ==
    /\ stage = "refetched" /\ stage' = "connected"
    /\ Replace
    /\ UNCHANGED <<inbox, task, disturbed, events>> /\ Rest

\* the connection, or the request in its place, breaks
Disconnect ==
    /\ stage \in {"flushing", "connected", "refetched"} /\ ~Busy(Loop)
    /\ Happens
    /\ stage' = "offline" /\ inbox' = <<>>
    /\ snap' = [m \in Messages |-> NoRow]
    /\ UNCHANGED <<cached, task, disturbed>> /\ Rest

\* the process ends and starts again: the store survives, tasks do not
Restart ==
    /\ Happens
    /\ stage' = "offline" /\ inbox' = <<>>
    /\ snap' = [m \in Messages |-> NoRow]
    /\ task' = [k \in Tasks |-> Idle]
    /\ replies' = {}
    /\ \E cut \in SUBSET {<<task[k].message, task[k].step>> :
                              k \in {j \in Tasks : task[j].step \in {"asked", "looked"}}} :
         late' = late \cup cut
    /\ UNCHANGED <<post, version, rows, unpublished, outbox, cached,
                   disturbed>>

\* edit_message and delete_message write what the server answered
ApplyReply(e) ==
    LET m == e.message
    IN  /\ e \in replies
        /\ replies' = replies \ {e}
        /\ IF e.kind = "update"
           THEN /\ cached' = [cached EXCEPT ![m] = Upsert(@, e.version)]
                /\ Note(m, e.version)
           ELSE /\ cached' = IF cached[m].state = "none" THEN cached
                             ELSE [cached EXCEPT ![m].state = "deleted"]
                /\ UNCHANGED disturbed
        /\ UNCHANGED <<server, inbox, stage, snap, outbox, task, events>>

-----------------------------------------------------------------------------
Deliver(k) == Ask(k) \/ Look(k) \/ Create(k) \/ Acknowledge(k) \/ Refuse(k) \/ Fail(k)

Next ==
    \/ \E m \in Messages : Send(m) \/ Edit(m) \/ Delete(m) \/ CoolDown(m)
                              \/ LateLook(m) \/ LateStore(m)
    \/ \E e \in unpublished : Publish(e)
    \/ \E e \in replies : ApplyReply(e)
    \/ \E k \in Tasks : Deliver(k)
    \/ Requeue
    \/ Fetch \/ Apply \/ Flush \/ Connect \/ Handle \/ Maintain \/ Refetch \/ Reapply
    \/ Disconnect \/ Restart

Spec == Init /\ [][Next]_vars

(***************************************************************************)
(* Tasks run to their end: requests have a timeout, the loop reconnects    *)
(* until it succeeds, a back-off passes.  The tick of the maintenance      *)
(* interval waits until select! takes it, however many events arrive.      *)
(***************************************************************************)
Fairness ==
    /\ \A k \in Tasks : WF_vars(Deliver(k))
    /\ \A m \in Messages : WF_vars(CoolDown(m))
    /\ WF_vars(Fetch) /\ WF_vars(Apply) /\ WF_vars(Flush) /\ WF_vars(Connect)
    /\ WF_vars(Reapply)
    /\ SF_vars(Maintain)

FairSpec == Spec /\ Fairness

-----------------------------------------------------------------------------
(***************************************************************************)
(* The outbox keeps the promise of ExactlyOnceChannel, whatever is lost,   *)
(* late or tried by several tasks at once.                                 *)
(***************************************************************************)
status == [m \in Messages |-> IF m \in sent THEN "sent"
                              ELSE IF entry[m] = "none" THEN "new" ELSE entry[m]]

Channel == INSTANCE ExactlyOnceChannel WITH posts <- rows

\* every attempt at a nonce together posts one message, and only what was posted
\* is acknowledged (deliver_message, create_message_payload)
ExactlyOnce == Channel!Spec

\* while connected and with nothing left to handle, the cached row of a message is
\* the server's, unless an event of it fell between the snapshot and the
\* subscription, was skipped, overtaken or unreadable here, or an old reply was
\* written last (apply_gateway_event, apply_remote_snapshot)
CacheFollowsServer ==
    \A m \in Messages \ disturbed :
        (/\ stage = "connected" /\ inbox = <<>>
         /\ \A e \in unpublished : e.message # m)
        => /\ cached[m].state = "shown" <=> post[m] = "live"
           /\ post[m] = "live" => cached[m].version = version[m]

\* no message stays pending for ever: it is delivered, or the user is told it
\* failed, although the process restarts and connections break (flush_outbox)
PendingSettles == \A m \in Messages : entry[m] = "pending" ~> entry[m] # "pending"

=============================================================================
