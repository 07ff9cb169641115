----------------------- MODULE MessageDeliveryProofs -----------------------
(* Theorems about MessageDelivery, for any messages, attempts and events. *)
EXTENDS MessageDelivery, TLAPS

USE TasksAssumption, AttemptsAssumption, EventsAssumption DEF Tasks

\* TypeOK in three parts: the server, the client's stores, and its tasks.
ServerOK ==
    /\ post \in [Messages -> {"absent", "live", "deleted"}]
    /\ version \in [Messages -> Version]
    /\ rows \in [Messages -> Nat]
    /\ unpublished \subseteq Event
    /\ late \subseteq Messages \X {"asked", "looked"}
    /\ events \in 0 .. MaxEvents
    /\ \A m \in Messages : version[m] <= events
ClientOK ==
    /\ inbox \in Seq(Event)
    /\ stage \in {"offline", "fetched", "applied", "flushing", "connected", "refetched"}
    /\ snap \in [Messages -> Row]
    /\ entry \in [Messages -> {"none", "pending", "failed"}]
    /\ attempts \in [Messages -> Attempts]
    /\ due \in [Messages -> BOOLEAN]
    /\ cached \in [Messages -> Row]
    /\ replies \subseteq Event
    /\ sent \subseteq {m \in Messages : entry[m] = "none"}
    /\ disturbed \subseteq Messages
TasksOK == task \in [Tasks -> Task]

LEMMA TypeOKParts == TypeOK <=> ServerOK /\ ClientOK /\ TasksOK
BY DEF TypeOK, ServerOK, ClientOK, TasksOK

LEMMA IdleOK == Idle \in Task /\ Idle.step = "idle" /\ Idle.todo = {}
<1>1. \E m \in Messages : TRUE
  BY TasksAssumption
<1>2. (CHOOSE m \in Messages : TRUE) \in Messages
  BY <1>1
<1>3. 0 \in Attempts /\ 0 \in Version
  BY DEF Attempts, Version
<1>4. QED
  BY <1>2, <1>3 DEF Idle, Task, Steps

LEMMA NoRowOK == NoRow \in Row
BY DEF NoRow, Row, Version

LEMMA InitTypeOK == Init => TypeOK
<1> SUFFICES ASSUME Init PROVE TypeOK
  OBVIOUS
<1>1. ServerOK
  BY DEF Init, ServerOK, Version
<1>2. ClientOK
  BY NoRowOK DEF Init, ClientOK, Attempts
<1>3. TasksOK
  BY IdleOK DEF Init, TasksOK
<1>4. QED
  BY <1>1, <1>2, <1>3, TypeOKParts

\* What the server does with a request keeps its rows well typed.
LEMMA StoreOK ==
  ASSUME ServerOK, NEW m \in Messages, Store(m), UNCHANGED <<version, events>>,
         late' \subseteq Messages \X {"asked", "looked"}
  PROVE  ServerOK'
<1>1. [kind |-> "create", message |-> m, version |-> 0] \in Event
  BY DEF Event, Version
<1>2. CASE post[m] = "absent"
  BY <1>1, <1>2 DEF Store, ServerOK
<1>3. CASE post[m] # "absent"
  BY <1>3 DEF Store, ServerOK
<1>4. QED
  BY <1>2, <1>3

LEMMA UpsertOK ==
  ASSUME NEW row, NEW v \in Version PROVE Upsert(row, v) \in Row
BY DEF Upsert, Row

LEMMA PendingOK == ASSUME ClientOK PROVE Pending \subseteq Messages \X Attempts
BY DEF ClientOK, Pending

LEMMA SnapshotOK == ASSUME ServerOK PROVE Snapshot \in [Messages -> Row]
BY NoRowOK DEF ServerOK, Snapshot, Row

\* Every step keeps the server's part of the types.
LEMMA NextServerOK == ASSUME TypeOK, [Next]_vars PROVE ServerOK'
<1>0. ServerOK /\ ClientOK /\ TasksOK
  BY TypeOKParts
<1>1. ASSUME UNCHANGED <<server, events>> PROVE ServerOK'
  BY <1>0, <1>1 DEF ServerOK, server
<1>2. ASSUME UNCHANGED server, Happens PROVE ServerOK'
  BY <1>0, <1>2 DEF ServerOK, server, Happens, Version
<1>3. ASSUME NEW m \in Messages, Edit(m) PROVE ServerOK'
  <2>1. version[m] + 1 \in Version /\ events + 1 \in 0 .. MaxEvents
    BY <1>0, <1>3 DEF Edit, Happens, ServerOK, Version
  <2>2. [kind |-> "update", message |-> m, version |-> version[m] + 1] \in Event
    BY <2>1 DEF Event
  <2>3. \A n \in Messages : version'[n] <= events'
    BY <1>0, <1>3 DEF Edit, Happens, ServerOK, Version
  <2>4. QED
    BY <1>0, <1>3, <2>1, <2>2, <2>3 DEF Edit, Happens, ServerOK
<1>4. ASSUME NEW m \in Messages, Delete(m) PROVE ServerOK'
  <2>1. [kind |-> "delete", message |-> m, version |-> version[m]] \in Event
    BY <1>0 DEF Event, ServerOK
  <2>2. \A n \in Messages : version[n] <= events + 1
    BY <1>0 DEF ServerOK, Version
  <2>3. QED
    BY <1>0, <1>4, <2>1, <2>2 DEF Delete, Happens, ServerOK
<1>5. ASSUME NEW m \in Messages, LateLook(m) PROVE ServerOK'
  BY <1>0, <1>5 DEF LateLook, ServerOK
<1>6. ASSUME NEW m \in Messages, LateStore(m) PROVE ServerOK'
  <2>1. late' \subseteq Messages \X {"asked", "looked"}
    BY <1>0, <1>6 DEF LateStore, ServerOK
  <2>2. QED
    BY <1>0, <1>6, <2>1, StoreOK DEF LateStore
<1>7. ASSUME NEW e \in unpublished, Publish(e) PROVE ServerOK'
  BY <1>0, <1>7 DEF Publish, Happens, ServerOK, Version
<1>8. ASSUME NEW k \in Tasks, Create(k) PROVE ServerOK'
  <2>1. task[k].message \in Messages
    BY <1>0 DEF TasksOK, Task
  <2>2. QED
    BY <1>0, <1>8, <2>1, StoreOK DEF Create, Quiet, ServerOK
<1>9. ASSUME NEW k \in Tasks, Refuse(k) PROVE ServerOK'
  BY <1>1, <1>9 DEF Refuse, Record, server
<1>10. ASSUME NEW k \in Tasks, Fail(k) PROVE ServerOK'
  <2>1. task[k] \in Task
    BY <1>0 DEF TasksOK
  <2>2. UNCHANGED <<post, version, rows, unpublished>>
    BY <1>10 DEF Fail, Record
  <2>3. CASE UNCHANGED <<late, events>>
    BY <1>1, <2>2, <2>3 DEF server
  <2>4. CASE task[k].step # "accepted" /\ Happens
             /\ late' = late \cup {<<task[k].message, task[k].step>>}
    <3>1. <<task[k].message, task[k].step>> \in Messages \X {"asked", "looked"}
      BY <1>10, <2>1, <2>4 DEF Fail, Task, Steps
    <3>2. QED
      BY <1>0, <2>2, <2>4, <3>1 DEF ServerOK, Happens, Version
  <2>5. QED
    BY <1>10, <2>3, <2>4 DEF Fail
<1>11. ASSUME Restart PROVE ServerOK'
  <2>1. \A k \in Tasks : task[k] \in Task
    BY <1>0 DEF TasksOK
  <2>2. {<<task[k].message, task[k].step>> :
           k \in {j \in Tasks : task[j].step \in {"asked", "looked"}}}
          \subseteq Messages \X {"asked", "looked"}
    BY <2>1 DEF Task
  <2>3. late' \subseteq Messages \X {"asked", "looked"}
    BY <1>0, <1>11, <2>2 DEF Restart, ServerOK
  <2>4. QED
    BY <1>0, <1>11, <2>3 DEF Restart, Happens, ServerOK, Version
<1>12. ASSUME NEW k \in Tasks, Ask(k) \/ Look(k) \/ Acknowledge(k) PROVE ServerOK'
  BY <1>1, <1>12 DEF Ask, Look, Quiet, Acknowledge
<1>13. ASSUME NEW m \in Messages, Send(m) \/ CoolDown(m) PROVE ServerOK'
  BY <1>1, <1>13 DEF Send, CoolDown
<1>14. ASSUME NEW e \in replies, ApplyReply(e) PROVE ServerOK'
  BY <1>1, <1>14 DEF ApplyReply
<1>15. ASSUME Requeue \/ Disconnect PROVE ServerOK'
  BY <1>2, <1>15 DEF Requeue, Disconnect, Rest
<1>16. ASSUME Fetch \/ Apply \/ Flush \/ Connect \/ Handle \/ Maintain \/ Refetch \/ Reapply
       PROVE  ServerOK'
  BY <1>1, <1>16 DEF Fetch, Apply, Flush, Connect, Handle, Maintain, Refetch, Reapply, Rest
<1>17. CASE UNCHANGED vars
  BY <1>1, <1>17 DEF vars
<1>18. QED
  BY <1>3, <1>4, <1>5, <1>6, <1>7, <1>8, <1>9, <1>10, <1>11, <1>12, <1>13, <1>14, <1>15,
     <1>16, <1>17 DEF Next, Deliver

\* Every step keeps the tasks well typed.
LEMMA NextTasksOK == ASSUME TypeOK, [Next]_vars PROVE TasksOK'
<1>0. ServerOK /\ ClientOK /\ TasksOK
  BY TypeOKParts
<1>1. ASSUME NEW k \in Tasks, NEW t \in Task, task' = [task EXCEPT ![k] = t] PROVE TasksOK'
  BY <1>0, <1>1 DEF TasksOK
<1>2. ASSUME NEW k \in Tasks PROVE task[k] \in Task
  BY <1>0 DEF TasksOK
<1>3. ASSUME NEW k \in Tasks, Finish(k) PROVE TasksOK'
  <2>1. [Idle EXCEPT !.todo = task[k].todo] \in Task
    BY <1>2, IdleOK DEF Task
  <2>2. QED
    BY <1>1, <1>3, <2>1 DEF Finish
<1>4. ASSUME NEW k \in Tasks, NEW step \in Steps, NEW v \in Version, Reply(k, step, v)
      PROVE  TasksOK'
  <2>1. [task[k] EXCEPT !.step = step, !.version = v] \in Task
    <3>1. [task[k] EXCEPT !.step = step] \in Task
      BY <1>2 DEF Task
    <3>2. [[task[k] EXCEPT !.step = step] EXCEPT !.version = v] \in Task
      BY <3>1 DEF Task
    <3>3. [task[k] EXCEPT !.step = step, !.version = v]
            = [[task[k] EXCEPT !.step = step] EXCEPT !.version = v]
      BY <1>2 DEF Task
    <3>4. QED
      BY <3>2, <3>3
  <2>2. task' = [task EXCEPT ![k] = [task[k] EXCEPT !.step = step, !.version = v]]
    BY <1>0, <1>4 DEF Reply, TasksOK
  <2>3. QED
    BY <1>1, <2>1, <2>2
<1>5. ASSUME NEW k \in Tasks, NEW todo \in SUBSET (Messages \X Attempts),
             task' = [task EXCEPT ![k].todo = todo]
      PROVE  TasksOK'
  <2>1. [task[k] EXCEPT !.todo = todo] \in Task
    BY <1>2 DEF Task
  <2>2. task' = [task EXCEPT ![k] = [task[k] EXCEPT !.todo = todo]]
    BY <1>5
  <2>3. QED
    BY <1>1, <2>1, <2>2
<1>6. ASSUME task' = task PROVE TasksOK'
  BY <1>0, <1>6 DEF TasksOK
<1>7. ASSUME NEW m \in Messages, Send(m) PROVE TasksOK'
  <2>1. [Idle EXCEPT !.step = "asked", !.message = m] \in Task
    BY IdleOK DEF Task, Steps
  <2>2. QED
    BY <1>1, <1>7, <2>1 DEF Send
<1>8. ASSUME NEW k \in Tasks, Ask(k) PROVE TasksOK'
  <2>1. PICK next \in task[k].todo :
          task' = [task EXCEPT ![k] =
                     [Idle EXCEPT !.step = "asked", !.todo = task[k].todo \ {next},
                                  !.message = next[1], !.tried = next[2]]]
    BY <1>8 DEF Ask
  <2>2. next[1] \in Messages /\ next[2] \in Attempts
        /\ task[k].todo \ {next} \subseteq Messages \X Attempts
    BY <1>2 DEF Task
  <2>3. [Idle EXCEPT !.step = "asked", !.todo = task[k].todo \ {next},
                     !.message = next[1], !.tried = next[2]] \in Task
    BY <2>2, IdleOK DEF Task, Steps
  <2>4. QED
    BY <1>1, <2>1, <2>3
<1>9. ASSUME NEW k \in Tasks, Look(k) \/ Create(k) PROVE TasksOK'
  <2>1. version[task[k].message] \in Version /\ 0 \in Version
    BY <1>0, <1>2 DEF ServerOK, Task, Version
  <2>2. \E step \in {"accepted", "looked"}, v \in Version : Reply(k, step, v)
    BY <1>9, <2>1 DEF Look, Create
  <2>3. QED
    BY <1>4, <2>2 DEF Steps
<1>10. ASSUME NEW k \in Tasks, Acknowledge(k) \/ Refuse(k) \/ Fail(k) PROVE TasksOK'
  BY <1>3, <1>10 DEF Acknowledge, Refuse, Fail, Record
<1>11. CASE Requeue
  <2>1. 0 \in Attempts
    BY DEF Attempts
  <2>2. {<<m, 0>> : m \in {n \in Messages : entry[n] # "none"}} \in SUBSET (Messages \X Attempts)
    BY <2>1
  <2>3. QED
    BY <1>5, <1>11, <2>2 DEF Requeue
<1>12. CASE Flush \/ Maintain
  BY <1>0, <1>5, <1>12, PendingOK DEF Flush, Maintain
<1>13. CASE Restart
  BY <1>13, IdleOK DEF Restart, TasksOK
<1>14. ASSUME NEW m \in Messages, Edit(m) \/ Delete(m) \/ CoolDown(m) \/ LateLook(m) \/ LateStore(m)
       PROVE  TasksOK'
  BY <1>6, <1>14 DEF Edit, Delete, CoolDown, LateLook, LateStore
<1>15. ASSUME NEW e, Publish(e) \/ ApplyReply(e) PROVE TasksOK'
  BY <1>6, <1>15 DEF Publish, ApplyReply
<1>16. CASE Fetch \/ Apply \/ Connect \/ Handle \/ Refetch \/ Reapply \/ Disconnect
            \/ UNCHANGED vars
  BY <1>6, <1>16 DEF Fetch, Apply, Connect, Handle, Refetch, Reapply, Disconnect, vars
<1>17. QED
  BY <1>7, <1>8, <1>9, <1>10, <1>11, <1>12, <1>13, <1>14, <1>15, <1>16 DEF Next, Deliver

\* Every step keeps the client's stores well typed.
LEMMA NextClientOK == ASSUME TypeOK, [Next]_vars PROVE ClientOK'
<1>0. ServerOK /\ ClientOK /\ TasksOK
  BY TypeOKParts
<1>1. ASSUME NEW k \in Tasks PROVE task[k] \in Task /\ task[k].message \in Messages
  BY <1>0 DEF TasksOK, Task
<1>2. ASSUME UNCHANGED <<inbox, stage, snap, outbox, cached, replies, disturbed>>
      PROVE  ClientOK'
  BY <1>0, <1>2 DEF ClientOK, outbox
<1>3. ASSUME UNCHANGED outbox, snap' = snap \/ snap' = [m \in Messages |-> NoRow] \/ snap' = Snapshot,
             cached' = cached \/ cached' = snap,
             inbox' = inbox \/ inbox' = <<>>, disturbed' \subseteq disturbed,
             replies' \subseteq replies,
             stage' \in {"offline", "fetched", "applied", "flushing", "connected", "refetched"}
      PROVE  ClientOK'
  <2>1. snap' \in [Messages -> Row] /\ cached' \in [Messages -> Row]
    BY <1>0, <1>3, NoRowOK, SnapshotOK DEF ClientOK
  <2>2. <<>> \in Seq(Event)
    OBVIOUS
  <2>3. inbox' \in Seq(Event)
    BY <1>0, <1>3, <2>2 DEF ClientOK
  <2>4. QED
    BY <1>0, <1>3, <2>1, <2>3 DEF ClientOK, outbox
<1>4. ASSUME NEW m \in Messages, Send(m) PROVE ClientOK'
  BY <1>0, <1>4 DEF Send, ClientOK, Attempts
<1>5. ASSUME NEW m \in Messages, CoolDown(m) PROVE ClientOK'
  BY <1>0, <1>5 DEF CoolDown, ClientOK
<1>6. ASSUME NEW k \in Tasks, Acknowledge(k) PROVE ClientOK'
  <2> DEFINE m == task[k].message
             v == task[k].version
  <2>1. m \in Messages /\ v \in Version
    BY <1>1 DEF Task
  <2>2. cached' \in [Messages -> Row]
    BY <1>0, <1>6, <2>1, UpsertOK DEF Acknowledge, ClientOK
  <2>3. disturbed' \subseteq Messages
    BY <1>0, <1>6, <2>1 DEF Acknowledge, Note, ClientOK
  <2>4. QED
    BY <1>0, <1>6, <2>1, <2>2, <2>3 DEF Acknowledge, ClientOK, Attempts
<1>7. ASSUME NEW k \in Tasks, NEW over \in BOOLEAN, Record(k, over) PROVE ClientOK'
  <2> DEFINE m == task[k].message
  <2>1. m \in Messages
    BY <1>1
  <2>2. UNCHANGED <<inbox, stage, snap, cached, replies, sent, disturbed>>
    BY <1>7 DEF Record
  <2>3. CASE entry[m] = "none"
    BY <1>0, <1>7, <2>2, <2>3 DEF Record, ClientOK
  <2>4. CASE entry[m] # "none"
    <3>1. Count(attempts[m]) \in Attempts
      BY <1>0, <2>1 DEF ClientOK, Count, Attempts
    <3>2. m \notin sent
      BY <1>0, <2>4 DEF ClientOK
    <3>7. attempts' = [attempts EXCEPT ![m] = Count(@)] /\ due' = [due EXCEPT ![m] = FALSE]
      BY <1>7, <2>4 DEF Record
    <3>8. due' \in [Messages -> BOOLEAN]
      BY <1>0, <3>7 DEF ClientOK
    <3>3. attempts' \in [Messages -> Attempts] /\ due' \in [Messages -> BOOLEAN]
      BY <1>0, <2>1, <3>1, <3>7, <3>8 DEF ClientOK
    <3>4. /\ entry' \in [Messages -> {"none", "pending", "failed"}]
          /\ \A n \in Messages \ {m} : entry'[n] = entry[n]
      BY <1>0, <1>7, <2>1, <2>4 DEF Record, ClientOK
    <3>5. sent \subseteq {n \in Messages : entry'[n] = "none"}
      BY <1>0, <3>2, <3>4 DEF ClientOK
    <3>6. QED
      BY <1>0, <2>2, <3>3, <3>4, <3>5 DEF ClientOK
  <2>5. QED
    BY <2>3, <2>4
<1>8. ASSUME NEW k \in Tasks, Refuse(k) \/ Fail(k) PROVE ClientOK'
  <2>1. LastAttempt(task[k].tried) \in BOOLEAN
    BY DEF LastAttempt
  <2>2. QED
    BY <1>7, <1>8, <2>1 DEF Refuse, Fail
<1>9. CASE Requeue
  BY <1>0, <1>9 DEF Requeue, ClientOK, Attempts
<1>10. ASSUME NEW e \in unpublished, Publish(e) PROVE ClientOK'
  <2>1. e \in Event /\ e.message \in Messages
    BY <1>0 DEF ServerOK, Event
  <2>2. inbox' \in Seq(Event)
    BY <1>0, <1>10, <2>1 DEF Publish, ClientOK
  <2>3. disturbed' \subseteq Messages
    BY <1>0, <1>10, <2>1 DEF Publish, ClientOK
  <2>4. QED
    BY <1>0, <1>10, <2>2, <2>3 DEF Publish, ClientOK, outbox
<1>11. ASSUME NEW m \in Messages, Edit(m) PROVE ClientOK'
  <2>1. version[m] + 1 \in Version
    BY <1>0, <1>11 DEF Edit, Happens, ServerOK, Version
  <2>2. [kind |-> "update", message |-> m, version |-> version[m] + 1] \in Event
    BY <2>1 DEF Event
  <2>3. QED
    BY <1>0, <1>11, <2>2 DEF Edit, ClientOK, outbox
<1>12. ASSUME NEW m \in Messages, Delete(m) PROVE ClientOK'
  <2>1. [kind |-> "delete", message |-> m, version |-> version[m]] \in Event
    BY <1>0 DEF Event, ServerOK
  <2>2. QED
    BY <1>0, <1>12, <2>1 DEF Delete, ClientOK, outbox
<1>13. ASSUME NEW m \in Messages, NEW v \in Version,
              \/ cached' = cached
              \/ cached' = [cached EXCEPT ![m] = Upsert(@, v)]
              \/ cached' = [cached EXCEPT ![m].state = "deleted"]
       PROVE  cached' \in [Messages -> Row]
  <2>1. cached \in [Messages -> Row] /\ cached[m] \in Row
    BY <1>0 DEF ClientOK
  <2>2. Upsert(cached[m], v) \in Row
    BY UpsertOK
  <2>3. [cached[m] EXCEPT !.state = "deleted"] \in Row
    BY <2>1 DEF Row
  <2>4. [cached EXCEPT ![m].state = "deleted"]
          = [cached EXCEPT ![m] = [cached[m] EXCEPT !.state = "deleted"]]
    BY <2>1
  <2>5. QED
    BY <1>13, <2>1, <2>2, <2>3, <2>4
<1>14. ASSUME NEW e \in replies, ApplyReply(e) PROVE ClientOK'
  <2>1. e \in Event /\ e.message \in Messages /\ e.version \in Version
    BY <1>0 DEF ClientOK, Event
  <2>2. cached' \in [Messages -> Row]
    BY <1>13, <1>14, <2>1 DEF ApplyReply
  <2>3. disturbed' \subseteq Messages
    BY <1>0, <1>14, <2>1 DEF ApplyReply, Note, ClientOK
  <2>4. QED
    BY <1>0, <1>14, <2>2, <2>3 DEF ApplyReply, ClientOK, outbox
<1>15. CASE Handle
  <2> DEFINE e == Head(inbox)
  <2>1. e \in Event /\ e.message \in Messages /\ e.version \in Version
        /\ Tail(inbox) \in Seq(Event)
    <3>1. inbox \in Seq(Event) /\ inbox # <<>>
      BY <1>0, <1>15 DEF Handle, ClientOK
    <3>2. e \in Event /\ Tail(inbox) \in Seq(Event)
      BY <3>1
    <3>3. QED
      BY <3>2 DEF Event
  <2>2. cached' \in [Messages -> Row]
    BY <1>13, <1>15, <2>1 DEF Handle
  <2>3. disturbed' \subseteq Messages
    BY <1>0, <1>15, <2>1 DEF Handle, ClientOK
  <2>4. QED
    BY <1>0, <1>15, <2>1, <2>2, <2>3 DEF Handle, Rest, ClientOK, outbox
<1>16. CASE Fetch \/ Apply \/ Flush \/ Connect \/ Refetch \/ Reapply \/ Disconnect \/ Restart
  BY <1>0, <1>3, <1>16
     DEF Fetch, Apply, Flush, Connect, Refetch, Reapply, Disconnect, Restart, Replace, Rest, ClientOK
<1>17. CASE Maintain \/ UNCHANGED vars
  BY <1>2, <1>17 DEF Maintain, Rest, vars
<1>18. ASSUME NEW m \in Messages, LateLook(m) \/ LateStore(m) PROVE ClientOK'
  BY <1>2, <1>18 DEF LateLook, LateStore
<1>19. ASSUME NEW k \in Tasks, Ask(k) \/ Look(k) \/ Create(k) PROVE ClientOK'
  BY <1>2, <1>19 DEF Ask, Look, Create, Quiet
<1>20. QED
  BY <1>4, <1>5, <1>6, <1>8, <1>9, <1>10, <1>11, <1>12, <1>14, <1>15, <1>16, <1>17, <1>18,
     <1>19 DEF Next, Deliver

\* Every reachable state is well typed: in particular an acknowledged message has
\* no temporary row and no outbox entry left (acknowledge_message, mark_failed).
THEOREM TypeCorrect == Spec => []TypeOK
<1>1. TypeOK /\ [Next]_vars => TypeOK'
  BY NextServerOK, NextTasksOK, NextClientOK, TypeOKParts DEF TypeOK, ServerOK, ClientOK, TasksOK
<1>2. QED
  BY InitTypeOK, <1>1, PTL DEF Spec

-----------------------------------------------------------------------------
(***************************************************************************)
(* The outbox implements ExactlyOnceChannel.  The strengthening says where *)
(* requests come from and what an answer means: whatever is delivered, or  *)
(* still to be delivered, was sent; a reply and an acknowledgement exist   *)
(* only of a message that has its row; a row is inserted once.             *)
(***************************************************************************)
Known == {m \in Messages : entry[m] # "none" \/ m \in sent}
Posted == {m \in Messages : post[m] # "absent"}
ServerLinked ==
    /\ \A m \in Messages : rows[m] = IF m \in Posted THEN 1 ELSE 0
    /\ \A m \in sent : m \in Posted
    /\ \A r \in late : r[1] \in Known
TasksLinked ==
    \A k \in Tasks :
        /\ task[k].step # "idle" => task[k].message \in Known
        /\ task[k].step = "accepted" => task[k].message \in Posted
        /\ \A r \in task[k].todo : r[1] \in Known

\* What has been sent stays sent, and what has been posted stays posted.
LEMMA KnownStays ==
  ASSUME TypeOK, [Next]_vars, NEW m \in Messages, m \in Known PROVE m \in Known'
<1>0. ServerOK /\ ClientOK /\ TasksOK
  BY TypeOKParts
<1>1. ASSUME UNCHANGED outbox PROVE m \in Known'
  BY <1>1 DEF Known, outbox
<1>2. ASSUME NEW n \in Messages, Send(n) PROVE m \in Known'
  BY <1>0, <1>2 DEF Send, Known, ClientOK
<1>3. ASSUME NEW k \in Tasks, Acknowledge(k) PROVE m \in Known'
  BY <1>0, <1>3 DEF Acknowledge, Known, ClientOK
<1>4. ASSUME NEW k \in Tasks, NEW over, Record(k, over) PROVE m \in Known'
  BY <1>0, <1>4 DEF Record, Known, ClientOK
<1>5. CASE Requeue
  BY <1>0, <1>5 DEF Requeue, Known, ClientOK
<1>6. ASSUME NEW n \in Messages, CoolDown(n) PROVE m \in Known'
  BY <1>6 DEF CoolDown, Known
<1>7. ASSUME NEW n, Edit(n) \/ Delete(n) \/ LateLook(n) \/ LateStore(n) \/ Publish(n)
                      \/ ApplyReply(n) \/ Ask(n) \/ Look(n) \/ Create(n)
      PROVE  m \in Known'
  BY <1>1, <1>7 DEF Edit, Delete, LateLook, LateStore, Publish, ApplyReply, Ask, Look, Create, Quiet
<1>8. CASE Fetch \/ Apply \/ Flush \/ Connect \/ Handle \/ Maintain \/ Refetch \/ Reapply
            \/ Disconnect \/ Restart \/ UNCHANGED vars
  BY <1>1, <1>8 DEF Fetch, Apply, Flush, Connect, Handle, Maintain, Refetch, Reapply, Disconnect,
                    Restart, Rest, vars
<1>9. QED
  BY <1>2, <1>3, <1>4, <1>5, <1>6, <1>7, <1>8 DEF Next, Deliver, Refuse, Fail

\* What a step does to the server's rows.
LEMMA RowsStep ==
  ASSUME TypeOK, [Next]_vars
  PROVE  \/ UNCHANGED <<post, rows>>
         \/ \E m \in Messages : Store(m) /\ (<<m, "looked">> \in late
                \/ \E k \in Tasks : Create(k) /\ task[k].message = m)
         \/ \E m \in Messages : Delete(m)
<1>0. \A k \in Tasks : task[k].message \in Messages
  BY TypeOKParts DEF TasksOK, Task
<1>1. ASSUME NEW k \in Tasks, Create(k)
      PROVE  \E m \in Messages : Store(m) /\ \E j \in Tasks : Create(j) /\ task[j].message = m
  BY <1>0, <1>1 DEF Create
<1>2. ASSUME NEW m \in Messages, LateStore(m) PROVE Store(m) /\ <<m, "looked">> \in late
  BY <1>2 DEF LateStore
<1>3. ASSUME NEW n, Edit(n) \/ CoolDown(n) \/ LateLook(n) \/ Send(n) \/ Publish(n)
                      \/ ApplyReply(n) \/ Ask(n) \/ Look(n) \/ Acknowledge(n) \/ Refuse(n) \/ Fail(n)
      PROVE  UNCHANGED <<post, rows>>
  BY <1>3 DEF Edit, CoolDown, LateLook, Send, Publish, ApplyReply, Ask, Look, Quiet, Acknowledge,
              Refuse, Fail, Record, server
<1>4. CASE Fetch \/ Apply \/ Flush \/ Connect \/ Handle \/ Maintain \/ Refetch \/ Reapply
            \/ Disconnect \/ Restart \/ Requeue \/ UNCHANGED vars
  BY <1>4 DEF Fetch, Apply, Flush, Connect, Handle, Maintain, Refetch, Reapply, Disconnect,
              Restart, Requeue, Rest, vars, server
<1>5. QED
  BY <1>1, <1>2, <1>3, <1>4 DEF Next, Deliver

LEMMA PostedStays ==
  ASSUME TypeOK, [Next]_vars, NEW m \in Messages, m \in Posted PROVE m \in Posted'
<1>0. ServerOK
  BY TypeOKParts
<1>1. ASSUME NEW n \in Messages, Store(n) PROVE m \in Posted'
  BY <1>0, <1>1 DEF Store, Posted, ServerOK
<1>2. ASSUME NEW n \in Messages, Delete(n) PROVE m \in Posted'
  BY <1>0, <1>2 DEF Delete, Posted, ServerOK
<1>3. QED
  BY <1>1, <1>2, RowsStep DEF Posted

\* Every task works on messages that were sent, and an answer is about a posted one.
LEMMA NextTasksLinked ==
  ASSUME TypeOK, TasksLinked, [Next]_vars PROVE TasksLinked'
<1>0. ServerOK /\ ClientOK /\ TasksOK
  BY TypeOKParts
<1>1. \A m \in Messages : (m \in Known => m \in Known') /\ (m \in Posted => m \in Posted')
  BY KnownStays, PostedStays
<1>2. \A k \in Tasks : task[k] \in Task /\ task[k].message \in Messages
                       /\ \A r \in task[k].todo : r[1] \in Messages
  BY <1>0 DEF TasksOK, Task
<1> DEFINE Good(t) ==
      /\ t.step # "idle" => t.message \in Known'
      /\ t.step = "accepted" => t.message \in Posted'
      /\ \A r \in t.todo : r[1] \in Known'
<1>3. \A k \in Tasks : Good(task[k])
  BY <1>1, <1>2 DEF TasksLinked
<1>4. ASSUME NEW k \in Tasks, NEW t, Good(t), task' = [task EXCEPT ![k] = t] PROVE TasksLinked'
  <2>1. \A j \in Tasks : Good(task'[j])
    BY <1>0, <1>3, <1>4 DEF TasksOK
  <2>2. QED
    BY <2>1 DEF TasksLinked
<1>5. ASSUME task' = task PROVE TasksLinked'
  BY <1>3, <1>5 DEF TasksLinked
<1>6. ASSUME NEW k \in Tasks, Finish(k) PROVE TasksLinked'
  <2>1. Good([Idle EXCEPT !.todo = task[k].todo])
    BY <1>3, IdleOK DEF Task
  <2>2. QED
    BY <1>4, <1>6, <2>1 DEF Finish
<1>7. ASSUME NEW k \in Tasks, NEW step \in {"looked", "accepted"}, NEW v, Reply(k, step, v),
             task[k].message \in Known, step = "accepted" => task[k].message \in Posted'
      PROVE  TasksLinked'
  <2> DEFINE t == [task[k] EXCEPT !.step = step, !.version = v]
  <2>1. t.message = task[k].message /\ t.todo = task[k].todo /\ t.step = step
    BY <1>2 DEF Task
  <2>2. Good(t)
    BY <1>1, <1>2, <1>3, <1>7, <2>1
  <2>3. task' = [task EXCEPT ![k] = t]
    BY <1>7 DEF Reply
  <2>4. QED
    BY <1>4, <2>2, <2>3
<1>8. ASSUME NEW k \in Tasks, NEW todo, \A r \in todo : r[1] \in Known',
             task' = [task EXCEPT ![k].todo = todo]
      PROVE  TasksLinked'
  <2> DEFINE t == [task[k] EXCEPT !.todo = todo]
  <2>1. t.message = task[k].message /\ t.todo = todo /\ t.step = task[k].step
    BY <1>2 DEF Task
  <2>2. Good(t)
    BY <1>3, <1>8, <2>1
  <2>3. QED
    BY <1>4, <1>8, <2>2
<1>9. ASSUME NEW m \in Messages, Send(m) PROVE TasksLinked'
  <2> DEFINE t == [Idle EXCEPT !.step = "asked", !.message = m]
  <2>1. t.message = m /\ t.todo = {} /\ t.step = "asked"
    BY IdleOK DEF Task
  <2>2. m \in Known'
    BY <1>0, <1>9 DEF Send, Known, ClientOK
  <2>3. Good(t)
    BY <2>1, <2>2
  <2>4. QED
    BY <1>4, <1>9, <2>3 DEF Send
<1>10. ASSUME NEW k \in Tasks, Ask(k) PROVE TasksLinked'
  <2>1. PICK next \in task[k].todo :
          task' = [task EXCEPT ![k] =
                     [Idle EXCEPT !.step = "asked", !.todo = task[k].todo \ {next},
                                  !.message = next[1], !.tried = next[2]]]
    BY <1>10 DEF Ask
  <2> DEFINE t == [Idle EXCEPT !.step = "asked", !.todo = task[k].todo \ {next},
                               !.message = next[1], !.tried = next[2]]
  <2>2. t.message = next[1] /\ t.todo \subseteq task[k].todo /\ t.step = "asked"
    BY IdleOK DEF Task
  <2>3. Good(t)
    BY <1>3, <2>2
  <2>4. QED
    BY <1>4, <2>1, <2>3
<1>11. ASSUME NEW k \in Tasks, Look(k) PROVE TasksLinked'
  <2>1. task[k].message \in Known
    BY <1>11 DEF Look, TasksLinked
  <2>2. Answered(task[k].message) => task[k].message \in Posted'
    BY <1>1, <1>2 DEF Answered, Posted
  <2>3. QED
    BY <1>7, <1>11, <2>1, <2>2 DEF Look
<1>12. ASSUME NEW k \in Tasks, Create(k) PROVE TasksLinked'
  <2>1. task[k].message \in Known
    BY <1>12 DEF Create, TasksLinked
  <2>2. task[k].message \in Posted'
    BY <1>0, <1>2, <1>12 DEF Create, Store, Posted, ServerOK
  <2>3. QED
    BY <1>7, <1>12, <2>1, <2>2 DEF Create
<1>13. ASSUME NEW k \in Tasks, Acknowledge(k) \/ Refuse(k) \/ Fail(k) PROVE TasksLinked'
  BY <1>6, <1>13 DEF Acknowledge, Refuse, Fail, Record
<1>14. CASE Requeue
  <2>1. \A m \in Messages : entry[m] # "none" => m \in Known'
    BY <1>1 DEF Known
  <2>2. \A r \in {<<m, 0>> : m \in {n \in Messages : entry[n] # "none"}} : r[1] \in Known'
    BY <2>1
  <2>3. QED
    BY <1>8, <1>14, <2>2 DEF Requeue
<1>15. CASE Flush \/ Maintain
  <2>1. \A m \in Messages : entry[m] # "none" => m \in Known'
    BY <1>1 DEF Known
  <2>2. \A r \in Pending : r[1] \in Known'
    BY <2>1 DEF Pending
  <2>3. QED
    BY <1>8, <1>15, <2>2 DEF Flush, Maintain
<1>16. CASE Restart
  <2>1. \A k \in Tasks : task'[k] = Idle
    BY <1>16 DEF Restart
  <2>2. QED
    BY <2>1, IdleOK DEF TasksLinked
<1>17. ASSUME NEW n, Edit(n) \/ Delete(n) \/ CoolDown(n) \/ LateLook(n) \/ LateStore(n)
                       \/ Publish(n) \/ ApplyReply(n)
       PROVE  TasksLinked'
  BY <1>5, <1>17 DEF Edit, Delete, CoolDown, LateLook, LateStore, Publish, ApplyReply
<1>18. CASE Fetch \/ Apply \/ Connect \/ Handle \/ Refetch \/ Reapply \/ Disconnect
            \/ UNCHANGED vars
  BY <1>5, <1>18 DEF Fetch, Apply, Connect, Handle, Refetch, Reapply, Disconnect, vars
<1>19. QED
  BY <1>9, <1>10, <1>11, <1>12, <1>13, <1>14, <1>15, <1>16, <1>17, <1>18 DEF Next, Deliver

LEMMA NextServerLinked ==
  ASSUME TypeOK, ServerLinked, TasksLinked, [Next]_vars PROVE ServerLinked'
<1>0. ServerOK /\ ClientOK /\ TasksOK
  BY TypeOKParts
<1>1. \A m \in Messages : (m \in Known => m \in Known') /\ (m \in Posted => m \in Posted')
  BY KnownStays, PostedStays
<1>2. \A m \in Messages : rows'[m] = IF m \in Posted' THEN 1 ELSE 0
  <2>1. CASE UNCHANGED <<post, rows>>
    BY <2>1 DEF ServerLinked, Posted
  <2>2. ASSUME NEW n \in Messages, Store(n) PROVE \A m \in Messages : rows'[m] = IF m \in Posted' THEN 1 ELSE 0
    BY <1>0, <2>2 DEF Store, ServerLinked, ServerOK, Posted
  <2>3. ASSUME NEW n \in Messages, Delete(n) PROVE \A m \in Messages : rows'[m] = IF m \in Posted' THEN 1 ELSE 0
    BY <1>0, <2>3 DEF Delete, ServerLinked, ServerOK, Posted
  <2>4. QED
    BY <2>1, <2>2, <2>3, RowsStep
<1>3. \A m \in sent' : m \in Posted'
  <2>1. CASE sent' \subseteq sent
    BY <1>0, <1>1, <2>1 DEF ServerLinked, ClientOK
  <2>2. ASSUME NEW k \in Tasks, Acknowledge(k) PROVE \A m \in sent' : m \in Posted'
    <3>1. task[k].message \in Posted /\ task[k].message \in Messages
      BY <1>0, <2>2 DEF Acknowledge, TasksLinked, TasksOK, Task
    <3>2. QED
      BY <1>0, <1>1, <2>2, <3>1 DEF Acknowledge, ServerLinked, ClientOK
  <2>3. sent' = sent \/ \E k \in Tasks : Acknowledge(k)
    BY DEF Next, Deliver, Send, Edit, Delete, CoolDown, LateLook, LateStore, Publish, ApplyReply,
           Ask, Look, Create, Quiet, Refuse, Fail, Record, Requeue, Fetch, Apply, Flush, Connect,
           Handle, Maintain, Refetch, Reapply, Disconnect, Restart, Rest, outbox, vars
  <2>4. QED
    BY <2>1, <2>2, <2>3
<1>4. \A r \in late' : r[1] \in Known'
  <2>1. CASE late' \subseteq late
    BY <1>0, <1>1, <2>1 DEF ServerLinked, ServerOK
  <2>2. ASSUME NEW m \in Messages, LateLook(m) PROVE \A r \in late' : r[1] \in Known'
    <3>1. m \in Known
      BY <2>2 DEF LateLook, ServerLinked
    <3>2. QED
      BY <1>0, <1>1, <2>2, <3>1 DEF LateLook, ServerLinked, ServerOK
  <2>3. ASSUME NEW k \in Tasks, Fail(k) PROVE \A r \in late' : r[1] \in Known'
    <3>1. task[k].message \in Known /\ task[k].message \in Messages
      BY <1>0, <2>3 DEF Fail, TasksLinked, TasksOK, Task
    <3>2. \A r \in late' : r \in late \/ r[1] = task[k].message
      BY <2>3 DEF Fail
    <3>3. QED
      BY <1>0, <1>1, <3>1, <3>2 DEF ServerLinked, ServerOK
  <2>4. ASSUME Restart PROVE \A r \in late' : r[1] \in Known'
    <3>1. \A k \in Tasks : task[k].step \in {"asked", "looked"}
             => task[k].message \in Known /\ task[k].message \in Messages
      BY <1>0 DEF TasksLinked, TasksOK, Task
    <3>2. \A r \in late' : r \in late \/ r[1] \in Known
      BY <2>4, <3>1 DEF Restart
    <3>3. Known \subseteq Messages
      BY DEF Known
    <3>4. QED
      BY <1>0, <1>1, <3>2, <3>3 DEF ServerLinked, ServerOK
  <2>5. \/ late' \subseteq late
        \/ \E m \in Messages : LateLook(m)
        \/ \E k \in Tasks : Fail(k)
        \/ Restart
    BY DEF Next, Deliver, Send, Edit, Delete, CoolDown, LateStore, Publish, ApplyReply, Ask, Look,
           Create, Quiet, Acknowledge, Refuse, Requeue, Fetch, Apply, Flush, Connect, Handle,
           Maintain, Refetch, Reapply, Disconnect, Rest, server, vars
  <2>6. QED
    BY <2>1, <2>2, <2>3, <2>4, <2>5
<1>5. QED
  BY <1>2, <1>3, <1>4 DEF ServerLinked

IInv == TypeOK /\ ServerLinked /\ TasksLinked

LEMMA Inductive == Spec => []IInv
<1>1. Init => ServerLinked /\ TasksLinked
  BY IdleOK DEF Init, ServerLinked, TasksLinked, Known, Posted
<1>2. IInv /\ [Next]_vars => IInv'
  <2>1. TypeOK /\ [Next]_vars => TypeOK'
    BY NextServerOK, NextTasksOK, NextClientOK, TypeOKParts DEF TypeOK, ServerOK, ClientOK, TasksOK
  <2>2. QED
    BY <2>1, NextServerLinked, NextTasksLinked DEF IInv
<1>3. QED
  BY InitTypeOK, <1>1, <1>2, PTL DEF Spec, IInv

-----------------------------------------------------------------------------
(* The simulation: which promise of the channel each step is. *)

\* The steps that change what the client shows of a message.
LEMMA StatusStep ==
  ASSUME TypeOK, [Next]_vars
  PROVE  \/ UNCHANGED <<entry, sent>>
         \/ \E m \in Messages : Send(m)
         \/ \E k \in Tasks : Acknowledge(k) \/ Refuse(k) \/ Fail(k)
         \/ Requeue
BY DEF Next, Deliver, Edit, Delete, CoolDown, LateLook, LateStore, Publish, ApplyReply, Ask, Look,
       Create, Quiet, Fetch, Apply, Flush, Connect, Handle, Maintain, Refetch, Reapply,
       Disconnect, Restart, Rest, outbox, vars

LEMMA SendRefines ==
  ASSUME IInv, NEW m \in Messages, Send(m) PROVE Channel!Send(m)
<1>1. TypeOK /\ ClientOK
  BY TypeOKParts DEF IInv
<1>2. status[m] = "new"
  BY DEF Send, status
<1>3. status' = [status EXCEPT ![m] = "pending"]
  BY <1>1 DEF Send, status, ClientOK
<1>4. QED
  BY <1>2, <1>3 DEF Channel!Send, Send, server

\* Inserting the row posts the message, unless its nonce was reserved before.
LEMMA StoreRefines ==
  ASSUME IInv, NEW m \in Messages, m \in Known, Store(m), UNCHANGED <<entry, sent>>
  PROVE  Channel!Post(m) \/ UNCHANGED Channel!vars
<1>1. ServerOK /\ ClientOK
  BY TypeOKParts DEF IInv
<1>2. status' = status
  BY DEF status
<1>3. CASE post[m] = "absent"
  <2>1. rows[m] = 0
    BY <1>3 DEF IInv, ServerLinked, Posted
  <2>2. rows' = [rows EXCEPT ![m] = 1]
    BY <1>1, <1>3, <2>1 DEF Store, ServerOK
  <2>3. status[m] # "new"
    BY <1>1 DEF Known, status, ClientOK
  <2>4. QED
    BY <1>2, <2>1, <2>2, <2>3 DEF Channel!Post
<1>4. CASE post[m] # "absent"
  BY <1>2, <1>4 DEF Store, Channel!vars
<1>5. QED
  BY <1>3, <1>4

LEMMA AcknowledgeRefines ==
  ASSUME IInv, NEW k \in Tasks, Acknowledge(k)
  PROVE  (\E m \in Messages : Channel!Confirm(m)) \/ UNCHANGED Channel!vars
<1> DEFINE m == task[k].message
<1>1. ServerOK /\ ClientOK /\ TasksOK
  BY TypeOKParts DEF IInv
<1>2. m \in Messages /\ m \in Known /\ m \in Posted
  BY <1>1 DEF IInv, TasksLinked, Acknowledge, TasksOK, Task
<1>3. rows[m] = 1 /\ rows' = rows
  BY <1>2 DEF IInv, ServerLinked, Acknowledge, server
<1>4. sent' = sent \cup {m} /\ \A n \in Messages \ {m} : entry'[n] = entry[n]
  BY <1>1, <1>2 DEF Acknowledge, ClientOK
<1>5. status' = [status EXCEPT ![m] = "sent"]
  BY <1>2, <1>4 DEF status
<1>6. CASE m \in sent
  <2>1. status[m] = "sent"
    BY <1>2, <1>6 DEF status
  <2>2. status' = status
    BY <1>4, <1>6 DEF status
  <2>3. QED
    BY <1>3, <2>2 DEF Channel!vars
<1>7. CASE m \notin sent
  <2>1. status[m] \in {"pending", "failed"}
    BY <1>1, <1>2, <1>7 DEF status, Known, ClientOK
  <2>2. QED
    BY <1>2, <1>3, <1>5, <2>1 DEF Channel!Confirm
<1>8. QED
  BY <1>6, <1>7

LEMMA RecordRefines ==
  ASSUME IInv, NEW k \in Tasks, NEW over \in BOOLEAN, Record(k, over)
  PROVE  (\E m \in Messages : Channel!GiveUp(m)) \/ UNCHANGED Channel!vars
<1> DEFINE m == task[k].message
<1>1. ClientOK /\ TasksOK
  BY TypeOKParts DEF IInv
<1>2. m \in Messages
  BY <1>1 DEF TasksOK, Task
<1>3. rows' = rows /\ sent' = sent
  BY DEF Record
<1>4. CASE entry' = entry
  BY <1>3, <1>4 DEF status, Channel!vars
<1>5. CASE entry[m] # "none" /\ entry' = [entry EXCEPT ![m] = "failed"]
  <2>1. m \notin sent
    BY <1>1, <1>5 DEF ClientOK
  <2>2. status' = [status EXCEPT ![m] = "failed"]
    BY <1>1, <1>2, <1>3, <1>5, <2>1 DEF status, ClientOK
  <2>3. CASE entry[m] = "pending"
    <3>1. status[m] = "pending"
      BY <1>2, <2>1, <2>3 DEF status
    <3>2. QED
      BY <1>2, <1>3, <2>2, <3>1 DEF Channel!GiveUp
  <2>4. CASE entry[m] = "failed"
    BY <1>1, <1>3, <1>4, <1>5, <2>4 DEF ClientOK
  <2>5. QED
    BY <1>1, <1>2, <1>5, <2>3, <2>4 DEF ClientOK
<1>6. QED
  BY <1>4, <1>5 DEF Record

LEMMA RequeueRefines == ASSUME IInv, Requeue PROVE Channel!Requeue
<1>1. ClientOK
  BY TypeOKParts DEF IInv
<1>2. status' = [m \in Messages |-> IF status[m] = "failed" THEN "pending" ELSE status[m]]
  BY <1>1 DEF Requeue, status, ClientOK
<1>3. QED
  BY <1>2 DEF Channel!Requeue, Requeue, server

LEMMA StepRefines == ASSUME IInv, [Next]_vars PROVE [Channel!Next]_(Channel!vars)
<1>0. TypeOK
  BY DEF IInv
<1>1. ASSUME NEW m \in Messages, Send(m) PROVE [Channel!Next]_(Channel!vars)
  BY <1>1, SendRefines DEF Channel!Next
<1>2. ASSUME NEW k \in Tasks, Acknowledge(k) PROVE [Channel!Next]_(Channel!vars)
  BY <1>2, AcknowledgeRefines DEF Channel!Next
<1>3. ASSUME NEW k \in Tasks, Refuse(k) \/ Fail(k) PROVE [Channel!Next]_(Channel!vars)
  <2>1. LastAttempt(task[k].tried) \in BOOLEAN
    BY DEF LastAttempt
  <2>2. CASE Refuse(k)
    BY <2>2, RecordRefines DEF Refuse, Channel!Next
  <2>3. CASE Fail(k)
    BY <2>1, <2>3, RecordRefines DEF Fail, Channel!Next
  <2>4. QED
    BY <1>3, <2>2, <2>3
<1>4. CASE Requeue
  BY <1>4, RequeueRefines DEF Channel!Next
<1>5. CASE UNCHANGED <<entry, sent>>
  <2>1. status' = status
    BY <1>5 DEF status
  <2>2. CASE UNCHANGED <<post, rows>>
    BY <2>1, <2>2 DEF Channel!vars
  <2>3. ASSUME NEW m \in Messages, Delete(m) PROVE [Channel!Next]_(Channel!vars)
    BY <2>1, <2>3 DEF Delete, Channel!vars
  <2>4. ASSUME NEW m \in Messages, Store(m),
               <<m, "looked">> \in late \/ \E k \in Tasks : Create(k) /\ task[k].message = m
        PROVE  [Channel!Next]_(Channel!vars)
    <3>1. m \in Known
      BY <2>4 DEF IInv, ServerLinked, TasksLinked, Create
    <3>2. QED
      BY <1>5, <2>4, <3>1, StoreRefines DEF Channel!Next
  <2>5. QED
    BY <1>0, <2>2, <2>3, <2>4, RowsStep
<1>6. QED
  BY <1>0, <1>1, <1>2, <1>3, <1>4, <1>5, StatusStep

\* Whatever is lost, late or tried by several tasks at once, a message is posted at
\* most once and confirmed only when it was (deliver_message, create_message_payload).
THEOREM OutboxIsExactlyOnce == Spec => ExactlyOnce
<1>1. Init => Channel!Init
  BY DEF Init, Channel!Init, status
<1>2. QED
  BY <1>1, StepRefines, Inductive, PTL DEF Spec, ExactlyOnce, Channel!Spec

-----------------------------------------------------------------------------
(***************************************************************************)
(* The cache follows the server.  For a message none of whose changes was  *)
(* missed: the event of the latest change (Top) is the last one on its     *)
(* way, first not yet published and then in the inbox; what is on its way  *)
(* is in the order of the changes; and once nothing is, the row written    *)
(* last, or the snapshot that will be, is the server's.                    *)
(***************************************************************************)
Top(m) ==
    IF post[m] = "deleted" THEN [kind |-> "delete", message |-> m, version |-> version[m]]
    ELSE IF version[m] > 0 THEN [kind |-> "update", message |-> m, version |-> version[m]]
    ELSE [kind |-> "create", message |-> m, version |-> 0]
\* an event of a change that was made
Committed(e) ==
    /\ post[e.message] # "absent" /\ e.version <= version[e.message]
    /\ e.kind = "create" => e.version = 0
    /\ e.kind = "update" => e.version > 0
    /\ e.kind = "delete" => post[e.message] = "deleted" /\ e.version = version[e.message]
Waiting(m) == \E e \in unpublished : e.message = m
Heard(m) == \E i \in DOMAIN inbox : inbox[i].message = m
\* a row that says of a message what the server does
Matches(row, m) ==
    /\ row.state = "shown" <=> post[m] = "live"
    /\ post[m] = "live" => row.version = version[m]

InOrder(m) ==
    \A i \in DOMAIN inbox : inbox[i].message = m =>
        /\ \A j \in DOMAIN inbox : i < j /\ inbox[j].message = m => Rank(inbox[i]) < Rank(inbox[j])
        /\ \A e \in unpublished : e.message = m => Rank(inbox[i]) < Rank(e)
RowFollows(m) ==
    ~Heard(m) /\ ~Waiting(m) =>
        /\ stage \in {"applied", "flushing", "connected"} => Matches(cached[m], m)
        /\ stage \in {"fetched", "refetched"} => Matches(snap[m], m)
Followed(m) ==
    /\ Waiting(m) => Top(m) \in unpublished
    /\ Heard(m) /\ ~Waiting(m) => \E i \in DOMAIN inbox : inbox[i] = Top(m)
    /\ InOrder(m)
    /\ RowFollows(m)

EventsCommitted ==
    /\ \A e \in unpublished \cup replies : Committed(e)
    /\ \A e \in replies : e.kind # "create"
    /\ \A i \in DOMAIN inbox : Committed(inbox[i])
DeletionsReal ==
    \A m \in Messages : /\ cached[m].state = "deleted" => post[m] = "deleted"
                        /\ snap[m].state # "deleted"
UnpostedUnedited == \A m \in Messages : post[m] = "absent" => version[m] = 0
InboxEmpty == stage \in {"offline", "fetched", "applied", "flushing"} => inbox = <<>>

FollowInv == /\ EventsCommitted /\ DeletionsReal /\ UnpostedUnedited /\ InboxEmpty
             /\ \A m \in Messages \ disturbed : Followed(m)

\* No change is later than the latest, and two changes of a message are never level.
LEMMA RankOrder ==
  ASSUME TypeOK, NEW d \in Event, NEW e \in Event, Committed(d), Committed(e), d.message = e.message
  PROVE  /\ Rank(d) \in Nat /\ Rank(e) \in Nat
         /\ Rank(d) = Rank(e) => d = e
<1>1. version \in [Messages -> Version] /\ d.message \in Messages /\ e.message \in Messages
  BY DEF TypeOK, Event
<1>2. /\ d.version \in 0 .. MaxEvents /\ e.version \in 0 .. MaxEvents
      /\ d.kind \in {"create", "update", "delete"} /\ e.kind \in {"create", "update", "delete"}
  BY DEF Event, Version
<1>3. /\ Rank(d) \in Nat /\ Rank(e) \in Nat
      /\ Rank(d) = Rank(e) => d.kind = e.kind /\ d.version = e.version
  BY <1>1, <1>2 DEF Rank, Committed
<1>4. d.kind = e.kind /\ d.version = e.version => d = e
  BY DEF Event
<1>5. QED
  BY <1>3, <1>4

LEMMA TopIsLatest ==
  ASSUME TypeOK, NEW m \in Messages, post[m] # "absent"
  PROVE  /\ Top(m) \in Event /\ Top(m).message = m /\ Committed(Top(m))
         /\ \A e \in Event : Committed(e) /\ e.message = m => Rank(e) <= Rank(Top(m))
<1>1. version[m] \in 0 .. MaxEvents /\ post[m] \in {"live", "deleted"}
  BY DEF TypeOK, Version
<1>2. Top(m) \in Event /\ Top(m).message = m /\ Committed(Top(m))
  BY <1>1 DEF Top, Event, Version, Committed
<1>3. ASSUME NEW e \in Event, Committed(e), e.message = m PROVE Rank(e) <= Rank(Top(m))
  <2>1. e.version \in 0 .. MaxEvents /\ e.kind \in {"create", "update", "delete"}
    BY DEF Event, Version
  <2>2. QED
    BY <1>1, <1>3, <2>1 DEF Rank, Committed, Top
<1>4. QED
  BY <1>2, <1>3

\* A change: it is the latest, and later than every one before.
Change(m, e) ==
    /\ e = Top(m)' /\ e.message = m /\ Committed(e)'
    /\ \A n \in Messages \ {m} : post'[n] = post[n] /\ version'[n] = version[n]
    /\ \A d \in Event : Committed(d) => Committed(d)'
    /\ \A d \in Event : Committed(d) /\ d.message = m => Rank(d) < Rank(e)
    /\ post[m] # "deleted" /\ post'[m] # "absent"
    /\ unpublished' = unpublished \cup {e}
    /\ replies' \subseteq replies \cup {e} /\ (e.kind = "create" => replies' = replies)
    /\ UNCHANGED <<inbox, stage, snap, cached, disturbed>>

LEMMA StoreChanges ==
  ASSUME TypeOK, UnpostedUnedited, NEW m \in Messages, Store(m),
         UNCHANGED <<version, inbox, stage, snap, cached, replies, disturbed>>
  PROVE  \/ UNCHANGED <<post, version, unpublished, inbox, stage, snap, cached, replies, disturbed>>
         \/ \E e : Change(m, e)
<1>1. CASE post[m] # "absent"
  BY <1>1 DEF Store
<1>2. CASE post[m] = "absent"
  <2> DEFINE e == [kind |-> "create", message |-> m, version |-> 0]
  <2>1. /\ post' = [post EXCEPT ![m] = "live"] /\ unpublished' = unpublished \cup {e}
        /\ version' = version /\ version[m] = 0
    BY <1>2 DEF Store, UnpostedUnedited
  <2>2. /\ post'[m] = "live" /\ version'[m] = 0
        /\ \A n \in Messages \ {m} : post'[n] = post[n] /\ version'[n] = version[n]
    BY <2>1 DEF TypeOK
  <2>3. e = Top(m)' /\ Committed(e)'
    BY <2>2 DEF Top, Committed
  <2>4. ASSUME NEW d \in Event, Committed(d) PROVE Committed(d)' /\ d.message # m
    <3>1. d.message # m /\ d.message \in Messages
      BY <1>2, <2>4 DEF Committed, Event
    <3>2. QED
      BY <2>2, <2>4, <3>1 DEF Committed
  <2>5. QED
    BY <1>2, <2>1, <2>2, <2>3, <2>4 DEF Change
<1>3. QED
  BY <1>1, <1>2

LEMMA EditChanges ==
  ASSUME TypeOK, NEW m \in Messages, Edit(m) PROVE \E e : Change(m, e)
<1>0. PICK e : e = [kind |-> "update", message |-> m, version |-> version[m] + 1]
  OBVIOUS
<1>1. /\ post' = post /\ post[m] = "live" /\ version' = [version EXCEPT ![m] = @ + 1]
      /\ unpublished' = unpublished \cup {e} /\ replies' \subseteq replies \cup {e}
      /\ UNCHANGED <<inbox, stage, snap, cached, disturbed>>
  BY <1>0 DEF Edit
<1>2. /\ version'[m] = version[m] + 1 /\ version[m] \in 0 .. MaxEvents
      /\ \A n \in Messages \ {m} : post'[n] = post[n] /\ version'[n] = version[n]
  BY <1>1 DEF TypeOK, Version
<1>3. e = Top(m)' /\ Committed(e)'
  BY <1>0, <1>1, <1>2 DEF Top, Committed
<1>4. ASSUME NEW d \in Event, Committed(d)
      PROVE  Committed(d)' /\ (d.message = m => Rank(d) < Rank(e))
  <2>1. d.message \in Messages /\ d.version \in 0 .. MaxEvents /\ d.kind \in {"create", "update", "delete"}
    BY DEF Event, Version
  <2>2. Rank(e) = version[m] + 1
    BY <1>0 DEF Rank
  <2>3. CASE d.message = m
    <3>1. d.kind # "delete" /\ d.version <= version[m]
      BY <1>1, <1>4, <2>3 DEF Committed
    <3>2. Rank(d) <= version[m]
      BY <1>2, <1>4, <2>1, <3>1 DEF Rank, Committed
    <3>3. Committed(d)'
      BY <1>1, <1>2, <1>4, <2>1, <2>3, <3>1 DEF Committed
    <3>4. QED
      BY <1>2, <2>1, <2>2, <3>2, <3>3, RankOrder, <1>4
  <2>4. CASE d.message # m
    BY <1>2, <1>4, <2>1, <2>4 DEF Committed
  <2>5. QED
    BY <2>3, <2>4
<1>5. QED
  BY <1>0, <1>1, <1>2, <1>3, <1>4 DEF Change

LEMMA DeleteChanges ==
  ASSUME TypeOK, NEW m \in Messages, Delete(m) PROVE \E e : Change(m, e)
<1> DEFINE e == [kind |-> "delete", message |-> m, version |-> version[m]]
<1>1. /\ version' = version /\ post[m] = "live" /\ post' = [post EXCEPT ![m] = "deleted"]
      /\ unpublished' = unpublished \cup {e} /\ replies' \subseteq replies \cup {e}
      /\ UNCHANGED <<inbox, stage, snap, cached, disturbed>>
  BY DEF Delete
<1>2. /\ post'[m] = "deleted" /\ version[m] \in 0 .. MaxEvents
      /\ \A n \in Messages \ {m} : post'[n] = post[n] /\ version'[n] = version[n]
  BY <1>1 DEF TypeOK, Version
<1>3. e = Top(m)' /\ Committed(e)'
  BY <1>1, <1>2 DEF Top, Committed
<1>4. ASSUME NEW d \in Event, Committed(d)
      PROVE  Committed(d)' /\ (d.message = m => Rank(d) < Rank(e))
  <2>1. d.message \in Messages /\ d.version \in 0 .. MaxEvents /\ d.kind \in {"create", "update", "delete"}
    BY DEF Event, Version
  <2>2. Rank(e) = MaxEvents + 1
    BY DEF Rank
  <2>3. CASE d.message = m
    <3>1. d.kind # "delete"
      BY <1>1, <1>4, <2>3 DEF Committed
    <3>2. Rank(d) <= MaxEvents
      BY <1>2, <1>4, <2>1, <3>1 DEF Rank, Committed
    <3>3. Committed(d)'
      BY <1>1, <1>2, <1>4, <2>1, <2>3, <3>1 DEF Committed
    <3>4. QED
      BY <1>2, <2>1, <2>2, <3>2, <3>3, RankOrder, <1>4
  <2>4. CASE d.message # m
    BY <1>1, <1>2, <1>4, <2>1, <2>4 DEF Committed
  <2>5. QED
    BY <2>3, <2>4
<1>5. QED
  BY <1>1, <1>2, <1>3, <1>4 DEF Change

LEMMA Typed ==
  ASSUME TypeOK
  PROVE  /\ unpublished \subseteq Event /\ replies \subseteq Event /\ inbox \in Seq(Event)
         /\ DOMAIN inbox = 1 .. Len(inbox) /\ Len(inbox) \in Nat
         /\ \A i \in DOMAIN inbox : inbox[i] \in Event /\ inbox[i].message \in Messages
         /\ \A e \in Event : e.message \in Messages
         /\ cached \in [Messages -> Row] /\ snap \in [Messages -> Row]
<1>1. \A e \in Event : e.message \in Messages
  BY DEF Event
<1>2. inbox \in Seq(Event)
  BY DEF TypeOK
<1>3. DOMAIN inbox = 1 .. Len(inbox) /\ Len(inbox) \in Nat /\ \A i \in 1 .. Len(inbox) : inbox[i] \in Event
  BY <1>2
<1>4. QED
  BY <1>1, <1>2, <1>3 DEF TypeOK

LEMMA ChangeKeeps ==
  ASSUME TypeOK, FollowInv, NEW m \in Messages, NEW e, Change(m, e) PROVE FollowInv'
<1>0. /\ unpublished' = unpublished \cup {e} /\ replies' \subseteq replies \cup {e}
      /\ UNCHANGED <<inbox, stage, snap, cached, disturbed>>
      /\ \A n \in Messages \ {m} : post'[n] = post[n] /\ version'[n] = version[n]
      /\ e = Top(m)' /\ e.message = m /\ Committed(e)' /\ post[m] # "deleted" /\ post'[m] # "absent"
  BY DEF Change
<1>1. EventsCommitted'
  <2>1. \A d \in Event : Committed(d) => Committed(d)'
    BY DEF Change
  <2>2. ASSUME NEW d \in unpublished' \cup replies' PROVE Committed(d)'
    BY <1>0, <2>1, Typed DEF FollowInv, EventsCommitted
  <2>3. ASSUME NEW i \in DOMAIN inbox PROVE Committed(inbox[i])'
    BY <1>0, <2>1, Typed DEF FollowInv, EventsCommitted
  <2>4. \A d \in replies' : d.kind # "create"
    BY DEF Change, FollowInv, EventsCommitted
  <2>5. QED
    BY <1>0, <2>2, <2>3, <2>4 DEF EventsCommitted
<1>2. DeletionsReal' /\ InboxEmpty' /\ UnpostedUnedited'
  BY <1>0 DEF FollowInv, DeletionsReal, InboxEmpty, UnpostedUnedited
<1>3. ASSUME NEW n \in Messages \ disturbed', n # m PROVE Followed(n)'
  <2>1. Followed(n) /\ n \in Messages \ {m}
    BY <1>0, <1>3 DEF FollowInv
  <2>2. Top(n)' = Top(n)
    BY <1>0, <2>1 DEF Top
  <2>3. Waiting(n)' = Waiting(n) /\ Heard(n)' = Heard(n)
    BY <1>0, <1>3 DEF Waiting, Heard
  <2>4. InOrder(n)'
    BY <1>0, <1>3, <2>1 DEF Followed, InOrder, Rank
  <2>5. RowFollows(n)'
    BY <1>0, <1>3, <2>1, <2>3 DEF Followed, RowFollows, Matches
  <2>6. QED
    BY <1>0, <2>1, <2>2, <2>3, <2>4, <2>5 DEF Followed
<1>4. ASSUME m \in Messages \ disturbed' PROVE Followed(m)'
  <2>1. Waiting(m)' /\ Top(m)' \in unpublished'
    BY <1>0 DEF Waiting
  <2>2. InOrder(m)'
    <3>1. Followed(m)
      BY <1>0, <1>4 DEF FollowInv
    <3>2. \A d \in Event : Committed(d) /\ d.message = m => Rank(d) < Rank(e)
      BY DEF Change
    <3>3. ASSUME NEW i \in DOMAIN inbox, inbox[i].message = m PROVE Rank(inbox[i]) < Rank(e)
      BY <3>2, <3>3, Typed DEF FollowInv, EventsCommitted
    <3>4. ASSUME NEW i \in DOMAIN inbox, inbox[i].message = m, NEW d \in unpublished', d.message = m
          PROVE  Rank(inbox[i]) < Rank(d)
      BY <1>0, <3>1, <3>3, <3>4 DEF Followed, InOrder
    <3>5. ASSUME NEW i \in DOMAIN inbox, inbox[i].message = m
          PROVE  \A j \in DOMAIN inbox : i < j /\ inbox[j].message = m => Rank(inbox[i]) < Rank(inbox[j])
      BY <3>1, <3>5 DEF Followed, InOrder
    <3>6. \A d : Rank(d)' = Rank(d)
      BY DEF Rank
    <3>7. inbox' = inbox
      BY <1>0
    <3>8. QED
      BY <3>4, <3>5, <3>6, <3>7 DEF InOrder
  <2>3. QED
    BY <2>1, <2>2 DEF Followed, RowFollows
<1>5. QED
  BY <1>1, <1>2, <1>3, <1>4 DEF FollowInv

\* Writing a row of which the message is no longer followed, or that is right.
LEMMA WriteKeeps ==
  ASSUME TypeOK, FollowInv, NEW m \in Messages, NEW row,
         cached' = [cached EXCEPT ![m] = row], row.state = "deleted" => post[m] = "deleted",
         disturbed \subseteq disturbed', m \notin disturbed' => Matches(row, m),
         replies' \subseteq replies, UNCHANGED <<post, version, unpublished, inbox, stage, snap>>
  PROVE  FollowInv'
<1>1. cached'[m] = row /\ \A n \in Messages \ {m} : cached'[n] = cached[n]
  BY Typed
<1>2. EventsCommitted' /\ DeletionsReal' /\ InboxEmpty' /\ UnpostedUnedited'
  BY <1>1 DEF FollowInv, EventsCommitted, Committed, DeletionsReal, InboxEmpty, UnpostedUnedited
<1>3. ASSUME NEW n \in Messages \ disturbed' PROVE Followed(n)'
  <2>1. Followed(n)
    BY DEF FollowInv
  <2>2. Matches(cached[n], n) \/ n = m => Matches(cached'[n], n)
    BY <1>1
  <2>3. RowFollows(n)'
    BY <2>1, <2>2 DEF Followed, RowFollows, Matches, Heard, Waiting
  <2>4. QED
    BY <2>1, <2>3 DEF Followed, Waiting, Heard, Top, InOrder, Rank
<1>4. QED
  BY <1>2, <1>3 DEF FollowInv

\* The reply to a delivery or to an edit: an old one is noted, a fresh one is right.
LEMMA UpsertKeeps ==
  ASSUME TypeOK, FollowInv, NEW m \in Messages, NEW v, post[m] # "absent",
         cached' = [cached EXCEPT ![m] = Upsert(@, v)], Note(m, v),
         replies' \subseteq replies, UNCHANGED <<post, version, unpublished, inbox, stage, snap>>
  PROVE  FollowInv'
<1>0. cached[m] \in Row
  BY Typed
<1>1. Upsert(cached[m], v).state = "deleted" => post[m] = "deleted"
  BY DEF Upsert, FollowInv, DeletionsReal
<1>2. m \notin disturbed' => Matches(Upsert(cached[m], v), m)
  BY DEF Note, Outdated, Upsert, Matches, FollowInv, DeletionsReal, TypeOK
<1>3. disturbed \subseteq disturbed'
  BY DEF Note
<1>4. QED
  BY <1>1, <1>2, <1>3, WriteKeeps

LEMMA AcknowledgeKeeps ==
  ASSUME TypeOK, TasksLinked, FollowInv, NEW k \in Tasks, Acknowledge(k) PROVE FollowInv'
<1>1. task[k].message \in Messages /\ post[task[k].message] # "absent"
  BY DEF TypeOK, Task, TasksLinked, Posted, Acknowledge
<1>2. QED
  BY <1>1, UpsertKeeps DEF Acknowledge, server

LEMMA ReplyKeeps ==
  ASSUME TypeOK, FollowInv, NEW e \in replies, ApplyReply(e) PROVE FollowInv'
<1> DEFINE m == e.message
<1>1. m \in Messages /\ Committed(e)
  BY Typed DEF FollowInv, EventsCommitted
<1>2. CASE e.kind = "update"
  BY <1>1, <1>2, UpsertKeeps DEF ApplyReply, server, Committed
<1>3. CASE e.kind # "update"
  <2> DEFINE row == IF cached[m].state = "none" THEN cached[m] ELSE [cached[m] EXCEPT !.state = "deleted"]
  <2>1. /\ cached' = [cached EXCEPT ![m] = row]
        /\ disturbed' = disturbed /\ replies' \subseteq replies
        /\ UNCHANGED <<post, version, unpublished, inbox, stage, snap>>
    BY <1>1, <1>3, Typed DEF ApplyReply, server
  <2>2. row.state \in {"none", "deleted"} /\ post[m] = "deleted"
    <3>1. e.kind = "delete"
      BY <1>3, Typed DEF FollowInv, EventsCommitted, Event
    <3>2. cached[m] \in Row
      BY <1>1, Typed
    <3>3. QED
      BY <1>1, <3>1, <3>2 DEF Committed, Row
  <2>3. QED
    BY <1>1, <2>1, <2>2, WriteKeeps DEF Matches
<1>4. QED
  BY <1>2, <1>3

\* An event goes out of a connection the loop hears, in its turn: it is the last in
\* the inbox, and if it was the only one left it is the latest.
LEMMA HeardKeeps ==
  ASSUME TypeOK, FollowInv, NEW e \in unpublished, ~Overtakes(e),
         e.message \notin disturbed, stage \notin {"fetched", "applied", "flushing"},
         unpublished' = unpublished \ {e},
         inbox' = IF Subscribed THEN Append(inbox, e) ELSE inbox,
         UNCHANGED <<post, version, stage, snap, cached, replies, disturbed>>
  PROVE  Followed(e.message)'
<1> DEFINE m == e.message
<1>0. /\ m \in Messages /\ e \in Event /\ Followed(m) /\ Committed(e) /\ Top(m) \in unpublished
      /\ post[m] # "absent" /\ Top(m)' = Top(m)
  BY Typed DEF FollowInv, EventsCommitted, Committed, Followed, Waiting, Top
<1>1. ASSUME NEW d \in unpublished', d.message = m PROVE Rank(e) < Rank(d)
  <2>1. d \in Event /\ Committed(d) /\ d # e /\ ~(Rank(d) < Rank(e))
    BY <1>1, Typed DEF FollowInv, EventsCommitted, Overtakes
  <2>2. QED
    BY <1>0, <1>1, <2>1, RankOrder
<1>2. Waiting(m)' => Top(m)' \in unpublished'
  <2>1. ASSUME Top(m) = e, NEW d \in unpublished', d.message = m PROVE FALSE
    <3>1. d \in Event /\ Committed(d)
      BY <2>1, Typed DEF FollowInv, EventsCommitted
    <3>2. Rank(d) <= Rank(e) /\ Rank(d) \in Nat /\ Rank(e) \in Nat
      BY <1>0, <2>1, <3>1, TopIsLatest, RankOrder
    <3>3. QED
      BY <1>1, <2>1, <3>2
  <2>2. QED
    BY <1>0, <2>1 DEF Waiting
<1>3. CASE Subscribed
  <2>1. inbox' = Append(inbox, e) /\ Len(inbox') = Len(inbox) + 1
        /\ inbox'[Len(inbox) + 1] = e /\ \A i \in 1 .. Len(inbox) : inbox'[i] = inbox[i]
        /\ DOMAIN inbox' = 1 .. Len(inbox) + 1 /\ DOMAIN inbox = 1 .. Len(inbox) /\ Len(inbox) \in Nat
    BY <1>0, <1>3, Typed
  <2>2. ~Waiting(m)' => \E i \in DOMAIN inbox' : inbox'[i] = Top(m)'
    <3>1. ~Waiting(m)' => Top(m) = e
      BY <1>0, TopIsLatest DEF Waiting
    <3>2. QED
      BY <1>0, <2>1, <3>1
  <2>3. InOrder(m)'
    <3>1. ASSUME NEW i \in DOMAIN inbox', inbox'[i].message = m,
                 NEW j \in DOMAIN inbox', i < j, inbox'[j].message = m
          PROVE  Rank(inbox'[i]) < Rank(inbox'[j])
      <4>1. i \in DOMAIN inbox /\ inbox'[i] = inbox[i]
        BY <2>1, <3>1
      <4>2. CASE j \in DOMAIN inbox
        BY <1>0, <2>1, <3>1, <4>1, <4>2 DEF Followed, InOrder
      <4>3. CASE j = Len(inbox) + 1
        BY <1>0, <2>1, <3>1, <4>1, <4>3 DEF Followed, InOrder
      <4>4. QED
        BY <2>1, <4>2, <4>3
    <3>2. ASSUME NEW i \in DOMAIN inbox', inbox'[i].message = m, NEW d \in unpublished', d.message = m
          PROVE  Rank(inbox'[i]) < Rank(d)
      <4>1. CASE i \in DOMAIN inbox
        BY <1>0, <2>1, <3>2, <4>1 DEF Followed, InOrder
      <4>2. CASE i = Len(inbox) + 1
        BY <1>1, <2>1, <3>2, <4>2
      <4>3. QED
        BY <2>1, <4>1, <4>2
    <3>3. \A d : Rank(d)' = Rank(d)
      BY DEF Rank
    <3>4. QED
      BY <3>1, <3>2, <3>3 DEF InOrder
  <2>4. Heard(m)'
    BY <2>1 DEF Heard
  <2>5. QED
    BY <1>2, <2>2, <2>3, <2>4 DEF Followed, RowFollows
<1>4. CASE ~Subscribed
  <2>1. stage = "offline" /\ inbox = <<>> /\ inbox' = <<>>
    BY <1>4 DEF Subscribed, TypeOK, FollowInv, InboxEmpty
  <2>2. DOMAIN inbox' = {}
    BY <2>1
  <2>3. ~Heard(m)' /\ InOrder(m)' /\ RowFollows(m)'
    BY <2>1, <2>2 DEF Heard, InOrder, RowFollows
  <2>4. QED
    BY <1>2, <2>3 DEF Followed
<1>5. QED
  BY <1>3, <1>4

\* What happens to one event does not touch the others' messages.
LEMMA PublishKeeps ==
  ASSUME TypeOK, FollowInv, NEW e \in unpublished, Publish(e) PROVE FollowInv'
<1> DEFINE m == e.message
<1>0. /\ unpublished' = unpublished \ {e} /\ UNCHANGED <<post, version, stage, snap, cached, replies>>
      /\ inbox' = inbox \/ (Subscribed /\ inbox' = Append(inbox, e))
      /\ disturbed' = disturbed \/ disturbed' = disturbed \cup {m}
      /\ m \in Messages /\ e \in Event /\ Committed(e)
  BY Typed DEF Publish, FollowInv, EventsCommitted
<1>1. /\ DOMAIN inbox' \in {1 .. Len(inbox), 1 .. Len(inbox) + 1}
      /\ \A i \in DOMAIN inbox : i \in DOMAIN inbox' /\ inbox'[i] = inbox[i]
      /\ \A i \in DOMAIN inbox' : i \notin DOMAIN inbox => inbox'[i] = e
  BY <1>0, Typed
<1>2. \A d : Rank(d)' = Rank(d) /\ Committed(d)' = Committed(d)
  BY <1>0 DEF Rank, Committed
<1>3. EventsCommitted' /\ DeletionsReal' /\ UnpostedUnedited' /\ InboxEmpty'
  <2>1. EventsCommitted'
    BY <1>0, <1>1, <1>2 DEF FollowInv, EventsCommitted
  <2>2. DeletionsReal' /\ UnpostedUnedited'
    BY <1>0 DEF FollowInv, DeletionsReal, UnpostedUnedited
  <2>3. InboxEmpty'
    BY <1>0 DEF FollowInv, InboxEmpty, Subscribed
  <2>4. QED
    BY <2>1, <2>2, <2>3
<1>4. ASSUME NEW n \in Messages \ disturbed', n # m PROVE Followed(n)'
  <2>1. Followed(n) /\ Top(n)' = Top(n)
    BY <1>0, <1>4 DEF FollowInv, Top
  <2>2. Waiting(n)' = Waiting(n) /\ Heard(n)' = Heard(n)
    BY <1>0, <1>1, <1>4 DEF Waiting, Heard
  <2>3. InOrder(n)'
    <3>1. \A i \in DOMAIN inbox' : inbox'[i].message = n => i \in DOMAIN inbox /\ inbox'[i] = inbox[i]
      BY <1>1, <1>4
    <3>2. QED
      BY <1>0, <1>2, <2>1, <3>1 DEF Followed, InOrder
  <2>4. RowFollows(n)'
    BY <1>0, <2>1, <2>2 DEF Followed, RowFollows, Matches
  <2>5. Top(n).message = n
    BY DEF Top
  <2>6. QED
    BY <1>0, <1>1, <1>4, <2>1, <2>2, <2>3, <2>4, <2>5 DEF Followed
<1>5. ASSUME m \notin disturbed' PROVE Followed(m)'
  <2>1. /\ m \notin disturbed /\ disturbed' = disturbed
        /\ ~Overtakes(e) /\ stage \notin {"fetched", "applied", "flushing"}
        /\ inbox' = IF Subscribed THEN Append(inbox, e) ELSE inbox
    BY <1>0, <1>5 DEF Publish
  <2>2. QED
    BY <1>0, <2>1, HeardKeeps
<1>6. QED
  BY <1>3, <1>4, <1>5 DEF FollowInv

\* The loop takes the next event: the row it writes is of the latest change if
\* nothing else of the message is on its way.
LEMMA HandleKeeps == ASSUME TypeOK, FollowInv, Handle PROVE FollowInv'
<1>0. PICK e : e = Head(inbox)
  OBVIOUS
<1> DEFINE m == e.message
<1>1. /\ inbox \in Seq(Event) /\ inbox # <<>> /\ inbox' = Tail(inbox) /\ stage = "connected"
      /\ UNCHANGED <<post, version, unpublished, stage, snap, replies>>
  BY Typed DEF Handle, Rest, server
<1>2. /\ Len(inbox) \in Nat \ {0} /\ DOMAIN inbox = 1 .. Len(inbox)
      /\ DOMAIN inbox' = 1 .. Len(inbox) - 1 /\ e = inbox[1]
      /\ \A i \in 1 .. Len(inbox) - 1 : inbox'[i] = inbox[i + 1]
  BY <1>0, <1>1, Typed
<1>3. /\ e \in Event /\ m \in Messages /\ Committed(e) /\ post[m] # "absent" /\ e.version <= version[m]
  BY <1>2, Typed DEF FollowInv, EventsCommitted, Committed
<1>4. \A d : Rank(d)' = Rank(d) /\ Committed(d)' = Committed(d)
  BY <1>1 DEF Rank, Committed
<1>5. /\ \A n \in Messages \ {m} : cached'[n] = cached[n]
      /\ disturbed \subseteq disturbed'
      /\ cached'[m].state = "deleted" => post[m] = "deleted"
      /\ m \notin disturbed' /\ e = Top(m) => Matches(cached'[m], m)
  <2>0. cached \in [Messages -> Row] /\ cached[m] \in Row
    BY <1>3, Typed
  <2>1. CASE /\ e.kind # "delete" /\ disturbed' = disturbed
             /\ cached' = [cached EXCEPT ![m] = Upsert(@, e.version)]
    <3>1. cached'[m] = Upsert(cached[m], e.version)
      BY <1>3, <2>0, <2>1
    <3>2. cached'[m].state = "deleted" => post[m] = "deleted"
      BY <1>3, <3>1 DEF Upsert, FollowInv, DeletionsReal
    <3>3. e = Top(m) => post[m] = "live" /\ e.version = version[m]
      BY <1>3, <2>1 DEF Top, TypeOK, FollowInv, Version
    <3>4. QED
      BY <1>3, <2>0, <2>1, <3>1, <3>2, <3>3 DEF Upsert, Matches
  <2>2. CASE e.kind # "delete" /\ disturbed' = disturbed \cup {m} /\ cached' = cached
    BY <1>3, <2>2 DEF FollowInv, DeletionsReal
  <2>3. CASE /\ e.kind = "delete" /\ disturbed' = disturbed
             /\ cached' = IF cached[m].state = "none" THEN cached
                          ELSE [cached EXCEPT ![m].state = "deleted"]
    <3>1. post[m] = "deleted"
      BY <1>3, <2>3 DEF Committed
    <3>2. cached'[m].state \in {"none", "deleted"}
      BY <1>3, <2>0, <2>3 DEF Row
    <3>3. QED
      BY <1>3, <2>0, <2>3, <3>1, <3>2 DEF Matches
  <2>4. QED
    BY <1>0, <2>1, <2>2, <2>3 DEF Handle
<1>6. EventsCommitted' /\ DeletionsReal' /\ UnpostedUnedited' /\ InboxEmpty'
  <2>1. EventsCommitted'
    BY <1>1, <1>2, <1>4 DEF FollowInv, EventsCommitted
  <2>2. DeletionsReal'
    BY <1>1, <1>5 DEF FollowInv, DeletionsReal
  <2>3. QED
    BY <1>1, <2>1, <2>2 DEF FollowInv, UnpostedUnedited, InboxEmpty
<1>7. ASSUME NEW n \in Messages \ disturbed' PROVE Followed(n)'
  <2>1. Followed(n) /\ Top(n)' = Top(n) /\ Waiting(n)' = Waiting(n)
    BY <1>1, <1>5 DEF FollowInv, Top, Waiting
  <2>2. InOrder(n)'
    <3>1. ASSUME NEW i \in DOMAIN inbox', inbox'[i].message = n
          PROVE  /\ \A j \in DOMAIN inbox' : i < j /\ inbox'[j].message = n
                                             => Rank(inbox'[i]) < Rank(inbox'[j])
                 /\ \A d \in unpublished : d.message = n => Rank(inbox'[i]) < Rank(d)
      <4>1. i + 1 \in DOMAIN inbox /\ inbox'[i] = inbox[i + 1] /\ i \in Nat
        BY <1>2
      <4>2. ASSUME NEW j \in DOMAIN inbox', i < j, inbox'[j].message = n
            PROVE  Rank(inbox'[i]) < Rank(inbox'[j])
        <5>1. j + 1 \in DOMAIN inbox /\ inbox'[j] = inbox[j + 1] /\ i + 1 < j + 1
          BY <1>2, <4>1, <4>2
        <5>2. QED
          BY <2>1, <3>1, <4>1, <4>2, <5>1 DEF Followed, InOrder
      <4>3. QED
        BY <2>1, <3>1, <4>1, <4>2 DEF Followed, InOrder
    <3>2. QED
      BY <1>1, <1>4, <3>1 DEF InOrder
  <2>3. \* the last event of n to be handled is the latest
        ASSUME ~Waiting(n), n = m
        PROVE  Heard(n)' \/ e = Top(n)
    <3>1. PICK i \in DOMAIN inbox : inbox[i] = Top(n)
      BY <1>2, <1>3, <2>1, <2>3 DEF Followed, Heard
    <3>2. Top(n).message = n
      BY DEF Top
    <3>3. CASE i # 1
      <4>1. i - 1 \in DOMAIN inbox' /\ inbox'[i - 1] = inbox[i]
        BY <1>2, <3>3
      <4>2. QED
        BY <3>1, <3>2, <4>1 DEF Heard
    <3>4. QED
      BY <1>2, <3>1, <3>3
  <2>4. ASSUME Heard(n)', ~Waiting(n) PROVE \E i \in DOMAIN inbox' : inbox'[i] = Top(n)
    <3>1. PICK j \in DOMAIN inbox' : inbox'[j].message = n
      BY <2>4 DEF Heard
    <3>2. j + 1 \in DOMAIN inbox /\ inbox[j + 1].message = n /\ 1 \in DOMAIN inbox /\ 1 < j + 1
      BY <1>2, <3>1
    <3>3. PICK i \in DOMAIN inbox : inbox[i] = Top(n)
      BY <2>1, <2>4, <3>2 DEF Followed, Heard
    <3>4. i # 1
      <4>1. SUFFICES ASSUME i = 1 PROVE FALSE
        OBVIOUS
      <4>2. e = Top(n) /\ n = m
        BY <1>2, <3>3, <4>1 DEF Top
      <4>3. Rank(e) < Rank(inbox[j + 1])
        BY <1>2, <2>1, <3>2, <4>2 DEF Followed, InOrder
      <4>4. inbox[j + 1] \in Event /\ Committed(inbox[j + 1])
        BY <3>2, Typed DEF FollowInv, EventsCommitted
      <4>5. Rank(inbox[j + 1]) <= Rank(e) /\ Rank(e) \in Nat /\ Rank(inbox[j + 1]) \in Nat
        BY <1>3, <3>2, <4>2, <4>4, TopIsLatest, RankOrder
      <4>6. QED
        BY <4>3, <4>5
    <3>5. i - 1 \in DOMAIN inbox' /\ inbox'[i - 1] = inbox[i]
      BY <1>2, <3>4
    <3>6. QED
      BY <3>3, <3>5
  <2>5. RowFollows(n)'
    <3>1. SUFFICES ASSUME ~Heard(n)', ~Waiting(n) PROVE Matches(cached'[n], n)
      BY <1>1, <2>1 DEF RowFollows, Matches
    <3>2. CASE n = m
      BY <1>5, <2>3, <3>1, <3>2
    <3>3. CASE n # m
      <4>1. ~Heard(n)
        <5>1. ASSUME NEW i \in DOMAIN inbox, inbox[i].message = n PROVE FALSE
          <6>1. i - 1 \in DOMAIN inbox' /\ inbox'[i - 1] = inbox[i]
            BY <1>2, <3>3, <5>1
          <6>2. QED
            BY <3>1, <5>1, <6>1 DEF Heard
        <5>2. QED
          BY <5>1 DEF Heard
      <4>2. QED
        BY <1>1, <1>5, <2>1, <3>1, <3>3, <4>1 DEF Followed, RowFollows
    <3>4. QED
      BY <3>2, <3>3
  <2>6. QED
    BY <1>1, <2>1, <2>2, <2>4, <2>5 DEF Followed
<1>8. QED
  BY <1>6, <1>7 DEF FollowInv

\* A step of the loop without events: nothing is on its way to it.
LEMMA StageKeeps ==
  ASSUME TypeOK, FollowInv,
         \/ Fetch \/ Apply \/ Flush \/ Connect \/ Refetch \/ Reapply \/ Disconnect \/ Restart
  PROVE  FollowInv'
<1>0. UNCHANGED <<post, version, unpublished>> /\ replies' \subseteq replies
      /\ inbox' \in {inbox, <<>>}
  BY DEF Fetch, Apply, Flush, Connect, Refetch, Reapply, Disconnect, Restart, Rest, server
<1>1. \A d : Rank(d)' = Rank(d) /\ Committed(d)' = Committed(d)
  BY <1>0 DEF Rank, Committed
<1>2. EventsCommitted' /\ UnpostedUnedited'
  BY <1>0, <1>1 DEF FollowInv, EventsCommitted, UnpostedUnedited
<1>3. DeletionsReal'
  <2>1. \A n \in Messages : Snapshot[n].state # "deleted" /\ NoRow.state # "deleted"
    BY DEF Snapshot, NoRow
  <2>2. /\ snap' \in {snap, Snapshot, [n \in Messages |-> NoRow]}
        /\ cached' \in {cached, snap}
    BY DEF Fetch, Apply, Flush, Connect, Refetch, Reapply, Replace, Disconnect, Restart, Rest
  <2>3. QED
    BY <1>0, <2>1, <2>2 DEF FollowInv, DeletionsReal
<1>4. InboxEmpty'
  BY DEF Fetch, Apply, Flush, Connect, Refetch, Reapply, Disconnect, Restart, FollowInv, InboxEmpty
<1>5. ASSUME NEW n \in Messages PROVE Matches(Snapshot[n], n)
  BY DEF Snapshot, Matches, NoRow, TypeOK
<1>6. ASSUME NEW n \in Messages \ disturbed' PROVE Followed(n)'
  <2>1. Top(n)' = Top(n) /\ Waiting(n)' = Waiting(n)
    BY <1>0 DEF Top, Waiting
  <2>2. ASSUME inbox' = <<>> PROVE ~Heard(n)' /\ InOrder(n)'
    BY <2>2 DEF Heard, InOrder
  <2>3. CASE Fetch
    <3>1. inbox' = <<>> /\ stage' = "fetched" /\ snap' = Snapshot
      BY <2>3 DEF Fetch, FollowInv, InboxEmpty
    <3>2. Waiting(n) => n \notin disturbed
      BY <2>3 DEF Fetch, Waiting
    <3>3. RowFollows(n)'
      BY <1>0, <1>5, <3>1 DEF RowFollows, Matches
    <3>4. QED
      BY <1>0, <2>1, <2>2, <3>1, <3>2, <3>3 DEF FollowInv, Followed
  <2>4. ASSUME disturbed' = disturbed, inbox' = inbox, RowFollows(n)' PROVE Followed(n)'
    BY <1>0, <1>1, <2>1, <2>4 DEF FollowInv, Followed, InOrder, Heard
  <2>5. CASE Refetch
    <3>1. RowFollows(n)'
      BY <1>0, <1>5, <2>5 DEF Refetch, RowFollows, Matches
    <3>2. QED
      BY <2>4, <2>5, <3>1 DEF Refetch
  <2>6. CASE Apply \/ Flush \/ Connect \/ Reapply
    <3>1. disturbed' = disturbed /\ inbox' = inbox
      BY <2>6 DEF Apply, Flush, Connect, Reapply, FollowInv, InboxEmpty
    <3>2. Followed(n)
      BY <3>1 DEF FollowInv
    <3>3. RowFollows(n)'
      BY <1>0, <2>1, <2>6, <3>1, <3>2
         DEF Apply, Flush, Connect, Reapply, Replace, Followed, RowFollows, Matches, Heard
    <3>4. QED
      BY <2>4, <3>1, <3>3
  <2>7. CASE Disconnect \/ Restart
    <3>1. inbox' = <<>> /\ stage' = "offline" /\ disturbed' = disturbed
      BY <2>7 DEF Disconnect, Restart
    <3>2. RowFollows(n)'
      BY <3>1 DEF RowFollows
    <3>3. QED
      BY <1>0, <2>1, <2>2, <3>1, <3>2 DEF FollowInv, Followed
  <2>8. QED
    BY <2>3, <2>5, <2>6, <2>7
<1>7. QED
  BY <1>2, <1>3, <1>4, <1>6 DEF FollowInv

\* Every step keeps it.
LEMMA NextFollowInv ==
  ASSUME TypeOK, TasksLinked, FollowInv, [Next]_vars PROVE FollowInv'
<1>1. ASSUME UNCHANGED <<post, version, unpublished, inbox, stage, snap, cached, replies, disturbed>>
      PROVE  FollowInv'
  <2>1. EventsCommitted' /\ DeletionsReal' /\ UnpostedUnedited' /\ InboxEmpty'
    BY <1>1 DEF FollowInv, EventsCommitted, Committed, DeletionsReal, UnpostedUnedited, InboxEmpty
  <2>2. ASSUME NEW m \in Messages \ disturbed' PROVE Followed(m)'
    <3>1. Followed(m)
      BY <1>1 DEF FollowInv
    <3>2. InOrder(m)' = InOrder(m) /\ Heard(m)' = Heard(m) /\ Waiting(m)' = Waiting(m)
      BY <1>1 DEF InOrder, Rank, Heard, Waiting
    <3>3. RowFollows(m)'
      BY <1>1, <3>1, <3>2 DEF Followed, RowFollows, Matches
    <3>4. QED
      BY <1>1, <3>1, <3>2, <3>3 DEF Followed, Top
  <2>3. QED
    BY <2>1, <2>2 DEF FollowInv
<1>2. ASSUME NEW m \in Messages, Store(m),
             UNCHANGED <<version, inbox, stage, snap, cached, replies, disturbed>>
      PROVE  FollowInv'
  BY <1>1, <1>2, StoreChanges, ChangeKeeps DEF FollowInv
<1>3. ASSUME NEW m \in Messages, Edit(m) \/ Delete(m) PROVE FollowInv'
  BY <1>3, EditChanges, DeleteChanges, ChangeKeeps
<1>4. ASSUME NEW m \in Messages, LateStore(m) PROVE FollowInv'
  BY <1>2, <1>4 DEF LateStore
<1>5. ASSUME NEW k \in Tasks, Create(k) PROVE FollowInv'
  <2>1. task[k].message \in Messages
    BY DEF TypeOK, Task
  <2>2. QED
    BY <1>2, <1>5, <2>1 DEF Create, Quiet
<1>6. ASSUME NEW m \in Messages, Send(m) \/ CoolDown(m) \/ LateLook(m) PROVE FollowInv'
  BY <1>1, <1>6 DEF Send, CoolDown, LateLook, server
<1>7. ASSUME NEW k \in Tasks, Ask(k) \/ Look(k) \/ Refuse(k) \/ Fail(k) PROVE FollowInv'
  BY <1>1, <1>7 DEF Ask, Look, Quiet, Refuse, Fail, Record, server
<1>8. CASE Requeue \/ Maintain \/ UNCHANGED vars
  BY <1>1, <1>8 DEF Requeue, Maintain, Rest, server, vars
<1>9. QED
  BY <1>3, <1>4, <1>5, <1>6, <1>7, <1>8, AcknowledgeKeeps, ReplyKeeps, PublishKeeps, HandleKeeps,
     StageKeeps DEF Next, Deliver

\* The cached row of a message is the server's whenever nothing of it is on its way
\* and none of its changes was missed (apply_gateway_event, apply_remote_snapshot).
THEOREM CacheFollowsServerThm == Spec => []CacheFollowsServer
<1>1. Init => FollowInv
  <2>1. ASSUME Init PROVE FollowInv
    <3>1. /\ unpublished = {} /\ replies = {} /\ DOMAIN inbox = {} /\ stage = "offline" /\ inbox = <<>>
          /\ \A m \in Messages : version[m] = 0 /\ cached[m] = NoRow /\ snap[m] = NoRow
      BY <2>1 DEF Init
    <3>2. QED
      BY <3>1 DEF FollowInv, EventsCommitted, DeletionsReal, UnpostedUnedited, InboxEmpty, Followed,
                  Waiting, Heard, InOrder, RowFollows, NoRow
  <2>2. QED
    BY <2>1
<1>2. IInv /\ FollowInv /\ [Next]_vars => FollowInv'
  BY NextFollowInv DEF IInv
<1>3. IInv /\ FollowInv => CacheFollowsServer
  <2>1. ASSUME FollowInv, NEW m \in Messages \ disturbed, stage = "connected", inbox = <<>>,
               \A e \in unpublished : e.message # m
        PROVE  Matches(cached[m], m)
    <3>1. ~Heard(m) /\ ~Waiting(m)
      BY <2>1 DEF Heard, Waiting
    <3>2. QED
      BY <2>1, <3>1 DEF FollowInv, Followed, RowFollows
  <2>2. QED
    BY <2>1 DEF CacheFollowsServer, Matches
<1>4. QED
  BY <1>1, <1>2, <1>3, Inductive, PTL DEF Spec

=============================================================================
