------------------------ MODULE DesktopSessionProofs ------------------------
(* Theorems about DesktopSession, for any tasks and any number of tokens. *)
EXTENDS DesktopSession, TLAPS

USE MaxTokensAssumption, TasksAssumption DEF NoToken, Token

\* TypeOK in two parts: what the tasks carry, and the rest.
Holders == {"attempt", "queue", "exchange", "granted", "refused", "save", "check", "erase"}
TasksOK ==
    /\ task \in [Tasks -> TaskState]
    /\ \A k \in Tasks : task[k].token <= last
    /\ \A k \in Tasks : task[k].stage \in Holders => task[k].token # NoToken
StoresOK ==
    /\ last \in 0 .. MaxTokens
    /\ session \in [Token -> Token \cup {NoToken}]
    /\ \A t \in Token : session[t] <= t /\ (session[t] # NoToken <=> t <= last)
    /\ spent \subseteq 1 .. last
    /\ reused \subseteq ended /\ ended \subseteq 1 .. last
    /\ expired \in 0 .. last
    /\ memory \in 0 .. last /\ vault \in 0 .. last
    /\ lock \in Tasks \cup {NoTask}
    /\ left \subseteq 1 .. last
    /\ happened \subseteq Disturbances

LEMMA TypeOKParts == TypeOK <=> TasksOK /\ StoresOK
BY DEF TypeOK, TasksOK, StoresOK, Holders

LEMMA InitTypeOK == Init => TypeOK
BY DEF Init, TypeOK, Idle, TaskState, Operations, Calls, Stages

\* A task that moves to a stage with a token that was issued stays well typed.
LEMMA CarryOK ==
  ASSUME TasksOK, StoresOK, NEW k \in Tasks, NEW stage \in Stages, NEW t \in 0 .. last',
         Carry(k, stage, t), stage \in Holders => t # NoToken,
         last' \in 0 .. MaxTokens, last <= last'
  PROVE  TasksOK'
<1>1. task[k] \in TaskState /\ [task[k] EXCEPT !.stage = stage, !.token = t] \in TaskState
  <2>1. task[k] \in TaskState
    BY DEF TasksOK
  <2>2. t \in Token \cup {NoToken}
    OBVIOUS
  <2>3. QED
    BY <2>1, <2>2 DEF TaskState
<1>2. /\ task' = [task EXCEPT ![k] = [task[k] EXCEPT !.stage = stage, !.token = t]]
      /\ task' \in [Tasks -> TaskState]
  BY <1>1 DEF Carry, TasksOK
<1>3. \A j \in Tasks : task[j].token \in 0 .. MaxTokens
  BY DEF TasksOK, TaskState
<1>4. ASSUME NEW j \in Tasks
      PROVE  task'[j].token <= last' /\ (task'[j].stage \in Holders => task'[j].token # NoToken)
  <2>1. CASE j = k
    <3>1. task'[j] = [task[k] EXCEPT !.stage = stage, !.token = t]
      BY <1>2, <2>1 DEF TasksOK
    <3>2. task'[j].token = t /\ task'[j].stage = stage
      BY <1>1, <3>1 DEF TaskState
    <3>3. QED
      BY <3>2
  <2>2. CASE j # k
    <3>1. task'[j] = task[j]
      BY <1>2, <2>2 DEF TasksOK
    <3>2. QED
      BY <1>3, <3>1 DEF TasksOK, StoresOK
  <2>3. QED
    BY <2>1, <2>2
<1>5. QED
  BY <1>2, <1>4 DEF TasksOK

LEMMA GotoOK ==
  ASSUME TasksOK, StoresOK, NEW k \in Tasks, NEW stage \in Stages, Goto(k, stage),
         stage \in Holders => task[k].token # NoToken, last' = last
  PROVE  TasksOK'
<1>1. task[k].token \in 0 .. last
  BY DEF TasksOK, TaskState, StoresOK
<1>2. Carry(k, stage, task[k].token)
  <2>1. [task[k] EXCEPT !.stage = stage] = [task[k] EXCEPT !.stage = stage, !.token = task[k].token]
    BY DEF TasksOK, TaskState
  <2>2. QED
    BY <2>1 DEF Carry, Goto, TasksOK
<1>3. QED
  BY <1>1, <1>2, CarryOK DEF StoresOK

LEMMA EndOK ==
  ASSUME TasksOK, StoresOK, NEW k \in Tasks, End(k), last' = last
  PROVE  TasksOK'
BY DEF TasksOK, StoresOK, End, Idle, TaskState, Operations, Calls, Stages, Holders

LEMMA BeginOK ==
  ASSUME TasksOK, StoresOK, NEW k \in Tasks, NEW op \in Operations, NEW stage \in Stages,
         NEW t \in 0 .. last, Begin(k, op, stage, t), stage \in Holders => t # NoToken, last' = last
  PROVE  TasksOK'
<1>1. Received \subseteq Token
  BY DEF Received, StoresOK
<1>2. QED
  BY <1>1 DEF TasksOK, StoresOK, Begin, TaskState

LEMMA FreshOK == ASSUME TasksOK, StoresOK, Fresh, last' = last PROVE TasksOK'
BY DEF TasksOK, StoresOK, Fresh, Idle, TaskState, Operations, Calls, Stages, Holders

\* A new token of a session that exists, or of a new one, is well typed.
LEMMA IssueOK ==
  ASSUME StoresOK, NEW s \in 1 .. last + 1, Issue(s), spent' \subseteq 1 .. last,
         UNCHANGED <<expired, memory, vault, lock, left, happened, ended, reused>>
  PROVE  StoresOK'
<1>1. last' = last + 1 /\ last' \in 0 .. MaxTokens
  BY DEF Issue, StoresOK
<1>2. session' \in [Token -> Token \cup {NoToken}]
  BY <1>1 DEF Issue, StoresOK
<1>3. ASSUME NEW t \in Token
      PROVE  session'[t] <= t /\ (session'[t] # NoToken <=> t <= last')
  <2>1. session'[t] = IF t = last + 1 THEN s ELSE session[t]
    BY <1>1 DEF Issue, StoresOK
  <2>2. QED
    BY <1>1, <2>1 DEF StoresOK
<1>4. QED
  BY <1>1, <1>2, <1>3 DEF StoresOK

\* What a call does once the server has answered it.
LEMMA AnsweredOK ==
  ASSUME TasksOK, StoresOK, NEW k \in Tasks, Answered(k), last' = last
  PROVE  TasksOK' /\ ended' \subseteq 1 .. last /\ ended \subseteq ended' /\ happened' \subseteq Disturbances
<1>1. CASE End(k) /\ UNCHANGED <<ended, happened>>
  BY <1>1, EndOK DEF StoresOK
<1>2. CASE Goto(k, "persist") /\ UNCHANGED <<ended, happened>>
  BY <1>2, GotoOK DEF StoresOK, Stages, Holders
<1>3. CASE Goto(k, "refresh") /\ happened' = happened \cup {"cancel"} /\ UNCHANGED ended
  BY <1>3, GotoOK DEF StoresOK, Stages, Holders, Disturbances
<1>4. CASE ended' = ended \cup {session[t] : t \in 1 .. last} /\ Goto(k, "leave") /\ UNCHANGED happened
  <2>1. ASSUME NEW t \in 1 .. last PROVE session[t] \in 1 .. last
    BY DEF StoresOK
  <2>2. QED
    BY <1>4, <2>1, GotoOK DEF StoresOK, Stages, Holders
<1>5. QED
  BY <1>1, <1>2, <1>3, <1>4 DEF Answered

LEMMA NextTypeOK == TypeOK /\ [Next]_vars => TypeOK'
<1> SUFFICES ASSUME TasksOK, StoresOK, [Next]_vars PROVE TasksOK' /\ StoresOK'
  BY DEF TypeOK, TasksOK, StoresOK, Holders
<1> USE DEF serverVars
<1>0. \A k \in Tasks : /\ task[k] \in TaskState /\ task[k].token \in 0 .. last
                       /\ task[k].stage \in Holders => task[k].token \in 1 .. last
  BY DEF TasksOK, StoresOK, TaskState
<1>1. ASSUME NEW k \in Tasks, NEW op \in Calls, BeginCall(k, op) PROVE TasksOK' /\ StoresOK'
  BY <1>1, BeginOK DEF BeginCall, StoresOK, Operations, Stages
<1>2. ASSUME NEW k \in Tasks, BeginRestore(k) PROVE TasksOK' /\ StoresOK'
  BY <1>2, BeginOK DEF BeginRestore, StoresOK, Operations, Stages, Holders
<1>3. ASSUME NEW k \in Tasks, BeginSignin(k) PROVE TasksOK' /\ StoresOK'
  BY <1>3, BeginOK DEF BeginSignin, StoresOK, Operations, Stages, Holders
<1>4. ASSUME NEW k \in Tasks, BeginLogout(k) PROVE TasksOK' /\ StoresOK'
  BY <1>4, BeginOK DEF BeginLogout, StoresOK, Operations, Stages, Holders
<1>5. ASSUME NEW k \in Tasks, Continue(k) PROVE TasksOK' /\ StoresOK'
  <2>1. CASE Attempt(k)
    <3>1. CASE Answered(k)
      BY <2>1, <3>1, AnsweredOK DEF Attempt, StoresOK
    <3>2. CASE Goto(k, "queue") /\ UNCHANGED <<ended, happened>>
      BY <1>0, <2>1, <3>2, GotoOK DEF Attempt, At, StoresOK, Stages, Holders
    <3>3. QED
      BY <2>1, <3>1, <3>2 DEF Attempt
  <2>2. CASE AcquireLock(k)
    <3>1. TasksOK'
      BY <1>0, <2>2, GotoOK, CarryOK DEF AcquireLock, At, StoresOK, Stages, Holders
    <3>2. QED
      BY <2>2, <3>1 DEF AcquireLock, StoresOK
  <2>3. CASE Refresh(k)
    <3>1. CASE memory # NoToken
      BY <2>3, <3>1, CarryOK DEF Refresh, StoresOK, Stages
    <3>2. CASE memory = NoToken
      BY <2>3, <3>2, EndOK DEF Refresh, StoresOK
    <3>3. QED
      BY <3>1, <3>2
  <2>4. CASE Retry(k)
    <3>1. CASE Answered(k)
      BY <2>4, <3>1, AnsweredOK DEF Retry, Release, StoresOK
    <3>2. CASE End(k) /\ UNCHANGED <<ended, happened>>
      BY <2>4, <3>2, EndOK DEF Retry, Release, StoresOK
    <3>3. QED
      BY <2>4, <3>1, <3>2 DEF Retry
  <2>5. CASE Exchange(k)
    <3>1. task[k].token \in 1 .. last /\ session[task[k].token] \in 1 .. last
      BY <1>0, <2>5 DEF Exchange, At, Holders, StoresOK
    <3>2. CASE Goto(k, "refused") /\ UNCHANGED last
      <4>1. TasksOK'
        BY <3>1, <3>2, GotoOK DEF Stages
      <4>2. /\ UNCHANGED <<session, expired, memory, vault, lock, left, happened>>
            /\ spent' = spent
            /\ ended' \subseteq ended \cup {session[task[k].token]}
            /\ reused' \subseteq ended'
        <5>1. ~Issue(session[task[k].token])
          BY <3>2 DEF Issue, StoresOK
        <5>2. QED
          BY <2>5, <5>1 DEF Exchange, StoresOK
      <4>3. QED
        BY <3>1, <3>2, <4>1, <4>2 DEF StoresOK
    <3>3. CASE Issue(session[task[k].token]) /\ Carry(k, "granted", last + 1)
               /\ spent' = spent \cup {task[k].token} /\ UNCHANGED <<ended, reused>>
      <4>1. TasksOK'
        BY <3>3, CarryOK DEF Issue, StoresOK, Stages
      <4>2. UNCHANGED <<expired, memory, vault, lock, left, happened, ended, reused>>
        BY <2>5, <3>3 DEF Exchange
      <4>3. StoresOK'
        <5>1. spent' = spent \cup {task[k].token} /\ spent \subseteq 1 .. last
          BY <3>3 DEF StoresOK
        <5>2. spent' \subseteq 1 .. last
          BY <3>1, <5>1
        <5>3. session[task[k].token] \in 1 .. last + 1
          BY <3>1 DEF StoresOK
        <5>4. QED
          BY <3>3, <4>2, <5>2, <5>3, IssueOK
      <4>4. QED
        BY <4>1, <4>3
    <3>4. QED
      BY <2>5, <3>2, <3>3 DEF Exchange
  <2>6. CASE Granted(k)
    <3>1. memory' \in 0 .. last /\ task[k].token # NoToken
      BY <1>0, <2>6 DEF Granted, At, Holders, StoresOK
    <3>2. TasksOK'
      BY <2>6, <3>1, GotoOK, EndOK DEF Granted, Stages
    <3>3. QED
      BY <2>6, <3>1, <3>2 DEF Granted, StoresOK, Disturbances
  <2>7. CASE Refused(k)
    <3>1. TasksOK'
      BY <1>0, <2>7, GotoOK, EndOK DEF Refused, At, Stages, Holders
    <3>2. QED
      BY <2>7, <3>1 DEF Refused, Release, StoresOK
  <2>8. CASE Load(k)
    <3>1. TasksOK'
      BY <2>8, CarryOK, EndOK DEF Load, Stages, StoresOK
    <3>2. QED
      BY <2>8, <3>1 DEF Load, StoresOK
  <2>9. CASE Check(k)
    BY <1>0, <2>9, GotoOK DEF Check, At, StoresOK, Stages, Holders
  <2>10. CASE Erase(k)
    BY <2>10, GotoOK DEF Erase, StoresOK, Stages, Holders
  <2>11. CASE Forget(k)
    BY <2>11, EndOK DEF Forget, StoresOK, Disturbances
  <2>12. CASE Login(k)
    <3>1. TasksOK'
      BY <2>12, CarryOK DEF Login, Issue, StoresOK, Stages
    <3>2. StoresOK'
      BY <2>12, IssueOK DEF Login, Issue, StoresOK
    <3>3. QED
      BY <3>1, <3>2
  <2>13. CASE Persist(k)
    <3>1. TasksOK'
      BY <2>13, CarryOK, EndOK DEF Persist, Stages, StoresOK
    <3>2. QED
      BY <2>13, <3>1 DEF Persist, StoresOK
  <2>14. CASE Save(k)
    <3>1. task[k].token \in 0 .. last
      BY <1>0
    <3>2. TasksOK'
      BY <2>14, EndOK, GotoOK DEF Save, Stages, Holders
    <3>3. QED
      BY <2>14, <3>1, <3>2 DEF Save, StoresOK
  <2>15. CASE Logout(k)
    <3>1. session[task[k].token] \in 1 .. last \/ ~Authenticates(task[k].token)
      BY <1>0 DEF StoresOK, Authenticates
    <3>2. TasksOK'
      BY <2>15, GotoOK DEF Logout, Stages, Holders
    <3>3. QED
      BY <2>15, <3>1, <3>2 DEF Logout, StoresOK
  <2>16. CASE Leave(k)
    <3>1. \A t \in {memory, task[k].token} \ {NoToken} : session[t] \in 1 .. last
      BY <1>0 DEF StoresOK
    <3>2. TasksOK'
      BY <2>16, GotoOK DEF Leave, Stages, Holders
    <3>3. left' \subseteq 1 .. last
      BY <2>16, <3>1 DEF Leave, StoresOK
    <3>4. QED
      BY <2>16, <3>2, <3>3 DEF Leave, StoresOK
  <2>17. CASE Wipe(k)
    BY <2>17, GotoOK DEF Wipe, StoresOK, Stages, Holders
  <2>18. CASE Restart(k)
    <3>1. TasksOK'
      BY <2>18, FreshOK DEF Restart
    <3>2. QED
      BY <2>18, <3>1 DEF Restart, Fresh, StoresOK, Disturbances
  <2>19. QED
    BY <1>5, <2>1, <2>2, <2>3, <2>4, <2>5, <2>6, <2>7, <2>8, <2>9, <2>10, <2>11, <2>12,
       <2>13, <2>14, <2>15, <2>16, <2>17, <2>18 DEF Continue
<1>6. ASSUME NEW k \in Tasks, Lost(k) PROVE TasksOK' /\ StoresOK'
  <2>1. TasksOK'
    BY <1>6, EndOK, GotoOK DEF Lost, Stages, Holders
  <2>2. QED
    BY <1>6, <2>1 DEF Lost, Release, StoresOK, Disturbances
<1>7. CASE Expire
  <2>1. TasksOK'
    BY <1>7 DEF Expire, TasksOK
  <2>2. expired' \in 0 .. last
    BY <1>7 DEF Expire, StoresOK
  <2>3. QED
    BY <1>7, <2>1, <2>2 DEF Expire, StoresOK
<1>8. CASE RevokeSession
  <2>1. TasksOK'
    BY <1>8 DEF RevokeSession, TasksOK
  <2>2. PICK t \in 1 .. last : ended' = ended \cup {session[t]}
    BY <1>8 DEF RevokeSession
  <2>3. session[t] \in 1 .. last
    BY DEF StoresOK
  <2>4. QED
    BY <1>8, <2>1, <2>2, <2>3 DEF RevokeSession, StoresOK, Disturbances
<1>9. CASE Quit
  <2>1. TasksOK'
    BY <1>9, FreshOK DEF Quit
  <2>2. QED
    BY <1>9, <2>1 DEF Quit, Fresh, StoresOK, Disturbances
<1>10. CASE UNCHANGED vars
  BY <1>10 DEF vars, TasksOK, StoresOK
<1>11. QED
  BY <1>1, <1>2, <1>3, <1>4, <1>5, <1>6, <1>7, <1>8, <1>9, <1>10 DEF Next

\* Memory, vault, tasks and the server's tokens keep their shape in every
\* reachable state.
THEOREM TypeCorrect == Spec => []TypeOK
BY InitTypeOK, NextTypeOK, PTL DEF Spec

-----------------------------------------------------------------------------
(* Only a refresh and a login touch the list of tokens; nothing un-spends a *)
(* token or reopens a session.                                              *)
LEMMA QuietSteps ==
  [Next]_vars => \/ UNCHANGED <<last, session, spent>> /\ ended \subseteq ended'
                 \/ \E k \in Tasks : Exchange(k) \/ Login(k)
<1> SUFFICES ASSUME [Next]_vars, \A k \in Tasks : ~Exchange(k) /\ ~Login(k)
             PROVE  UNCHANGED <<last, session, spent>> /\ ended \subseteq ended'
  OBVIOUS
<1> USE DEF serverVars
<1>1. ASSUME NEW k \in Tasks, NEW op \in Calls, BeginCall(k, op)
      PROVE  UNCHANGED <<last, session, spent, ended>>
  BY <1>1 DEF BeginCall
<1>2. ASSUME NEW k \in Tasks, BeginRestore(k) \/ BeginSignin(k) \/ BeginLogout(k) \/ Lost(k)
      PROVE  UNCHANGED <<last, session, spent, ended>>
  BY <1>2 DEF BeginRestore, BeginSignin, BeginLogout, Lost
<1>3. ASSUME NEW k \in Tasks, Attempt(k) \/ Retry(k)
      PROVE  UNCHANGED <<last, session, spent>> /\ ended \subseteq ended'
  BY <1>3 DEF Attempt, Retry, Answered
<1>4. ASSUME NEW k \in Tasks, Continue(k), ~Attempt(k), ~Retry(k)
      PROVE  UNCHANGED <<last, session, spent>> /\ ended \subseteq ended'
  <2>1. CASE AcquireLock(k) \/ Refresh(k) \/ Granted(k) \/ Refused(k) \/ Load(k) \/ Check(k)
    BY <2>1 DEF AcquireLock, Refresh, Granted, Refused, Load, Check
  <2>2. CASE Erase(k) \/ Forget(k) \/ Persist(k) \/ Save(k) \/ Logout(k)
    BY <2>2 DEF Erase, Forget, Persist, Save, Logout
  <2>3. CASE Leave(k) \/ Wipe(k) \/ Restart(k)
    BY <2>3 DEF Leave, Wipe, Restart
  <2>4. QED
    BY <1>4, <2>1, <2>2, <2>3 DEF Continue
<1>5. CASE Expire \/ RevokeSession \/ Quit \/ UNCHANGED vars
  BY <1>5 DEF Expire, RevokeSession, Quit, vars
<1>6. QED
  BY <1>1, <1>2, <1>3, <1>4, <1>5 DEF Next

\* A rotation spends the token it replaces, and a login opens a new session.
LEMMA NextOneUsable ==
  ASSUME TypeOK, OneUsableTokenPerSession, [Next]_vars PROVE OneUsableTokenPerSession'
<1>0. last \in 0 .. MaxTokens /\ session \in [Token -> Token \cup {NoToken}]
      /\ \A t \in Token : session[t] <= t
  BY DEF TypeOK
<1>1. CASE UNCHANGED <<last, session, spent>>
  BY <1>1 DEF OneUsableTokenPerSession
<1>2. ASSUME NEW k \in Tasks, Login(k) PROVE OneUsableTokenPerSession'
  <2>1. last' = last + 1 /\ spent' = spent /\ last < MaxTokens
    BY <1>2 DEF Login, Issue
  <2>2. \A t \in 1 .. last' : session'[t] = IF t = last + 1 THEN last + 1 ELSE session[t]
    BY <1>0, <1>2, <2>1 DEF Login, Issue
  <2>3. \A t \in 1 .. last : session[t] <= last
    BY <1>0
  <2>4. QED
    BY <1>0, <2>1, <2>2, <2>3 DEF OneUsableTokenPerSession
<1>3. ASSUME NEW k \in Tasks, Exchange(k) PROVE OneUsableTokenPerSession'
  <2>1. CASE UNCHANGED <<last, session, spent>>
    BY <1>1, <2>1
  <2>2. CASE /\ task[k].token \notin spent
             /\ spent' = spent \cup {task[k].token}
             /\ Issue(session[task[k].token])
    <3> DEFINE r == task[k].token
    <3>1. r \in 1 .. last
      BY <1>0, <1>3 DEF Exchange, At, TypeOK, TaskState
    <3>2. last' = last + 1 /\ last < MaxTokens
      BY <2>2 DEF Issue
    <3>3. \A t \in 1 .. last' : session'[t] = IF t = last + 1 THEN session[r] ELSE session[t]
      BY <1>0, <2>2, <3>2 DEF Issue
    <3>4. \A t \in 1 .. last : session[t] = session[r] => t \in spent'
      BY <2>2, <3>1 DEF OneUsableTokenPerSession
    <3>5. QED
      <4> SUFFICES ASSUME NEW t \in 1 .. last', NEW u \in 1 .. last',
                          session'[t] = session'[u], t \notin spent', u \notin spent'
                   PROVE  t = u
        BY DEF OneUsableTokenPerSession
      <4>1. t \notin spent /\ u \notin spent
        BY <2>2
      <4>2. CASE t \in 1 .. last /\ u \in 1 .. last
        BY <1>0, <3>3, <4>1, <4>2 DEF OneUsableTokenPerSession
      <4>3. CASE t = last + 1 \/ u = last + 1
        BY <1>0, <3>2, <3>3, <3>4, <4>3
      <4>4. QED
        BY <1>0, <3>2, <4>2, <4>3
  <2>3. QED
    BY <1>3, <2>1, <2>2 DEF Exchange
<1>4. QED
  BY <1>1, <1>2, <1>3, QuietSteps

\* However tokens are rotated, presented again or lost, a session never has
\* two refresh tokens that work.
THEOREM OneUsableToken == Spec => []OneUsableTokenPerSession
<1>1. Init => OneUsableTokenPerSession
  BY DEF Init, OneUsableTokenPerSession
<1>2. QED
  BY <1>1, TypeCorrect, NextOneUsable, PTL DEF Spec

-----------------------------------------------------------------------------
(* A refused token is dead, and stays dead.                                 *)
RefusedAreDead ==
    \A k \in Tasks : task[k].stage \in {"refused", "check"} => ~Usable(task[k].token)

LEMMA DeadStaysDead ==
  ASSUME TypeOK, [Next]_vars, NEW t \in 0 .. last, ~Usable(t) PROVE ~Usable(t)'
<1>1. CASE UNCHANGED <<last, session, spent>> /\ ended \subseteq ended'
  BY <1>1 DEF Usable
<1>2. ASSUME NEW k \in Tasks, Exchange(k) \/ Login(k) PROVE ~Usable(t)'
  <2>1. spent \subseteq spent' /\ ended \subseteq ended'
    BY <1>2 DEF Exchange, Login
  <2>2. t # NoToken => session'[t] = session[t]
    BY <1>2 DEF Exchange, Login, Issue, TypeOK
  <2>3. QED
    BY <2>1, <2>2 DEF Usable
<1>3. QED
  BY <1>1, <1>2, QuietSteps

\* Where a step leaves a task that it does not end or begin.
LEMMA StageOf ==
  ASSUME task \in [Tasks -> TaskState], NEW k \in Tasks, NEW j \in Tasks, NEW s \in Stages,
         Goto(j, s) \/ (\E t \in Token \cup {NoToken} : Carry(j, s, t))
  PROVE  IF j = k THEN task'[k].stage = s ELSE task'[k] = task[k]
<1>1. task[j] \in TaskState
  OBVIOUS
<1>2. CASE Goto(j, s)
  BY <1>1, <1>2 DEF Goto, TaskState
<1>3. ASSUME NEW t \in Token \cup {NoToken}, Carry(j, s, t)
      PROVE  IF j = k THEN task'[k].stage = s ELSE task'[k] = task[k]
  BY <1>1, <1>3 DEF Carry, TaskState
<1>4. QED
  BY <1>2, <1>3

\* A task is refused by the server, and only a refused one checks the vault,
\* and only a check decides to erase.
Late == {"refused", "check", "erase"}
NotLate(k) == task'[k].stage \notin Late \/ task'[k] = task[k]
WasRefused(k) == /\ task'[k].stage = "refused" /\ task'[k].token = task[k].token
                 /\ UNCHANGED session
                 /\ task[k].token \in spent' \/ session[task[k].token] \in ended'
WillCheck(k) == /\ task[k].stage = "refused" /\ task'[k].stage = "check"
                /\ task'[k].token = task[k].token /\ UNCHANGED <<session, spent, ended>>
WillErase(k) == task[k].stage = "check" /\ task'[k].stage = "erase" /\ vault = task[k].token

LEMMA RefusedSteps ==
  ASSUME TypeOK, [Next]_vars, NEW k \in Tasks
  PROVE  NotLate(k) \/ WasRefused(k) \/ WillCheck(k) \/ WillErase(k)
<1>0. task \in [Tasks -> TaskState] /\ memory \in Token \cup {NoToken}
      /\ vault \in Token \cup {NoToken} /\ last \in Nat /\ last <= MaxTokens
  BY DEF TypeOK
<1>1. ASSUME NEW j \in Tasks, NEW s \in Stages \ Late,
             Goto(j, s) \/ (\E t \in Token \cup {NoToken} : Carry(j, s, t)) PROVE NotLate(k)
  BY <1>0, <1>1, StageOf DEF NotLate
<1>2. ASSUME NEW j \in Tasks, End(j) PROVE NotLate(k)
  BY <1>0, <1>2 DEF End, Idle, NotLate, Late
<1>3. ASSUME NEW j \in Tasks, NEW op \in Operations, NEW s \in Stages \ Late, NEW t, Begin(j, op, s, t)
      PROVE  NotLate(k)
  BY <1>0, <1>3 DEF Begin, NotLate
<1>4. ASSUME Fresh PROVE NotLate(k)
  BY <1>4 DEF Fresh, Idle, NotLate, Late
<1>5. ASSUME task' = task PROVE NotLate(k)
  BY <1>5 DEF NotLate
<1>6. ASSUME NEW j \in Tasks, NEW op \in Calls, BeginCall(j, op) PROVE NotLate(k)
  BY <1>3, <1>6 DEF BeginCall, Operations, Stages, Late
<1>7. ASSUME NEW j \in Tasks, BeginRestore(j) \/ BeginSignin(j) \/ BeginLogout(j)
      PROVE  NotLate(k)
  BY <1>3, <1>7 DEF BeginRestore, BeginSignin, BeginLogout, Operations, Stages, Late
<1>8. ASSUME NEW j \in Tasks, Attempt(j) \/ Retry(j) PROVE NotLate(k)
  BY <1>1, <1>2, <1>8 DEF Attempt, Retry, Answered, Stages, Late
<1>9. ASSUME NEW j \in Tasks, Granted(j) \/ Erase(j) \/ Forget(j) \/ Save(j) PROVE NotLate(k)
  BY <1>1, <1>2, <1>9 DEF Granted, Erase, Forget, Save, Stages, Late
<1>10. ASSUME NEW j \in Tasks, AcquireLock(j) \/ Refresh(j) \/ Load(j) \/ Persist(j)
       PROVE  NotLate(k)
  <2>1. CASE AcquireLock(j)
    <3>1. \/ Goto(j, "exchange")
          \/ memory \in Token /\ Carry(j, "retry", memory)
          \/ memory = NoToken /\ Carry(j, "retry", NoToken)
      BY <1>0, <2>1 DEF AcquireLock
    <3>2. QED
      BY <1>1, <3>1 DEF Stages, Late
  <2>2. QED
    BY <1>0, <1>1, <1>2, <1>10, <2>1 DEF Refresh, Load, Persist, Stages, Late
<1>11. ASSUME NEW j \in Tasks, Logout(j) \/ Leave(j) \/ Wipe(j) \/ Lost(j) PROVE NotLate(k)
  BY <1>1, <1>2, <1>11 DEF Logout, Leave, Wipe, Lost, Stages, Late
<1>12. ASSUME NEW j \in Tasks, Login(j) PROVE NotLate(k)
  BY <1>0, <1>1, <1>12 DEF Login, Issue, Stages, Late
<1>13. ASSUME NEW j \in Tasks, Restart(j) PROVE NotLate(k)
  BY <1>4, <1>13 DEF Restart
<1>14. ASSUME NEW j \in Tasks, Exchange(j) PROVE NotLate(k) \/ WasRefused(k)
  <2>1. CASE Goto(j, "refused") /\ UNCHANGED session
             /\ (task[j].token \in spent' \/ session[task[j].token] \in ended')
    BY <1>0, <2>1 DEF Goto, TaskState, NotLate, WasRefused, Late
  <2>2. CASE Issue(session[task[j].token]) /\ Carry(j, "granted", last + 1)
    <3>1. last + 1 \in Token /\ "granted" \in Stages \ Late
      BY <1>0, <2>2 DEF Issue, Stages, Late
    <3>2. QED
      BY <1>1, <2>2, <3>1
  <2>3. QED
    BY <1>14, <2>1, <2>2 DEF Exchange
<1>15. ASSUME NEW j \in Tasks, Refused(j) PROVE NotLate(k) \/ WillCheck(k)
  <2>1. CASE At(j, "refused") /\ Goto(j, "check") /\ UNCHANGED <<session, spent, ended>>
    BY <1>0, <2>1 DEF At, Goto, TaskState, NotLate, WillCheck, Late
  <2>2. QED
    BY <1>2, <1>15, <2>1 DEF Refused, serverVars
<1>16. ASSUME NEW j \in Tasks, Check(j) PROVE NotLate(k) \/ WillErase(k)
  <2>1. CASE At(j, "check") /\ Goto(j, "erase") /\ vault = task[j].token
    BY <1>0, <2>1 DEF At, Goto, TaskState, NotLate, WillErase, Late
  <2>2. CASE Goto(j, "forget")
    BY <1>1, <2>2 DEF Stages, Late
  <2>3. QED
    BY <1>16, <2>1, <2>2 DEF Check
<1>17. ASSUME Expire \/ RevokeSession \/ Quit \/ UNCHANGED vars PROVE NotLate(k)
  <2>1. Fresh \/ task' = task
    BY <1>17 DEF Expire, RevokeSession, Quit, vars
  <2>2. QED
    BY <1>4, <1>5, <2>1
<1>18. ASSUME NEW j \in Tasks, Continue(j)
       PROVE  NotLate(k) \/ WasRefused(k) \/ WillCheck(k) \/ WillErase(k)
  BY <1>8, <1>9, <1>10, <1>11, <1>12, <1>13, <1>14, <1>15, <1>16, <1>18 DEF Continue
<1>19. QED
  BY <1>6, <1>7, <1>11, <1>17, <1>18 DEF Next

LEMMA NextRefusedAreDead ==
  ASSUME TypeOK, RefusedAreDead, [Next]_vars PROVE RefusedAreDead'
<1> SUFFICES ASSUME NEW k \in Tasks, task'[k].stage \in {"refused", "check"}
             PROVE  ~Usable(task[k].token)'
  BY DEF RefusedAreDead
<1>0. task[k].token \in 0 .. last
  BY DEF TypeOK, TaskState
<1>1. CASE NotLate(k)
  <2>1. task'[k] = task[k]
    BY <1>1 DEF NotLate, Late
  <2>2. ~Usable(task[k].token)
    BY <2>1 DEF RefusedAreDead
  <2>3. QED
    BY <1>0, <2>1, <2>2, DeadStaysDead DEF Usable
<1>2. CASE WasRefused(k)
  BY <1>2 DEF WasRefused, Usable
<1>3. CASE WillCheck(k)
  BY <1>3 DEF WillCheck, Usable, RefusedAreDead
<1>4. CASE WillErase(k)
  BY <1>4 DEF WillErase
<1>5. QED
  BY <1>1, <1>2, <1>3, <1>4, RefusedSteps

\* A restore never decides to erase a credential that still works, whatever
\* logins and refreshes happened while it waited for its refusal.
THEOREM OnlyDeadErased == Spec => OnlyDeadCredentialsAreErased
<1>1. Init => RefusedAreDead
  BY DEF Init, RefusedAreDead, Idle
<1>2. ASSUME TypeOK, RefusedAreDead, [Next]_vars
      PROVE  \A k \in Tasks : At(k, "check") /\ task'[k].stage = "erase" => ~Usable(vault)
  <2> SUFFICES ASSUME NEW k \in Tasks, At(k, "check"), task'[k].stage = "erase"
               PROVE  ~Usable(vault)
    OBVIOUS
  <2>1. vault = task[k].token
    BY <1>2, RefusedSteps DEF At, NotLate, WasRefused, WillCheck, WillErase, Late
  <2>2. QED
    BY <1>2, <2>1 DEF RefusedAreDead, At
<1>3. QED
  BY <1>1, <1>2, TypeCorrect, NextRefusedAreDead, PTL DEF Spec, OnlyDeadCredentialsAreErased

-----------------------------------------------------------------------------
(* No session dies of reuse.  A copy of a token is stale when the token is   *)
(* spent and the user is still signed in to its session.  QuietInv, which    *)
(* holds while nothing of Disturbances happened, says where stale copies can *)
(* be and why no task presents one: a restore finds none when it loads the   *)
(* vault, because memory was empty when it began; a call presents the token  *)
(* that memory holds under the lock; and a task that began, or emptied       *)
(* memory, when memory held none of the tokens it knows keeps those that     *)
(* came later from expiring, so that no call refreshes them.                 *)

\* TypeOK, as far as the steps need it.
TypedTasks ==
    \A k \in Tasks :
        /\ task[k].op \in Operations /\ task[k].stage \in Stages /\ task[k].known \subseteq Token
        /\ task[k].token \in 0 .. last
        /\ task[k].stage \in {"queue", "exchange", "granted", "save"} => task[k].token # NoToken
Typed ==
    /\ last \in 0 .. MaxTokens
    /\ \A t \in 1 .. last : session[t] \in 1 .. last
    /\ spent \subseteq 1 .. last
    /\ expired \in 0 .. last
    /\ memory \in 0 .. last /\ vault \in 0 .. last
    /\ TypedTasks

Gone(t) == session[t] \in left \cup ended
Stale(t) == t \in spent /\ ~Gone(t)

\* Tasks that began, or emptied memory, when memory held no session they know.
Newcomer(k) == ~At(k, "idle") /\ task[k].op \in {"restore", "signin"}
Leaver(k) == task[k].stage \in {"wipe", "restart"}
Settled(k) == Newcomer(k) \/ Leaver(k)
OneLeaver == \E k \in Tasks : Leaver(k)
TwoLeavers == \E j, k \in Tasks : j # k /\ Leaver(j) /\ Leaver(k)

InMemory(t) == memory # NoToken /\ session[memory] = session[t]
\* A call whose refresh can still put a token in memory, and one that would put
\* it in the place of another session.
Refreshing(k) ==
    /\ task[k].op \in Calls
    /\ \/ At(k, "granted")
       \/ At(k, "exchange") /\ session[task[k].token] \notin ended
Stray(k) == Refreshing(k) /\ ~InMemory(task[k].token)

OpsOK ==
    \A k \in Tasks :
        /\ ~At(k, "refresh")
        /\ task[k].stage \in {"attempt", "queue", "retry"} => task[k].op \in Calls
        /\ At(k, "login") => task[k].op = "signin"
        /\ At(k, "load") => task[k].op = "restore"
        /\ At(k, "exchange") => task[k].op \in Calls \cup {"restore"}
        /\ task[k].op \in Calls /\ task[k].stage \in {"exchange", "granted"} => lock = k
Restoring(k) == ~At(k, "idle") /\ task[k].op = "restore"
OneRestore == \A j, k \in Tasks : Restoring(j) /\ Restoring(k) => j = k
NewTokensApart ==
    \A k \in Tasks : At(k, "granted") =>
        /\ task[k].token \notin spent /\ task[k].token # memory /\ task[k].token # vault
        /\ \A j \in Tasks : j # k => task[j].token # task[k].token
        /\ \A j \in Tasks : ~At(j, "idle") => task[k].token \notin task[j].known
KnownIsOld ==
    \A k \in Tasks : ~At(k, "idle") =>
        /\ 1 .. expired \subseteq task[k].known
        /\ \A t \in task[k].known : t <= last /\ 1 .. t \subseteq task[k].known
MemoryIsNew == \A k \in Tasks : Settled(k) => memory \notin task[k].known
CallsWereRefused ==
    \A k \in Tasks : task[k].op \in Calls /\ task[k].stage \in {"queue", "exchange"} =>
        task[k].token <= expired \/ session[task[k].token] \in ended
CallsRefreshMemory ==
    \A k \in Tasks : task[k].op \in Calls /\ At(k, "exchange") =>
        memory = task[k].token \/ Gone(task[k].token)
NoneIsReused == \A k \in Tasks : At(k, "exchange") => ~Stale(task[k].token)
StraysFollowALeave == (\E k \in Tasks : Stray(k)) => OneLeaver

\* The session of a stale copy is in memory and stays there, or a restore
\* brings it back.
Held(t) == /\ InMemory(t) /\ \A k \in Tasks : ~Stray(k)
           /\ (\A k \in Tasks : ~Settled(k)) \/ TwoLeavers
Restored(t, stages) ==
    \E k \in Tasks : /\ task[k].stage \in stages /\ task[k].op = "restore"
                     /\ session[task[k].token] = session[t]
StaleMemory ==
    Stale(memory) => \/ Restored(memory, {"granted"})
                     \/ Held(memory) /\ \E k \in Tasks : At(k, "granted") /\ task[k].op \in Calls
StaleVault == Stale(vault) => Restored(vault, {"granted", "save"}) \/ Held(vault)
StaleCopies ==
    \A k \in Tasks : At(k, "save") /\ Stale(task[k].token) =>
        Restored(task[k].token, {"granted"}) \/ Held(task[k].token)
CleanRestore ==
    \A k \in Tasks : task[k].op = "restore" /\ task[k].stage \in {"load", "exchange"} =>
        /\ ~Stale(vault) /\ ~Stale(memory)
        /\ \A j \in Tasks : At(j, "save") => ~Stale(task[j].token)
DroppedCopies ==
    \A j \in Tasks : At(j, "save") /\ ~Gone(task[j].token) /\ ~InMemory(task[j].token) =>
        /\ OneLeaver /\ \A k \in Tasks : ~Refreshing(k)
        /\ TwoLeavers \/ memory # NoToken

Orders == OpsOK /\ OneRestore
Ages == NewTokensApart /\ KnownIsOld /\ MemoryIsNew /\ CallsWereRefused
Refreshes == CallsRefreshMemory /\ NoneIsReused /\ StraysFollowALeave
Copies == StaleMemory /\ StaleVault /\ StaleCopies /\ CleanRestore /\ DroppedCopies
QuietInv == Orders /\ Ages /\ Refreshes /\ Copies

\* A step of task k that leaves memory, the tokens and the copies alone.
Harmless(k) ==
    /\ UNCHANGED <<last, session, spent, expired, memory, left>>
    /\ vault' \in {vault, NoToken} /\ ended \subseteq ended'
    /\ lock' = lock \/ lock \in {k, NoTask}
    /\ \A j \in Tasks : j # k => task'[j] = task[j]
    /\ task[k].stage \notin {"granted", "save"}
    /\ task'[k].stage \notin {"refresh", "load", "login", "exchange", "granted", "save"}
    /\ task'[k].stage \in {"attempt", "queue", "retry"} => task'[k].op \in Calls
    /\ task'[k].stage = "queue" => task'[k].token <= expired \/ session[task'[k].token] \in ended'
    /\ task'[k].stage \in {"wipe", "restart"} <=> task[k].stage \in {"wipe", "restart"}
    /\ task'[k].token \in {NoToken, task[k].token, memory}
    /\ \/ task'[k] = Idle
       \/ ~At(k, "idle") /\ task'[k].op = task[k].op /\ task'[k].known = task[k].known
       \/ At(k, "idle") /\ task'[k].op \notin {"restore", "signin"} /\ task'[k].known = Received

LEMMA ReceivedIs ==
  ASSUME NEW t
  PROVE  t \in Received <=> t \in 1 .. last /\ \A j \in Tasks : At(j, "granted") => t < task[j].token
BY DEF Received, Coming

LEMMA HarmlessStep ==
  ASSUME Typed, Typed', QuietInv, NEW k \in Tasks, Harmless(k)
  PROVE  QuietInv'
<1> USE DEF Typed, TypedTasks, Harmless, Idle, At
<1>1. Orders'
  <2>1. OpsOK'
    <3>1. \A j \in Tasks : j # k => lock' = lock \/ lock # j
      OBVIOUS
    <3>2. QED
      BY <3>1 DEF QuietInv, Orders, OpsOK, Calls
  <2>2. OneRestore'
    <3>1. \A j \in Tasks : Restoring(j)' => Restoring(j)
      BY DEF Restoring
    <3>2. QED
      BY <3>1 DEF QuietInv, Orders, OneRestore
  <2>3. QED
    BY <2>1, <2>2 DEF Orders
<1>2. NewTokensApart'
  <2> SUFFICES ASSUME NEW i \in Tasks, At(i, "granted")'
               PROVE  /\ task'[i].token \notin spent' /\ task'[i].token # memory' /\ task'[i].token # vault'
                      /\ \A j \in Tasks : j # i => task'[j].token # task'[i].token
                      /\ \A j \in Tasks : ~At(j, "idle")' => task'[i].token \notin task'[j].known
    BY DEF NewTokensApart
  <2>1. i # k /\ task'[i] = task[i] /\ At(i, "granted") /\ task[i].token # NoToken
    OBVIOUS
  <2>2. /\ task[i].token \notin spent /\ task[i].token # memory /\ task[i].token # vault
        /\ \A j \in Tasks : j # i => task[j].token # task[i].token
        /\ \A j \in Tasks : ~At(j, "idle") => task[i].token \notin task[j].known
    BY <2>1 DEF QuietInv, Ages, NewTokensApart
  <2>3. task'[k].known = Received => task[i].token \notin task'[k].known
    BY <2>1, ReceivedIs
  <2>4. QED
    BY <2>1, <2>2, <2>3
<1>3. KnownIsOld'
  <2> SUFFICES ASSUME NEW j \in Tasks, ~At(j, "idle")'
               PROVE  /\ 1 .. expired \subseteq task'[j].known
                      /\ \A t \in task'[j].known : t <= last /\ 1 .. t \subseteq task'[j].known
    BY DEF KnownIsOld
  <2>1. CASE ~At(j, "idle") /\ task'[j].known = task[j].known
    BY <2>1 DEF QuietInv, Ages, KnownIsOld
  <2>2. CASE task'[j].known = Received
    <3>1. \A i \in Tasks : At(i, "granted") => expired < task[i].token
      BY DEF QuietInv, Ages, KnownIsOld, NewTokensApart
    <3>2. 1 .. expired \subseteq Received
      BY <3>1, ReceivedIs
    <3>3. \A t \in Received : t <= last /\ 1 .. t \subseteq Received
      BY ReceivedIs
    <3>4. QED
      BY <2>2, <3>2, <3>3
  <2>3. QED
    BY <2>1, <2>2
<1>4. MemoryIsNew'
  BY DEF QuietInv, Ages, MemoryIsNew, Settled, Newcomer, Leaver
<1>5. CallsWereRefused'
  BY DEF QuietInv, Ages, CallsWereRefused
<1>6. \A t : Stale(t)' => Stale(t)
  BY DEF Stale, Gone
<1>7. \A t : InMemory(t)' <=> InMemory(t)
  BY DEF InMemory
<1>8. \A j \in Tasks : (Refreshing(j)' => Refreshing(j)) /\ (Stray(j)' => Stray(j))
  BY DEF Refreshing, Stray, InMemory
<1>9. (OneLeaver' <=> OneLeaver) /\ (TwoLeavers' <=> TwoLeavers)
  BY DEF OneLeaver, TwoLeavers, Leaver
<1>10. Refreshes'
  BY <1>8, <1>9, <1>6 DEF QuietInv, Refreshes, CallsRefreshMemory, NoneIsReused, StraysFollowALeave, Gone
<1>11. \A t : (Held(t) => Held(t)')
  <2>1. \A j \in Tasks : Settled(j)' => Settled(j)
    BY DEF Settled, Newcomer, Leaver
  <2>2. QED
    BY <1>7, <1>8, <1>9, <2>1 DEF Held
<1>12. \A t : (Restored(t, {"granted"}) => Restored(t, {"granted"})') /\
              (Restored(t, {"granted", "save"}) => Restored(t, {"granted", "save"})')
  BY DEF Restored
<1>13. Copies'
  <2>1. StaleMemory'
    BY <1>6, <1>11, <1>12 DEF QuietInv, Copies, StaleMemory
  <2>2. StaleVault'
    BY <1>6, <1>11, <1>12 DEF QuietInv, Copies, StaleVault, Stale
  <2>3. StaleCopies'
    BY <1>6, <1>11, <1>12 DEF QuietInv, Copies, StaleCopies
  <2>4. CleanRestore'
    BY <1>6 DEF QuietInv, Copies, CleanRestore, Stale
  <2>5. DroppedCopies'
    BY <1>7, <1>8, <1>9 DEF QuietInv, Copies, DroppedCopies, Gone
  <2>6. QED
    BY <2>1, <2>2, <2>3, <2>4, <2>5 DEF Copies
<1>14. QED
  BY <1>1, <1>2, <1>3, <1>4, <1>5, <1>10, <1>13 DEF QuietInv, Ages
\* A restore or a login begins, when memory is empty.
Enters(k, op) ==
    /\ UNCHANGED <<last, session, spent, expired, memory, vault, ended, lock, left>>
    /\ memory = NoToken /\ At(k, "idle")
    /\ \A j \in Tasks : j # k => task'[j] = task[j]
    /\ task'[k].op = op /\ task'[k].token = NoToken /\ task'[k].known = Received
    /\ \/ op = "restore" /\ task'[k].stage = "load" /\ \A j \in Tasks : ~Restoring(j)
       \/ op = "signin" /\ task'[k].stage = "login"

LEMMA BegunKnowsOld ==
  ASSUME Typed, QuietInv
  PROVE  /\ 1 .. expired \subseteq Received
         /\ \A t \in Received : t <= last /\ 1 .. t \subseteq Received
         /\ \A j \in Tasks : At(j, "granted") => task[j].token \notin Received
<1>1. \A i \in Tasks : At(i, "granted") => expired < task[i].token
  BY DEF QuietInv, Ages, KnownIsOld, NewTokensApart, Typed, TypedTasks, At
<1>2. 1 .. expired \subseteq Received
  BY <1>1, ReceivedIs DEF Typed, TypedTasks
<1>3. \A t \in Received : t <= last /\ 1 .. t \subseteq Received
  BY ReceivedIs DEF Typed, TypedTasks
<1>4. QED
  BY <1>2, <1>3, ReceivedIs DEF Typed, TypedTasks

LEMMA EntersStep ==
  ASSUME Typed, Typed', QuietInv, NEW k \in Tasks, NEW op, Enters(k, op)
  PROVE  QuietInv'
<1> USE DEF Typed, TypedTasks, Enters, At
<1>1. Orders'
  <2>1. OpsOK'
    BY DEF QuietInv, Orders, OpsOK, Calls
  <2>2. OneRestore'
    BY DEF QuietInv, Orders, OneRestore, Restoring
  <2>3. QED
    BY <2>1, <2>2 DEF Orders
<1>2. NewTokensApart'
  BY BegunKnowsOld DEF QuietInv, Ages, NewTokensApart
<1>3. KnownIsOld'
  BY BegunKnowsOld DEF QuietInv, Ages, KnownIsOld
<1>4. MemoryIsNew'
  BY DEF MemoryIsNew
<1>5. CallsWereRefused'
  BY DEF QuietInv, Ages, CallsWereRefused, Calls
<1>6. \A t : (Stale(t)' <=> Stale(t)) /\ (Gone(t)' <=> Gone(t)) /\ ~InMemory(t) /\ ~InMemory(t)'
  BY DEF Stale, Gone, InMemory
<1>7. \A j \in Tasks : (Refreshing(j)' <=> Refreshing(j)) /\ (Stray(j)' <=> Stray(j))
  BY <1>6 DEF Refreshing, Stray, Calls
<1>8. (OneLeaver' <=> OneLeaver) /\ (TwoLeavers' <=> TwoLeavers)
  BY DEF OneLeaver, TwoLeavers, Leaver
<1>9. Refreshes'
  BY <1>6, <1>7, <1>8 DEF QuietInv, Refreshes, CallsRefreshMemory, NoneIsReused, StraysFollowALeave, Calls
<1>10. \A t : ~Held(t)
  BY <1>6 DEF Held
<1>11. \A t : (Restored(t, {"granted"}) => Restored(t, {"granted"})') /\
              (Restored(t, {"granted", "save"}) => Restored(t, {"granted", "save"})')
  BY DEF Restored
<1>12. op = "restore" => \A t : ~Restored(t, {"granted"}) /\ ~Restored(t, {"granted", "save"})
  BY DEF Restored, Restoring
<1>13. Copies'
  <2>1. StaleMemory'
    BY DEF StaleMemory, Stale
  <2>2. StaleVault'
    BY <1>6, <1>10, <1>11 DEF QuietInv, Copies, StaleVault
  <2>3. StaleCopies'
    BY <1>6, <1>10, <1>11 DEF QuietInv, Copies, StaleCopies
  <2>4. CleanRestore'
    <3>1. op = "restore" => ~Stale(vault) /\ \A j \in Tasks : At(j, "save") => ~Stale(task[j].token)
      BY <1>10, <1>12 DEF QuietInv, Copies, StaleVault, StaleCopies
    <3>2. QED
      BY <1>6, <3>1 DEF QuietInv, Copies, CleanRestore, Stale
  <2>5. DroppedCopies'
    BY <1>6, <1>7, <1>8 DEF QuietInv, Copies, DroppedCopies
  <2>6. QED
    BY <2>1, <2>2, <2>3, <2>4, <2>5 DEF Copies
<1>14. QED
  BY <1>1, <1>2, <1>3, <1>4, <1>5, <1>9, <1>13 DEF QuietInv, Ages

\* What a task does next: its stage and its token.
Moves(k, stage, t) ==
    /\ \A j \in Tasks : j # k => task'[j] = task[j]
    /\ task'[k].op = task[k].op /\ task'[k].known = task[k].known
    /\ task'[k].stage = stage /\ task'[k].token = t

\* The lock is free and memory still holds the token the server refused.
Acquires(k) ==
    /\ UNCHANGED <<last, session, spent, expired, memory, vault, ended, left>>
    /\ At(k, "queue") /\ lock = NoTask /\ lock' = k
    /\ memory = task[k].token
    /\ Moves(k, "exchange", task[k].token)

LEMMA AcquiresStep ==
  ASSUME Typed, Typed', QuietInv, NEW k \in Tasks, Acquires(k)
  PROVE  QuietInv'
<1> USE DEF Typed, TypedTasks, Acquires, Moves, At
<1>0. task[k].op \in Calls /\ memory # NoToken
  BY DEF QuietInv, Orders, OpsOK
<1>a. session[memory] \in ended \/ \A j \in Tasks : ~Settled(j)
  <2>1. CASE memory <= expired
    <3>1. ASSUME NEW j \in Tasks, Settled(j) PROVE FALSE
      <4>1. ~At(j, "idle")
        BY <3>1 DEF Settled, Leaver, Newcomer
      <4>2. memory \in task[j].known
        BY <1>0, <2>1, <4>1 DEF QuietInv, Ages, KnownIsOld
      <4>3. QED
        BY <3>1, <4>2 DEF QuietInv, Ages, MemoryIsNew
    <3>2. QED
      BY <3>1
  <2>2. QED
    BY <1>0, <2>1 DEF QuietInv, Ages, CallsWereRefused
<1>1. Orders'
  <2>1. OpsOK'
    BY <1>0 DEF QuietInv, Orders, OpsOK, Calls
  <2>2. OneRestore'
    BY DEF QuietInv, Orders, OneRestore, Restoring
  <2>3. QED
    BY <2>1, <2>2 DEF Orders
<1>2. Ages'
  BY DEF QuietInv, Ages, NewTokensApart, KnownIsOld, MemoryIsNew, CallsWereRefused, Settled, Newcomer, Leaver
<1>3. \A t : (Stale(t)' <=> Stale(t)) /\ (Gone(t)' <=> Gone(t)) /\ (InMemory(t)' <=> InMemory(t))
  BY DEF Stale, Gone, InMemory
<1>4. \A j \in Tasks : (j # k => (Refreshing(j)' <=> Refreshing(j))) /\ (Stray(j)' => Stray(j))
  BY <1>0 DEF Refreshing, Stray, InMemory
<1>5. (OneLeaver' <=> OneLeaver) /\ (TwoLeavers' <=> TwoLeavers)
  BY DEF OneLeaver, TwoLeavers, Leaver
<1>6. ~Stale(memory)
  <2>1. ~Held(memory) \/ \A j \in Tasks : ~(At(j, "granted") /\ task[j].op \in Calls)
    BY DEF QuietInv, Orders, OpsOK
  <2>2. Restored(memory, {"granted"}) => \E j \in Tasks : Settled(j)
    BY DEF Restored, Settled, Newcomer
  <2>3. QED
    BY <1>a, <2>1, <2>2 DEF QuietInv, Copies, StaleMemory, Stale, Gone
<1>7. Refreshes'
  BY <1>3, <1>4, <1>5, <1>6 DEF QuietInv, Refreshes, CallsRefreshMemory, NoneIsReused, StraysFollowALeave
<1>8. \A t : Held(t) => Held(t)'
  BY <1>3, <1>4, <1>5 DEF Held, Settled, Newcomer, Leaver
<1>9. \A t : (Restored(t, {"granted"}) => Restored(t, {"granted"})') /\
              (Restored(t, {"granted", "save"}) => Restored(t, {"granted", "save"})')
  BY DEF Restored
<1>10. Copies'
  <2>1. StaleMemory'
    BY <1>3, <1>6 DEF StaleMemory
  <2>2. StaleVault'
    BY <1>3, <1>8, <1>9 DEF QuietInv, Copies, StaleVault
  <2>3. StaleCopies'
    BY <1>3, <1>8, <1>9 DEF QuietInv, Copies, StaleCopies
  <2>4. CleanRestore'
    BY <1>0, <1>3 DEF QuietInv, Copies, CleanRestore, Calls
  <2>5. DroppedCopies'
    <3>1. OneLeaver => session[memory] \in ended
      BY <1>a DEF OneLeaver, Settled
    <3>2. OneLeaver => ~Refreshing(k)'
      BY <3>1 DEF Refreshing
    <3>3. QED
      BY <1>3, <1>4, <1>5, <3>2 DEF QuietInv, Copies, DroppedCopies
  <2>6. QED
    BY <2>1, <2>2, <2>3, <2>4, <2>5 DEF Copies
<1>11. QED
  BY <1>1, <1>2, <1>7, <1>10 DEF QuietInv
\* A restore loads the saved token.
Loads(k) ==
    /\ UNCHANGED <<last, session, spent, expired, memory, vault, lock, ended, left>>
    /\ At(k, "load") /\ Moves(k, "exchange", vault) /\ vault # NoToken

LEMMA LoadsStep ==
  ASSUME Typed, Typed', QuietInv, NEW k \in Tasks, Loads(k)
  PROVE  QuietInv'
<1> USE DEF Typed, TypedTasks, Loads, Moves, At
<1>0. task[k].op = "restore" /\ task[k].op \notin Calls
  BY DEF QuietInv, Orders, OpsOK, Calls
<1>1. Orders'
  BY <1>0 DEF QuietInv, Orders, OpsOK, OneRestore, Restoring
<1>2. Ages'
  BY <1>0 DEF QuietInv, Ages, NewTokensApart, KnownIsOld, MemoryIsNew, CallsWereRefused, Settled, Newcomer, Leaver
<1>3. \A t : (Stale(t)' <=> Stale(t)) /\ (Gone(t)' <=> Gone(t)) /\ (InMemory(t)' <=> InMemory(t))
  BY DEF Stale, Gone, InMemory
<1>4. \A j \in Tasks : (Refreshing(j)' <=> Refreshing(j)) /\ (Stray(j)' <=> Stray(j))
  BY <1>0 DEF Refreshing, Stray, InMemory
<1>5. (OneLeaver' <=> OneLeaver) /\ (TwoLeavers' <=> TwoLeavers)
  BY DEF OneLeaver, TwoLeavers, Leaver
<1>6. Refreshes'
  BY <1>0, <1>3, <1>4, <1>5
  DEF QuietInv, Refreshes, CallsRefreshMemory, NoneIsReused, StraysFollowALeave, Copies, CleanRestore
<1>7. \A t : Held(t) => Held(t)'
  BY <1>3, <1>4, <1>5 DEF Held, Settled, Newcomer, Leaver
<1>8. \A t : (Restored(t, {"granted"}) => Restored(t, {"granted"})') /\
              (Restored(t, {"granted", "save"}) => Restored(t, {"granted", "save"})')
  BY DEF Restored
<1>9. Copies'
  <2>1. StaleMemory' /\ StaleVault' /\ StaleCopies'
    BY <1>0, <1>3, <1>7, <1>8 DEF QuietInv, Copies, StaleMemory, StaleVault, StaleCopies
  <2>2. CleanRestore'
    BY <1>0, <1>3 DEF QuietInv, Copies, CleanRestore
  <2>3. DroppedCopies'
    BY <1>3, <1>4, <1>5 DEF QuietInv, Copies, DroppedCopies
  <2>4. QED
    BY <2>1, <2>2, <2>3 DEF Copies
<1>10. QED
  BY <1>1, <1>2, <1>6, <1>9 DEF QuietInv

\* The server spends the token a task presents and issues the next one.
Rotates(k) ==
    /\ UNCHANGED <<expired, memory, vault, lock, ended, left>>
    /\ At(k, "exchange") /\ Moves(k, "granted", last + 1)
    /\ task[k].token \notin spent /\ session[task[k].token] \notin ended
    /\ spent' = spent \cup {task[k].token}
    /\ last' = last + 1
    /\ \A t \in 1 .. last : session'[t] = session[t]
    /\ session'[last + 1] = session[task[k].token]

LEMMA RotatesStep ==
  ASSUME Typed, Typed', QuietInv, NEW k \in Tasks, Rotates(k)
  PROVE  QuietInv'
<1> USE DEF Typed, TypedTasks, Rotates, Moves, At
<1>r. PICK r \in 1 .. last : r = task[k].token
  OBVIOUS
<1>0. task[k].op \in Calls \cup {"restore"} /\ "restore" \notin Calls
  BY DEF QuietInv, Orders, OpsOK, Calls
<1> USE <1>r
<1>a. task[k].op \in Calls => lock = k
  BY DEF QuietInv, Orders, OpsOK
<1>b. task[k].op \in Calls /\ ~Gone(r) => memory = r /\ \A j \in Tasks : ~Settled(j)
  <2> SUFFICES ASSUME task[k].op \in Calls, ~Gone(r) PROVE memory = r /\ \A j \in Tasks : ~Settled(j)
    OBVIOUS
  <2>1. memory = r
    BY DEF QuietInv, Refreshes, CallsRefreshMemory
  <2>2. r <= expired
    BY DEF QuietInv, Ages, CallsWereRefused
  <2>3. ASSUME NEW j \in Tasks, Settled(j) PROVE FALSE
    <3>1. ~At(j, "idle")
      BY <2>3 DEF Settled, Leaver, Newcomer
    <3>2. memory \in task[j].known
      BY <1>0, <2>1, <2>2, <3>1 DEF QuietInv, Ages, KnownIsOld
    <3>3. QED
      BY <2>3, <3>2 DEF QuietInv, Ages, MemoryIsNew
  <2>4. QED
    BY <2>1, <2>3
<1>1. Orders'
  <2>1. OpsOK'
    BY <1>0, <1>a DEF QuietInv, Orders, OpsOK
  <2>2. OneRestore'
    BY DEF QuietInv, Orders, OneRestore, Restoring
  <2>3. QED
    BY <2>1, <2>2 DEF Orders
<1>2. NewTokensApart'
  <2>1. \A j \in Tasks : ~At(j, "idle") => last + 1 \notin task[j].known
    BY DEF QuietInv, Ages, KnownIsOld
  <2>2. QED
    BY <1>0, <2>1 DEF QuietInv, Ages, NewTokensApart
<1>3. KnownIsOld' /\ MemoryIsNew'
  BY DEF QuietInv, Ages, KnownIsOld, MemoryIsNew, Settled, Newcomer, Leaver
<1>4. CallsWereRefused'
  BY DEF QuietInv, Ages, CallsWereRefused
<1>5. \A t \in 1 .. last : /\ Gone(t)' <=> Gone(t)
                           /\ Stale(t)' => Stale(t) \/ (t = r /\ ~Gone(r))
                           /\ InMemory(t)' <=> InMemory(t)
  BY DEF Stale, Gone, InMemory
<1>6. ~Stale(0)' /\ (Stale(vault)' => vault \in 1 .. last) /\ (Stale(memory)' => memory \in 1 .. last)
  BY <1>0 DEF Stale
<1>7. (memory' # NoToken /\ session'[memory'] = session'[last + 1]) <=> InMemory(r)
  BY <1>0 DEF InMemory
<1>8. \A j \in Tasks : (Refreshing(j)' => Refreshing(j)) /\ (Stray(j)' => Stray(j))
  <2>1. Refreshing(k)' => Refreshing(k)
    BY DEF Refreshing
  <2>2. Stray(k)' => Stray(k)
    BY <1>7, <2>1 DEF Stray, InMemory
  <2>3. ASSUME NEW j \in Tasks, j # k, Refreshing(j)' PROVE Refreshing(j) /\ (Stray(j)' => Stray(j))
    <3>1. task'[j] = task[j] /\ task[j].token \in 0 .. last
      BY <2>3
    <3>2. Refreshing(j) /\ task[j].token \in 1 .. last
      BY <2>3, <3>1 DEF Refreshing
    <3>3. QED
      BY <1>5, <3>1, <3>2 DEF Stray
  <2>4. QED
    BY <2>1, <2>2, <2>3 DEF Stray
<1>9. (OneLeaver' <=> OneLeaver) /\ (TwoLeavers' <=> TwoLeavers)
  BY DEF OneLeaver, TwoLeavers, Leaver
<1>10. Refreshes'
  <2>1. CallsRefreshMemory'
    BY <1>5 DEF QuietInv, Refreshes, CallsRefreshMemory
  <2>2. NoneIsReused'
    <3> SUFFICES ASSUME NEW j \in Tasks, j # k, At(j, "exchange"), Stale(task[j].token)' PROVE FALSE
      BY DEF NoneIsReused
    <3>1. task[j].token = r /\ ~Gone(r)
      BY <1>5 DEF QuietInv, Refreshes, NoneIsReused
    <3>2. task[j].op \in Calls \cup {"restore"}
      BY DEF QuietInv, Orders, OpsOK
    <3>3. CASE task[j].op \in Calls /\ task[k].op \in Calls
      BY <1>a, <3>3 DEF QuietInv, Orders, OpsOK
    <3>4. CASE task[j].op = "restore" /\ task[k].op \in Calls
      BY <1>b, <3>1, <3>4 DEF Settled, Newcomer
    <3>5. CASE task[j].op = "restore" /\ task[k].op = "restore"
      BY <3>5 DEF QuietInv, Orders, OneRestore, Restoring
    <3>6. CASE task[j].op \in Calls /\ task[k].op = "restore"
      <4>1. memory = r /\ r <= expired
        BY <3>1, <3>6 DEF QuietInv, Refreshes, CallsRefreshMemory, Ages, CallsWereRefused, Gone
      <4>2. memory \in task[k].known
        BY <1>0, <4>1 DEF QuietInv, Ages, KnownIsOld
      <4>3. QED
        BY <3>6, <4>2 DEF QuietInv, Ages, MemoryIsNew, Settled, Newcomer
    <3>7. QED
      BY <1>0, <3>2, <3>3, <3>4, <3>5, <3>6
  <2>3. StraysFollowALeave'
    BY <1>8, <1>9 DEF QuietInv, Refreshes, StraysFollowALeave
  <2>4. QED
    BY <2>1, <2>2, <2>3 DEF Refreshes
<1>11. \A t \in 1 .. last : Held(t) => Held(t)'
  BY <1>5, <1>8, <1>9 DEF Held, Settled, Newcomer, Leaver
<1>12. \A t \in 1 .. last : (Restored(t, {"granted"}) => Restored(t, {"granted"})') /\
                            (Restored(t, {"granted", "save"}) => Restored(t, {"granted", "save"})')
  <2>1. ASSUME NEW t \in 1 .. last, NEW stages \in {{"granted"}, {"granted", "save"}}, Restored(t, stages)
        PROVE  Restored(t, stages)'
    <3>1. PICK j \in Tasks : /\ task[j].stage \in stages /\ task[j].op = "restore"
                             /\ session[task[j].token] = session[t]
      BY <2>1 DEF Restored
    <3>2. task[j].stage \in {"granted", "save"}
      BY <3>1
    <3>3. j # k /\ task'[j] = task[j] /\ task[j].token \in 1 .. last
      BY <3>2
    <3>4. QED
      BY <3>1, <3>3 DEF Restored
  <2>2. QED
    BY <2>1
<1>13. ~Gone(r) => \/ task[k].op = "restore" /\ Restored(r, {"granted"})' /\ Restored(r, {"granted", "save"})'
                   \/ task[k].op \in Calls /\ memory = r /\ Held(r)' /\ \A j \in Tasks : ~Settled(j)
  <2>1. task[k].op = "restore" => Restored(r, {"granted"})' /\ Restored(r, {"granted", "save"})'
    BY <1>0 DEF Restored
  <2>2. ASSUME task[k].op \in Calls, ~Gone(r) PROVE Held(r)'
    <3>1. memory = r /\ InMemory(r)'
      BY <1>0, <1>b, <1>5, <2>2 DEF InMemory
    <3>2. ~Stray(k)'
      BY <1>0, <1>7, <1>5, <3>1 DEF Stray, InMemory
    <3>3. \A j \in Tasks : j # k => ~Refreshing(j)
      BY <1>a, <2>2 DEF QuietInv, Orders, OpsOK, Refreshing
    <3>4. \A j \in Tasks : ~Stray(j)'
      BY <1>8, <3>2, <3>3 DEF Stray
    <3>5. \A j \in Tasks : ~Settled(j)'
      BY <1>b, <2>2 DEF Settled, Newcomer, Leaver
    <3>6. QED
      BY <3>1, <3>4, <3>5 DEF Held
  <2>3. QED
    BY <1>0, <1>b, <2>1, <2>2
<1>14. Copies'
  <2>1. StaleMemory'
    <3>1. CASE Stale(memory)
      BY <1>0, <1>11, <1>12, <3>1 DEF QuietInv, Copies, StaleMemory, Stale
    <3>2. CASE memory = r /\ ~Gone(r)
      BY <1>13, <3>2 DEF StaleMemory
    <3>3. QED
      BY <1>5, <1>6, <3>1, <3>2 DEF StaleMemory
  <2>2. StaleVault'
    BY <1>5, <1>6, <1>11, <1>12, <1>13 DEF QuietInv, Copies, StaleVault
  <2>3. StaleCopies'
    <3> SUFFICES ASSUME NEW j \in Tasks, At(j, "save")', Stale(task[j].token)'
                 PROVE  Restored(task[j].token, {"granted"})' \/ Held(task[j].token)'
      BY DEF StaleCopies
    <3>1. task[j].token \in 1 .. last /\ At(j, "save")
      OBVIOUS
    <3>2. QED
      BY <1>5, <1>11, <1>12, <1>13, <3>1 DEF QuietInv, Copies, StaleCopies
  <2>4. CleanRestore'
    <3> SUFFICES ASSUME NEW i \in Tasks, task'[i].op = "restore", task'[i].stage \in {"load", "exchange"}
                 PROVE  /\ ~Stale(vault)' /\ ~Stale(memory)'
                        /\ \A j \in Tasks : At(j, "save")' => ~Stale(task[j].token)'
      BY DEF CleanRestore
    <3>1. i # k /\ Settled(i)
      BY DEF Settled, Newcomer
    <3>2. Gone(r)
      <4>1. task[k].op # "restore"
        BY <3>1 DEF QuietInv, Orders, OneRestore, Restoring
      <4>2. QED
        BY <1>0, <1>b, <3>1, <4>1
    <3>3. ~Stale(vault) /\ ~Stale(memory) /\ \A j \in Tasks : At(j, "save") => ~Stale(task[j].token)
      BY <3>1 DEF QuietInv, Copies, CleanRestore
    <3>4. \A j \in Tasks : At(j, "save")' => At(j, "save") /\ task[j].token \in 1 .. last
      OBVIOUS
    <3>5. QED
      BY <1>5, <1>6, <3>2, <3>3, <3>4
  <2>5. DroppedCopies'
    <3>1. \A j \in Tasks : At(j, "save")' => /\ At(j, "save") /\ task'[j] = task[j]
                                            /\ task[j].token \in 1 .. last
      OBVIOUS
    <3>2. QED
      BY <1>5, <1>8, <1>9, <3>1 DEF QuietInv, Copies, DroppedCopies
  <2>6. QED
    BY <2>1, <2>2, <2>3, <2>4, <2>5 DEF Copies
<1>15. QED
  BY <1>1, <1>2, <1>3, <1>4, <1>10, <1>14 DEF QuietInv, Ages
\* The server opens a session.
Opens(k) ==
    /\ UNCHANGED <<spent, expired, memory, vault, lock, ended, left>>
    /\ At(k, "login") /\ Moves(k, "granted", last + 1)
    /\ last' = last + 1
    /\ \A t \in 1 .. last : session'[t] = session[t]

LEMMA OpensStep ==
  ASSUME Typed, Typed', QuietInv, NEW k \in Tasks, Opens(k)
  PROVE  QuietInv'
<1> USE DEF Typed, TypedTasks, Opens, Moves, At
<1>0. task[k].op = "signin" /\ "signin" \notin Calls
  BY DEF QuietInv, Orders, OpsOK, Calls
<1>1. Orders'
  BY <1>0 DEF QuietInv, Orders, OpsOK, OneRestore, Restoring
<1>2. NewTokensApart'
  <2>1. \A j \in Tasks : ~At(j, "idle") => last + 1 \notin task[j].known
    BY DEF QuietInv, Ages, KnownIsOld
  <2>2. QED
    BY <2>1 DEF QuietInv, Ages, NewTokensApart
<1>3. KnownIsOld' /\ MemoryIsNew'
  BY DEF QuietInv, Ages, KnownIsOld, MemoryIsNew, Settled, Newcomer, Leaver
<1>4. CallsWereRefused'
  BY <1>0 DEF QuietInv, Ages, CallsWereRefused
<1>5. \A t \in 1 .. last : /\ Gone(t)' <=> Gone(t)
                           /\ Stale(t)' <=> Stale(t)
                           /\ InMemory(t)' <=> InMemory(t)
  BY DEF Stale, Gone, InMemory
<1>6. /\ Stale(vault) => vault \in 1 .. last
      /\ Stale(memory) => memory \in 1 .. last
      /\ (Stale(vault)' => Stale(vault)) /\ (Stale(memory)' => Stale(memory))
  BY <1>5 DEF Stale
<1>7. \A j \in Tasks : (Refreshing(j)' <=> Refreshing(j)) /\ (Stray(j)' <=> Stray(j))
  <2>1. ~Refreshing(k) /\ ~Refreshing(k)'
    BY <1>0 DEF Refreshing
  <2>2. ASSUME NEW j \in Tasks, j # k
        PROVE  (Refreshing(j)' <=> Refreshing(j)) /\ (Refreshing(j) => task[j].token \in 1 .. last)
    BY <2>2 DEF Refreshing
  <2>3. QED
    BY <1>5, <2>1, <2>2 DEF Stray
<1>8. (OneLeaver' <=> OneLeaver) /\ (TwoLeavers' <=> TwoLeavers)
  BY DEF OneLeaver, TwoLeavers, Leaver
<1>9. Refreshes'
  <2>1. CallsRefreshMemory' /\ NoneIsReused'
    BY <1>5 DEF QuietInv, Refreshes, CallsRefreshMemory, NoneIsReused
  <2>2. StraysFollowALeave'
    BY <1>7, <1>8 DEF QuietInv, Refreshes, StraysFollowALeave
  <2>3. QED
    BY <2>1, <2>2 DEF Refreshes
<1>10. \A t \in 1 .. last : Held(t) => Held(t)'
  BY <1>5, <1>7, <1>8 DEF Held, Settled, Newcomer, Leaver
<1>11. \A t \in 1 .. last : (Restored(t, {"granted"}) => Restored(t, {"granted"})') /\
                            (Restored(t, {"granted", "save"}) => Restored(t, {"granted", "save"})')
  <2>1. ASSUME NEW t \in 1 .. last, NEW stages \in {{"granted"}, {"granted", "save"}}, Restored(t, stages)
        PROVE  Restored(t, stages)'
    <3>1. PICK j \in Tasks : /\ task[j].stage \in stages /\ task[j].op = "restore"
                             /\ session[task[j].token] = session[t]
      BY <2>1 DEF Restored
    <3>2. j # k /\ task'[j] = task[j] /\ task[j].token \in 1 .. last
      BY <3>1
    <3>3. QED
      BY <3>1, <3>2 DEF Restored
  <2>2. QED
    BY <2>1
<1>12. \A j \in Tasks : At(j, "save")' => /\ At(j, "save") /\ task'[j] = task[j]
                                        /\ task[j].token \in 1 .. last
  OBVIOUS
<1>13. Copies'
  <2>1. StaleMemory'
    BY <1>0, <1>6, <1>10, <1>11 DEF QuietInv, Copies, StaleMemory
  <2>2. StaleVault' /\ StaleCopies'
    BY <1>5, <1>6, <1>10, <1>11, <1>12 DEF QuietInv, Copies, StaleVault, StaleCopies
  <2>3. CleanRestore'
    BY <1>0, <1>5, <1>6, <1>12 DEF QuietInv, Copies, CleanRestore
  <2>4. DroppedCopies'
    BY <1>5, <1>7, <1>8, <1>12 DEF QuietInv, Copies, DroppedCopies
  <2>5. QED
    BY <2>1, <2>2, <2>3, <2>4 DEF Copies
<1>14. QED
  BY <1>1, <1>2, <1>3, <1>4, <1>9, <1>13 DEF QuietInv, Ages

\* A refresh of a call, a restore or a login puts its token in memory; the two
\* last ones find it empty.
Stores(k) ==
    /\ UNCHANGED <<last, session, spent, expired, vault, lock, ended, left>>
    /\ At(k, "granted") /\ memory' = task[k].token
    /\ \A j \in Tasks : j # k => task'[j] = task[j]
    /\ \/ Moves(k, "save", task[k].token) /\ task[k].op \in {"restore", "signin"} /\ memory = NoToken
       \/ task'[k] = Idle /\ task[k].op = "signin" /\ memory = NoToken
       \/ Moves(k, "retry", task[k].token) /\ task[k].op \in Calls

LEMMA StoresAges ==
  ASSUME Typed, Typed', QuietInv, NEW k \in Tasks, Stores(k)
  PROVE  Orders' /\ Ages' /\ ~Stale(memory)'
<1> USE DEF Typed, TypedTasks, Stores, Moves, At, Idle
<1>1. Orders'
  <2>1. OpsOK'
    BY DEF QuietInv, Orders, OpsOK, Calls
  <2>2. \A j \in Tasks : Restoring(j)' => Restoring(j)
    BY DEF Restoring
  <2>3. OneRestore'
    BY <2>2 DEF QuietInv, Orders, OneRestore
  <2>4. QED
    BY <2>1, <2>3 DEF Orders
<1>2. NewTokensApart'
  BY DEF QuietInv, Ages, NewTokensApart
<1>3. KnownIsOld' /\ CallsWereRefused'
  BY DEF QuietInv, Ages, KnownIsOld, CallsWereRefused
<1>4. MemoryIsNew'
  BY DEF QuietInv, Ages, NewTokensApart, MemoryIsNew, Settled, Newcomer, Leaver
<1>5. ~Stale(memory)'
  BY DEF QuietInv, Ages, NewTokensApart, Stale
<1>6. QED
  BY <1>1, <1>2, <1>3, <1>4, <1>5 DEF Ages

\* A call's token takes the place of the one it replaces, or of another session
\* after a sign-out.
LEMMA StoresOfCall ==
  ASSUME Typed, Typed', QuietInv, NEW k \in Tasks, Stores(k), task[k].op \in Calls
  PROVE  Refreshes' /\ Copies'
<1> USE DEF Typed, TypedTasks, Stores, Moves, At
<1>0. lock = k /\ "restore" \notin Calls /\ "signin" \notin Calls
  BY DEF QuietInv, Orders, OpsOK, Calls
<1>1. \A j \in Tasks : j # k => ~(task[j].op \in Calls /\ task[j].stage \in {"exchange", "granted"})
  BY <1>0 DEF QuietInv, Orders, OpsOK
<1>2. \A j \in Tasks : ~Refreshing(j)' /\ ~Stray(j)'
  BY <1>0, <1>1 DEF Refreshing, Stray
<1>3. Refreshing(k)
  BY DEF Refreshing
<1>4. \A t : (Gone(t)' <=> Gone(t)) /\ (Stale(t)' <=> Stale(t))
  BY DEF Stale, Gone
<1>5. (OneLeaver' <=> OneLeaver) /\ (TwoLeavers' <=> TwoLeavers)
  BY <1>0 DEF OneLeaver, TwoLeavers, Leaver
<1>6. \A t \in 1 .. last : InMemory(t) /\ ~Stray(k) => InMemory(t)'
  BY <1>3 DEF Stray, InMemory
<1>7. Stray(k) => OneLeaver
  BY DEF QuietInv, Refreshes, StraysFollowALeave
<1>8. Refreshes'
  <2>1. CallsRefreshMemory'
    BY <1>0, <1>1 DEF CallsRefreshMemory
  <2>2. NoneIsReused'
    BY <1>0, <1>4 DEF QuietInv, Refreshes, NoneIsReused
  <2>3. QED
    BY <1>2, <2>1, <2>2 DEF Refreshes, StraysFollowALeave
<1>9. \A t \in 1 .. last : Held(t) => Held(t)'
  <2>1. \A j \in Tasks : Settled(j)' => Settled(j)
    BY <1>0 DEF Settled, Newcomer, Leaver
  <2>2. QED
    BY <1>2, <1>5, <1>6, <2>1 DEF Held
<1>10. \A t : (Restored(t, {"granted"}) => Restored(t, {"granted"})') /\
              (Restored(t, {"granted", "save"}) => Restored(t, {"granted", "save"})')
  BY <1>0 DEF Restored
<1>11. \A j \in Tasks : At(j, "save")' => /\ At(j, "save") /\ task'[j] = task[j]
                                        /\ task[j].token \in 1 .. last
  BY <1>0
<1>12. Copies'
  <2>1. ~Stale(memory)'
    BY StoresAges
  <2>2. StaleMemory'
    BY <2>1 DEF StaleMemory
  <2>3. StaleVault'
    BY <1>4, <1>9, <1>10 DEF QuietInv, Copies, StaleVault, Stale
  <2>4. StaleCopies'
    BY <1>4, <1>9, <1>10, <1>11 DEF QuietInv, Copies, StaleCopies
  <2>5. CleanRestore'
    BY <1>0, <1>4, <1>11, <2>1 DEF QuietInv, Copies, CleanRestore
  <2>6. DroppedCopies'
    <3>1. memory' # NoToken
      OBVIOUS
    <3>2. QED
      BY <1>2, <1>4, <1>5, <1>6, <1>7, <1>11, <3>1 DEF QuietInv, Copies, DroppedCopies
  <2>7. QED
    BY <2>2, <2>3, <2>4, <2>5, <2>6 DEF Copies
<1>13. QED
  BY <1>8, <1>12

\* A restore or a login fills an empty memory.
LEMMA StoresOfNewcomer ==
  ASSUME Typed, Typed', QuietInv, NEW k \in Tasks, Stores(k), task[k].op \notin Calls
  PROVE  Refreshes' /\ Copies'
<1> USE DEF Typed, TypedTasks, Stores, Moves, At, Idle
<1>0. /\ memory = NoToken /\ memory' = task[k].token /\ task[k].token \in 1 .. last
      /\ task[k].op \in {"restore", "signin"}
      /\ \A j \in Tasks : j # k => task'[j] = task[j]
  OBVIOUS
<1>1. \A t : ~InMemory(t) /\ ~Held(t)
  BY <1>0 DEF InMemory, Held
<1>2. \A j \in Tasks : (Refreshing(j)' => Refreshing(j)) /\ (Stray(j)' => Stray(j))
  <2>1. ~Refreshing(k)'
    BY DEF Refreshing
  <2>2. \A j \in Tasks : j # k => (Refreshing(j)' <=> Refreshing(j))
    BY DEF Refreshing
  <2>3. QED
    BY <1>1, <2>1, <2>2 DEF Stray
<1>3. \A t : (Gone(t)' <=> Gone(t)) /\ (Stale(t)' <=> Stale(t))
  BY DEF Stale, Gone
<1>4. (OneLeaver' <=> OneLeaver) /\ (TwoLeavers' <=> TwoLeavers)
  BY DEF OneLeaver, TwoLeavers, Leaver
<1>5. Refreshes'
  <2>1. CallsRefreshMemory'
    <3> SUFFICES ASSUME NEW j \in Tasks, task'[j].op \in Calls, At(j, "exchange")'
                 PROVE  Gone(task[j].token)'
      BY DEF CallsRefreshMemory
    <3>1. j # k /\ task'[j] = task[j] /\ task[j].token # NoToken
      OBVIOUS
    <3>2. QED
      BY <1>0, <1>3, <3>1 DEF QuietInv, Refreshes, CallsRefreshMemory
  <2>2. NoneIsReused'
    BY <1>3 DEF QuietInv, Refreshes, NoneIsReused
  <2>3. StraysFollowALeave'
    BY <1>2, <1>4 DEF QuietInv, Refreshes, StraysFollowALeave
  <2>4. QED
    BY <2>1, <2>2, <2>3 DEF Refreshes
<1>6. ~Stale(memory)' /\ ~Stale(task[k].token)
  BY StoresAges DEF QuietInv, Ages, NewTokensApart, Stale
<1>7. \A j \in Tasks : At(j, "save")' => /\ task'[j].token = task[j].token /\ task[j].token \in 1 .. last
                                        /\ (j = k \/ (At(j, "save") /\ task'[j] = task[j]))
  OBVIOUS
<1>8. \A t : (Restored(t, {"granted"}) => Restored(t, {"granted", "save"})') /\
             (Restored(t, {"granted", "save"}) => Restored(t, {"granted", "save"})')
  BY DEF Restored
<1>9. ASSUME NEW j \in Tasks, At(j, "save"), ~Gone(task[j].token)
      PROVE  OneLeaver /\ TwoLeavers /\ \A i \in Tasks : ~Refreshing(i)
  BY <1>0, <1>1, <1>9 DEF QuietInv, Copies, DroppedCopies
<1>10. Copies'
  <2>1. StaleMemory'
    BY <1>6 DEF StaleMemory
  <2>2. StaleVault'
    BY <1>1, <1>3, <1>8 DEF QuietInv, Copies, StaleVault
  <2>3. StaleCopies'
    <3> SUFFICES ASSUME NEW j \in Tasks, At(j, "save")', Stale(task[j].token)'
                 PROVE  Restored(task[j].token, {"granted"})' \/ Held(task[j].token)'
      BY DEF StaleCopies
    <3>1. j # k /\ At(j, "save") /\ task'[j] = task[j] /\ Stale(task[j].token) /\ task[j].token \in 1 .. last
      BY <1>3, <1>6, <1>7
    <3>2. Restored(task[j].token, {"granted"})
      BY <1>1, <3>1 DEF QuietInv, Copies, StaleCopies
    <3>3. PICK i \in Tasks : At(i, "granted") /\ task[i].op = "restore" /\ session[task[i].token] = session[task[j].token]
      BY <3>2 DEF Restored
    <3>4. CASE i # k
      BY <3>1, <3>3, <3>4 DEF Restored
    <3>5. CASE i = k
      <4>1. InMemory(task[j].token)'
        BY <1>0, <3>1, <3>3, <3>5 DEF InMemory
      <4>2. TwoLeavers' /\ \A l \in Tasks : ~Stray(l)'
        BY <1>2, <1>4, <1>9, <3>1 DEF Stale, Stray
      <4>3. QED
        BY <4>1, <4>2 DEF Held
    <3>6. QED
      BY <3>4, <3>5
  <2>4. CleanRestore'
    <3>1. \A i \in Tasks : task'[i].op = "restore" /\ task'[i].stage \in {"load", "exchange"} => task'[i] = task[i]
      OBVIOUS
    <3>2. QED
      BY <1>3, <1>6, <1>7, <3>1 DEF QuietInv, Copies, CleanRestore
  <2>5. DroppedCopies'
    <3> SUFFICES ASSUME NEW j \in Tasks, At(j, "save")', ~Gone(task[j].token)', ~InMemory(task[j].token)'
                 PROVE  OneLeaver' /\ TwoLeavers' /\ \A i \in Tasks : ~Refreshing(i)'
      BY DEF DroppedCopies
    <3>1. j # k
      BY <1>0, <1>7 DEF InMemory
    <3>2. QED
      BY <1>2, <1>3, <1>4, <1>7, <1>9, <3>1
  <2>6. QED
    BY <2>1, <2>2, <2>3, <2>4, <2>5 DEF Copies
<1>11. QED
  BY <1>5, <1>10
LEMMA StoresStep ==
  ASSUME Typed, Typed', QuietInv, NEW k \in Tasks, Stores(k) PROVE QuietInv'
BY StoresAges, StoresOfCall, StoresOfNewcomer DEF QuietInv

\* A call takes a copy of the session in memory, to save it.
Takes(k) ==
    /\ UNCHANGED <<last, session, spent, expired, memory, vault, lock, ended, left>>
    /\ At(k, "persist") /\ memory # NoToken /\ Moves(k, "save", memory)

LEMMA TakesStep ==
  ASSUME Typed, Typed', QuietInv, NEW k \in Tasks, Takes(k) PROVE QuietInv'
<1> USE DEF Typed, TypedTasks, Takes, Moves, At
<1>1. Orders'
  BY DEF QuietInv, Orders, OpsOK, OneRestore, Restoring
<1>2. Ages'
  BY DEF QuietInv, Ages, NewTokensApart, KnownIsOld, MemoryIsNew, CallsWereRefused, Settled, Newcomer, Leaver
<1>3. \A t : (Stale(t)' <=> Stale(t)) /\ (Gone(t)' <=> Gone(t)) /\ (InMemory(t)' <=> InMemory(t))
  BY DEF Stale, Gone, InMemory
<1>4. \A j \in Tasks : (Refreshing(j)' <=> Refreshing(j)) /\ (Stray(j)' <=> Stray(j))
  BY DEF Refreshing, Stray, InMemory
<1>5. (OneLeaver' <=> OneLeaver) /\ (TwoLeavers' <=> TwoLeavers)
  BY DEF OneLeaver, TwoLeavers, Leaver
<1>6. Refreshes'
  BY <1>3, <1>4, <1>5 DEF QuietInv, Refreshes, CallsRefreshMemory, NoneIsReused, StraysFollowALeave
<1>7. \A t : Held(t) => Held(t)'
  BY <1>3, <1>4, <1>5 DEF Held, Settled, Newcomer, Leaver
<1>8. \A t : (Restored(t, {"granted"}) => Restored(t, {"granted"})') /\
             (Restored(t, {"granted", "save"}) => Restored(t, {"granted", "save"})')
  BY DEF Restored
<1>9. \A j \in Tasks : j # k => task'[j] = task[j]
  OBVIOUS
<1>10. Copies'
  <2>1. StaleMemory' /\ StaleVault'
    BY <1>3, <1>7, <1>8 DEF QuietInv, Copies, StaleMemory, StaleVault
  <2>2. StaleCopies'
    BY <1>3, <1>7, <1>8, <1>9 DEF QuietInv, Copies, StaleMemory, StaleCopies
  <2>3. CleanRestore'
    BY <1>3, <1>9 DEF QuietInv, Copies, CleanRestore
  <2>4. DroppedCopies'
    BY <1>3, <1>4, <1>5, <1>9 DEF QuietInv, Copies, DroppedCopies, InMemory
  <2>5. QED
    BY <2>1, <2>2, <2>3, <2>4 DEF Copies
<1>11. QED
  BY <1>1, <1>2, <1>6, <1>10 DEF QuietInv

\* A copy is written to the vault; a login may go on to restart the process.
Writes(k) ==
    /\ UNCHANGED <<last, session, spent, expired, memory, lock, ended, left>>
    /\ At(k, "save") /\ vault' = task[k].token
    /\ \A j \in Tasks : j # k => task'[j] = task[j]
    /\ task'[k] = Idle \/ (task[k].op = "signin" /\ Moves(k, "restart", task[k].token))

LEMMA WritesStep ==
  ASSUME Typed, Typed', QuietInv, NEW k \in Tasks, Writes(k) PROVE QuietInv'
<1> USE DEF Typed, TypedTasks, Writes, Moves, At, Idle
<1>0. \A j \in Tasks : j # k => task'[j] = task[j]
  OBVIOUS
<1>1. Orders'
  <2>1. OpsOK'
    BY DEF QuietInv, Orders, OpsOK, Calls
  <2>2. \A j \in Tasks : Restoring(j)' => Restoring(j)
    BY DEF Restoring
  <2>3. QED
    BY <2>1, <2>2 DEF QuietInv, Orders, OneRestore
<1>2. \A j \in Tasks : Settled(j)' => Settled(j) /\ task'[j].known = task[j].known
  BY DEF Settled, Newcomer, Leaver
<1>3. Ages'
  <2>1. NewTokensApart'
    BY DEF QuietInv, Ages, NewTokensApart
  <2>2. KnownIsOld' /\ CallsWereRefused'
    BY DEF QuietInv, Ages, KnownIsOld, CallsWereRefused
  <2>3. MemoryIsNew'
    BY <1>2 DEF QuietInv, Ages, MemoryIsNew
  <2>4. QED
    BY <2>1, <2>2, <2>3 DEF Ages
<1>4. \A t : (Stale(t)' <=> Stale(t)) /\ (Gone(t)' <=> Gone(t)) /\ (InMemory(t)' <=> InMemory(t))
  BY DEF Stale, Gone, InMemory
<1>5. \A j \in Tasks : (Refreshing(j)' <=> Refreshing(j)) /\ (Stray(j)' <=> Stray(j))
  BY DEF Refreshing, Stray, InMemory
<1>6. (OneLeaver => OneLeaver') /\ (TwoLeavers => TwoLeavers')
  BY DEF OneLeaver, TwoLeavers, Leaver
<1>7. Refreshes'
  BY <1>4, <1>5, <1>6 DEF QuietInv, Refreshes, CallsRefreshMemory, NoneIsReused, StraysFollowALeave
<1>8. \A t : Held(t) => Held(t)'
  BY <1>2, <1>4, <1>5, <1>6 DEF Held
<1>9. \A t : Restored(t, {"granted"}) => Restored(t, {"granted"})' /\ Restored(t, {"granted", "save"})'
  BY DEF Restored
<1>10. \A j \in Tasks : At(j, "save")' => At(j, "save") /\ task'[j] = task[j]
  OBVIOUS
<1>11. Copies'
  <2>1. StaleMemory'
    <3>1. \A j \in Tasks : At(j, "granted") => task'[j] = task[j]
      OBVIOUS
    <3>2. QED
      BY <1>4, <1>8, <1>9, <3>1 DEF QuietInv, Copies, StaleMemory
  <2>2. StaleVault'
    BY <1>4, <1>8, <1>9 DEF QuietInv, Copies, StaleCopies, StaleVault
  <2>3. StaleCopies'
    BY <1>4, <1>8, <1>9, <1>10 DEF QuietInv, Copies, StaleCopies
  <2>4. CleanRestore'
    <3>1. \A i \in Tasks : task'[i].op = "restore" /\ task'[i].stage \in {"load", "exchange"} => task'[i] = task[i]
      OBVIOUS
    <3>2. QED
      BY <1>4, <1>10, <3>1 DEF QuietInv, Copies, CleanRestore
  <2>5. DroppedCopies'
    BY <1>4, <1>5, <1>6, <1>10 DEF QuietInv, Copies, DroppedCopies
  <2>6. QED
    BY <2>1, <2>2, <2>3, <2>4, <2>5 DEF Copies
<1>12. QED
  BY <1>1, <1>3, <1>7, <1>11 DEF QuietInv

\* A sign-out empties memory; its session is left.
Drops(k) ==
    /\ UNCHANGED <<last, session, spent, expired, vault, lock, ended>>
    /\ At(k, "leave") /\ Moves(k, "wipe", task[k].token)
    /\ memory' = NoToken /\ left \subseteq left'
    /\ memory # NoToken => session[memory] \in left'

LEMMA DropsStep ==
  ASSUME Typed, Typed', QuietInv, NEW k \in Tasks, Drops(k) PROVE QuietInv'
<1> USE DEF Typed, TypedTasks, Drops, Moves, At
<1>0. \A j \in Tasks : j # k => task'[j] = task[j]
  OBVIOUS
<1>1. Orders'
  BY DEF QuietInv, Orders, OpsOK, OneRestore, Restoring
<1>2. Ages'
  <2>1. NewTokensApart' /\ KnownIsOld' /\ CallsWereRefused'
    BY DEF QuietInv, Ages, NewTokensApart, KnownIsOld, CallsWereRefused
  <2>2. MemoryIsNew'
    BY DEF MemoryIsNew
  <2>3. QED
    BY <2>1, <2>2 DEF Ages
<1>3. \A t : (Stale(t)' => Stale(t)) /\ (Gone(t) => Gone(t)') /\ ~InMemory(t)'
  BY DEF Stale, Gone, InMemory
<1>4. \A t : InMemory(t) => Gone(t)' /\ ~Stale(t)'
  BY DEF InMemory, Gone, Stale
<1>5. \A j \in Tasks : Refreshing(j)' <=> Refreshing(j)
  BY DEF Refreshing
<1>6. OneLeaver' /\ (OneLeaver => TwoLeavers')
  BY DEF OneLeaver, TwoLeavers, Leaver
<1>7. Refreshes'
  <2>1. CallsRefreshMemory'
    <3>1. \A j \in Tasks : At(j, "exchange")' => At(j, "exchange") /\ task'[j] = task[j] /\ task[j].token # NoToken
      OBVIOUS
    <3>2. \A j \in Tasks : At(j, "exchange") /\ memory = task[j].token => InMemory(task[j].token)
      BY DEF InMemory
    <3>3. QED
      BY <1>3, <1>4, <3>1, <3>2 DEF QuietInv, Refreshes, CallsRefreshMemory
  <2>2. NoneIsReused'
    BY <1>3 DEF QuietInv, Refreshes, NoneIsReused
  <2>3. StraysFollowALeave'
    BY <1>6 DEF StraysFollowALeave
  <2>4. QED
    BY <2>1, <2>2, <2>3 DEF Refreshes
<1>8. \A t : Held(t) => ~Stale(t)'
  BY <1>4 DEF Held
<1>9. \A t : (Restored(t, {"granted"}) => Restored(t, {"granted"})') /\
             (Restored(t, {"granted", "save"}) => Restored(t, {"granted", "save"})')
  BY DEF Restored
<1>10. Copies'
  <2>1. StaleMemory'
    BY DEF StaleMemory, Stale
  <2>2. StaleVault' /\ StaleCopies'
    BY <1>3, <1>8, <1>9 DEF QuietInv, Copies, StaleVault, StaleCopies
  <2>3. CleanRestore'
    <3>1. ~Stale(memory)'
      BY DEF Stale
    <3>2. QED
      BY <1>3, <3>1 DEF QuietInv, Copies, CleanRestore
  <2>4. DroppedCopies'
    <3>1. \A j \in Tasks : At(j, "save")' => At(j, "save") /\ task'[j] = task[j]
      OBVIOUS
    <3>2. QED
      BY <1>3, <1>4, <1>5, <1>6, <3>1 DEF QuietInv, Copies, DroppedCopies
  <2>5. QED
    BY <2>1, <2>2, <2>3, <2>4 DEF Copies
<1>11. QED
  BY <1>1, <1>2, <1>7, <1>10 DEF QuietInv

\* The only task that runs replaces the process.
Replaces(k) ==
    /\ UNCHANGED <<last, session, spent, expired, vault, ended, left>>
    /\ At(k, "restart") /\ \A j \in Tasks : j # k => At(j, "idle")
    /\ memory' = NoToken /\ \A j \in Tasks : task'[j] = Idle

LEMMA ReplacesStep ==
  ASSUME Typed, Typed', QuietInv, NEW k \in Tasks, Replaces(k) PROVE QuietInv'
<1> USE DEF Typed, TypedTasks, Replaces, At, Idle
<1>1. Orders' /\ Ages'
  BY DEF Orders, OpsOK, OneRestore, Restoring, Ages, NewTokensApart, KnownIsOld, MemoryIsNew, CallsWereRefused,
         Settled, Newcomer, Leaver, Calls
<1>2. Refreshes'
  BY DEF Refreshes, CallsRefreshMemory, NoneIsReused, StraysFollowALeave, Stray, Refreshing
<1>3. ~Stale(vault)
  <2>1. ~TwoLeavers /\ Settled(k)
    BY DEF TwoLeavers, Leaver, Settled
  <2>2. ~Held(vault) /\ ~Restored(vault, {"granted", "save"})
    BY <2>1 DEF Held, Restored
  <2>3. QED
    BY <2>2 DEF QuietInv, Copies, StaleVault
<1>4. Copies'
  BY <1>3 DEF Copies, StaleMemory, StaleVault, StaleCopies, CleanRestore, DroppedCopies, Stale, Gone
<1>5. QED
  BY <1>1, <1>2, <1>4 DEF QuietInv

\* Access tokens expire that every running task knew when it began.
Expires ==
    /\ UNCHANGED <<last, session, spent, memory, vault, lock, ended, left, task>>
    /\ expired <= expired'
    /\ \A k \in Tasks : ~At(k, "idle") => expired' \in task[k].known

LEMMA ExpiresStep ==
  ASSUME Typed, Typed', QuietInv, Expires PROVE QuietInv'
<1> USE DEF Typed, TypedTasks, Expires, At
<1>1. Orders'
  BY DEF QuietInv, Orders, OpsOK, OneRestore, Restoring
<1>2. Ages'
  BY DEF QuietInv, Ages, NewTokensApart, KnownIsOld, MemoryIsNew, CallsWereRefused, Settled, Newcomer, Leaver
<1>3. Refreshes'
  BY DEF QuietInv, Refreshes, CallsRefreshMemory, NoneIsReused, StraysFollowALeave, Stray, Refreshing,
         InMemory, OneLeaver, Leaver, Gone, Stale
<1>4. \A t, u : (Stale(t)' <=> Stale(t)) /\ (Gone(t)' <=> Gone(t)) /\ (InMemory(t)' <=> InMemory(t))
               /\ (Held(t)' <=> Held(t)) /\ (Restored(t, u)' <=> Restored(t, u))
  BY DEF Stale, Gone, InMemory, Held, Restored, Settled, Newcomer, Leaver, TwoLeavers, Stray, Refreshing
<1>5. Copies'
  BY <1>4 DEF QuietInv, Copies, StaleMemory, StaleVault, StaleCopies, CleanRestore, DroppedCopies,
              OneLeaver, TwoLeavers, Leaver, Refreshing
<1>6. QED
  BY <1>1, <1>2, <1>3, <1>5 DEF QuietInv

LEMMA TypedOf == TypeOK => Typed
BY DEF TypeOK, Typed, TypedTasks, TaskState

\* What Carry, Goto, End and Begin do to the tasks.
LEMMA MovesOf ==
  ASSUME TypeOK, NEW k \in Tasks
  PROVE  /\ \A s, t : Carry(k, s, t) => Moves(k, s, t)
         /\ \A s : Goto(k, s) => Moves(k, s, task[k].token)
         /\ End(k) => task'[k] = Idle /\ \A j \in Tasks : j # k => task'[j] = task[j]
<1>1. task \in [Tasks -> TaskState] /\ task[k] \in TaskState
  BY DEF TypeOK
<1>2. ASSUME NEW s, NEW t, Carry(k, s, t) PROVE Moves(k, s, t)
  <2>1. task' = [task EXCEPT ![k] = [task[k] EXCEPT !.stage = s, !.token = t]]
    BY <1>1, <1>2 DEF Carry
  <2>2. task'[k] = [task[k] EXCEPT !.stage = s, !.token = t] /\ \A j \in Tasks : j # k => task'[j] = task[j]
    BY <1>1, <2>1
  <2>3. QED
    BY <1>1, <2>2 DEF Moves, TaskState
<1>3. ASSUME NEW s, Goto(k, s) PROVE Moves(k, s, task[k].token)
  <2>1. task' = [task EXCEPT ![k] = [task[k] EXCEPT !.stage = s]]
    BY <1>1, <1>3 DEF Goto
  <2>2. task'[k] = [task[k] EXCEPT !.stage = s] /\ \A j \in Tasks : j # k => task'[j] = task[j]
    BY <1>1, <2>1
  <2>3. QED
    BY <1>1, <2>2 DEF Moves, TaskState
<1>4. QED
  BY <1>1, <1>2, <1>3 DEF End

LEMMA BeginIs ==
  ASSUME TypeOK, NEW k \in Tasks, NEW op, NEW stage, NEW t, Begin(k, op, stage, t)
  PROVE  /\ At(k, "idle") /\ \A j \in Tasks : j # k => task'[j] = task[j]
         /\ task'[k].op = op /\ task'[k].stage = stage /\ task'[k].token = t /\ task'[k].known = Received
BY DEF Begin, TypeOK

\* What happened is not forgotten.
LEMMA HappenedStays == [Next]_vars => happened \subseteq happened'
<1> SUFFICES ASSUME [Next]_vars PROVE happened \subseteq happened'
  OBVIOUS
<1>1. ASSUME NEW k \in Tasks, NEW op \in Calls, BeginCall(k, op) PROVE happened \subseteq happened'
  BY <1>1 DEF BeginCall
<1>2. ASSUME NEW k \in Tasks, BeginRestore(k) \/ BeginSignin(k) \/ BeginLogout(k) \/ Lost(k)
      PROVE  happened \subseteq happened'
  BY <1>2 DEF BeginRestore, BeginSignin, BeginLogout, Lost
<1>3. ASSUME NEW k \in Tasks, Continue(k) PROVE happened \subseteq happened'
  BY <1>3 DEF Continue, Attempt, Retry, Answered, AcquireLock, Refresh, Exchange, Granted, Refused, Load, Check,
              Erase, Forget, Login, Persist, Save, Logout, Leave, Wipe, Restart
<1>4. CASE Expire \/ RevokeSession \/ Quit \/ UNCHANGED vars
  BY <1>4 DEF Expire, RevokeSession, Quit, vars
<1>5. QED
  BY <1>1, <1>2, <1>3, <1>4 DEF Next

\* A step of a process that nothing disturbs is one of the steps above.
LEMMA QuietNext ==
  ASSUME TypeOK, TypeOK', QuietInv, reused \subseteq left, [Next]_vars, happened' = {}
  PROVE  QuietInv' /\ reused' \subseteq left'
<1> DEFINE Good == QuietInv' /\ reused' \subseteq left'
<1> USE DEF serverVars
<1>0. Typed /\ Typed'
  BY TypedOf, TypeOK' => Typed' DEF TypeOK, Typed, TypedTasks, TaskState
<1>1. ASSUME NEW k \in Tasks, Harmless(k), reused' = reused PROVE Good
  BY <1>0, <1>1, HarmlessStep DEF Harmless
<1>2. ASSUME NEW k \in Tasks, NEW op \in Calls, BeginCall(k, op) PROVE Good
  <2>1. Harmless(k)
    BY <1>2, BeginIs DEF BeginCall, Harmless, At, Calls
  <2>2. QED
    BY <1>1, <1>2, <2>1 DEF BeginCall
<1>3. ASSUME NEW k \in Tasks, BeginRestore(k) PROVE Good
  <2>1. Enters(k, "restore")
    BY <1>3, BeginIs DEF BeginRestore, Enters, Restoring, Busy, At
  <2>2. QED
    BY <1>0, <1>3, <2>1, EntersStep DEF BeginRestore
<1>4. ASSUME NEW k \in Tasks, BeginSignin(k) PROVE Good
  <2>1. Enters(k, "signin")
    BY <1>4, BeginIs DEF BeginSignin, Enters
  <2>2. QED
    BY <1>0, <1>4, <2>1, EntersStep DEF BeginSignin
<1>5. ASSUME NEW k \in Tasks, BeginLogout(k) PROVE Good
  <2>1. Harmless(k)
    BY <1>5, BeginIs DEF BeginLogout, Harmless, At
  <2>2. QED
    BY <1>1, <1>5, <2>1 DEF BeginLogout
<1>6. ASSUME NEW k \in Tasks, Attempt(k) \/ Retry(k) PROVE Good
  <2>1. task[k].op \in Calls /\ task[k].stage \in {"attempt", "retry"}
    BY <1>6 DEF QuietInv, Orders, OpsOK, Attempt, Retry, At
  <2>2. /\ UNCHANGED <<last, session, spent, reused, expired, memory, vault, left>>
        /\ lock' = lock \/ lock = k
    BY <1>6 DEF Attempt, Retry, Release
  <2>3. \/ End(k) /\ ended' = ended
        \/ Goto(k, "persist") /\ ended' = ended
        \/ Goto(k, "leave") /\ ended \subseteq ended'
        \/ Goto(k, "queue") /\ ended' = ended /\ ~Authenticates(task[k].token) /\ At(k, "attempt")
    BY <1>6 DEF Attempt, Retry, Answered
  <2>4. CASE End(k) /\ ended' = ended
    <3>1. Harmless(k)
      BY <2>1, <2>2, <2>4, MovesOf DEF Harmless, Idle
    <3>2. QED
      BY <1>1, <2>2, <3>1
  <2>5. CASE Goto(k, "persist") /\ ended' = ended
    <3>1. Harmless(k)
      BY <2>1, <2>2, <2>5, MovesOf DEF Harmless, Moves, At
    <3>2. QED
      BY <1>1, <2>2, <3>1
  <2>6. CASE Goto(k, "leave") /\ ended \subseteq ended'
    <3>1. Harmless(k)
      BY <2>1, <2>2, <2>6, MovesOf DEF Harmless, Moves, At
    <3>2. QED
      BY <1>1, <2>2, <3>1
  <2>7. CASE Goto(k, "queue") /\ ended' = ended /\ ~Authenticates(task[k].token) /\ At(k, "attempt")
    <3>1. task[k].token <= expired \/ session[task[k].token] \in ended
      <4>1. task[k].token # NoToken
        BY <2>7 DEF At, TypeOK
      <4>2. task[k].token \in 0 .. last /\ expired \in 0 .. last
        BY <1>0 DEF Typed, TypedTasks
      <4>3. QED
        BY <2>7, <4>1, <4>2 DEF Authenticates
    <3>2. Harmless(k)
      BY <2>1, <2>2, <2>7, <3>1, MovesOf DEF Harmless, Moves, At
    <3>3. QED
      BY <1>1, <2>2, <3>2
  <2>8. QED
    BY <2>3, <2>4, <2>5, <2>6, <2>7
<1>7. ASSUME NEW k \in Tasks, AcquireLock(k) PROVE Good
  <2>1. CASE memory = task[k].token
    <3>1. Acquires(k)
      BY <1>7, <2>1, MovesOf DEF AcquireLock, Acquires
    <3>2. QED
      BY <1>0, <1>7, <3>1, AcquiresStep DEF AcquireLock
  <2>2. CASE memory # task[k].token
    <3>1. task[k].op \in Calls
      BY <1>7 DEF QuietInv, Orders, OpsOK, AcquireLock, At
    <3>2. Harmless(k)
      BY <1>7, <2>2, <3>1, MovesOf DEF AcquireLock, Harmless, Moves, At
    <3>3. QED
      BY <1>1, <1>7, <3>2 DEF AcquireLock
  <2>3. QED
    BY <2>1, <2>2
<1>8. ASSUME NEW k \in Tasks, Refresh(k) PROVE Good
  BY <1>8 DEF QuietInv, Orders, OpsOK, Refresh
<1>9. ASSUME NEW k \in Tasks, Exchange(k) PROVE Good
  <2>1. task[k].token \in 1 .. last /\ At(k, "exchange")
    BY <1>0, <1>9 DEF Exchange, At, Typed, TypedTasks
  <2>2. CASE Goto(k, "refused") /\ UNCHANGED <<last, session, spent>>
    <3>1. Harmless(k)
      BY <1>9, <2>1, <2>2, MovesOf DEF Exchange, Harmless, Moves, At
    <3>2. QuietInv'
      BY <1>0, <3>1, HarmlessStep
    <3>3. reused' \subseteq reused \cup ({session[task[k].token]} \ ended) /\ left' = left
          /\ (task[k].token \in spent \/ reused' = reused)
      BY <1>9, <2>2 DEF Exchange
    <3>4. ~Stale(task[k].token)
      BY <2>1 DEF QuietInv, Refreshes, NoneIsReused
    <3>5. QED
      BY <3>2, <3>3, <3>4 DEF Stale, Gone
  <2>3. CASE /\ task[k].token \notin spent /\ session[task[k].token] \notin ended
             /\ spent' = spent \cup {task[k].token} /\ Issue(session[task[k].token])
             /\ Carry(k, "granted", last + 1) /\ UNCHANGED <<ended, reused>>
    <3>1. /\ last' = last + 1 /\ session'[last + 1] = session[task[k].token]
          /\ \A t \in 1 .. last : session'[t] = session[t]
      BY <2>3 DEF Issue, TypeOK
    <3>2. Rotates(k)
      BY <1>9, <2>1, <2>3, <3>1, MovesOf DEF Exchange, Rotates
    <3>3. QED
      BY <1>0, <1>9, <2>3, <3>2, RotatesStep DEF Exchange
  <2>4. QED
    BY <1>9, <2>2, <2>3 DEF Exchange
<1>10. ASSUME NEW k \in Tasks, Granted(k) PROVE Good
  <2>1. Stores(k)
    <3>1. ~(task[k].op = "cancel" /\ lock # k)
      BY <1>10 DEF QuietInv, Orders, OpsOK, Granted, At, Calls
    <3>2. task[k].op \in {"restore", "signin"} => memory = NoToken
      BY <1>10 DEF Granted
    <3>3. \/ task[k].op \in {"restore", "signin"} /\ Moves(k, "save", task[k].token)
          \/ task[k].op = "signin" /\ task'[k] = Idle /\ \A j \in Tasks : j # k => task'[j] = task[j]
          \/ task[k].op \in Calls /\ Moves(k, "retry", task[k].token)
      BY <1>10, <3>1, MovesOf DEF Granted
    <3>4. QED
      BY <1>10, <3>2, <3>3 DEF Granted, Stores, Moves
  <2>2. QED
    BY <1>0, <1>10, <2>1, StoresStep DEF Granted
<1>11. ASSUME NEW k \in Tasks, Refused(k) \/ Check(k) \/ Erase(k) \/ Logout(k) \/ Wipe(k) PROVE Good
  <2>1. /\ UNCHANGED <<last, session, spent, reused, expired, memory, left>>
        /\ vault' \in {vault, NoToken} /\ ended \subseteq ended' /\ (lock' = lock \/ lock = k)
    BY <1>11 DEF Refused, Release, Check, Erase, Logout, Wipe
  <2>2. \/ End(k) /\ At(k, "refused")
        \/ \E s \in {"check", "erase", "forget", "leave"} :
              Goto(k, s) /\ task[k].stage \in {"refused", "check", "erase", "logout"}
        \/ Goto(k, "restart") /\ At(k, "wipe")
    BY <1>11 DEF Refused, Check, Erase, Logout, Wipe, At
  <2>3. Harmless(k)
    <3>1. CASE End(k) /\ At(k, "refused")
      BY <2>1, <3>1, MovesOf DEF Harmless, Idle, At
    <3>2. ASSUME NEW s \in {"check", "erase", "forget", "leave"}, Goto(k, s),
                 task[k].stage \in {"refused", "check", "erase", "logout"}
          PROVE  Harmless(k)
      BY <2>1, <3>2, MovesOf DEF Harmless, Moves, At
    <3>3. CASE Goto(k, "restart") /\ At(k, "wipe")
      BY <2>1, <3>3, MovesOf DEF Harmless, Moves, At
    <3>4. QED
      BY <2>2, <3>1, <3>2, <3>3
  <2>4. QED
    BY <1>1, <2>1, <2>3
<1>12. ASSUME NEW k \in Tasks, Load(k) PROVE Good
  <2>1. CASE vault = NoToken
    <3>1. Harmless(k)
      BY <1>12, <2>1, MovesOf DEF Load, Harmless, Idle, At
    <3>2. QED
      BY <1>1, <1>12, <3>1 DEF Load
  <2>2. CASE vault # NoToken
    <3>1. Loads(k)
      BY <1>12, <2>2, MovesOf DEF Load, Loads
    <3>2. QED
      BY <1>0, <1>12, <3>1, LoadsStep DEF Load
  <2>3. QED
    BY <2>1, <2>2
<1>13. ASSUME NEW k \in Tasks, Forget(k) PROVE Good
  <2>1. memory = NoToken /\ memory' = memory
    BY <1>13 DEF Forget
  <2>2. Harmless(k)
    BY <1>13, <2>1, MovesOf DEF Forget, Harmless, Idle, At
  <2>3. QED
    BY <1>1, <1>13, <2>2 DEF Forget
<1>14. ASSUME NEW k \in Tasks, Login(k) PROVE Good
  <2>1. last' = last + 1 /\ \A t \in 1 .. last : session'[t] = session[t]
    BY <1>14 DEF Login, Issue, TypeOK
  <2>2. Opens(k)
    BY <1>14, <2>1, MovesOf DEF Login, Opens
  <2>3. QED
    BY <1>0, <1>14, <2>2, OpensStep DEF Login
<1>15. ASSUME NEW k \in Tasks, Persist(k) PROVE Good
  <2>1. CASE memory = NoToken
    <3>1. Harmless(k)
      BY <1>15, <2>1, MovesOf DEF Persist, Harmless, Idle, At
    <3>2. QED
      BY <1>1, <1>15, <3>1 DEF Persist
  <2>2. CASE memory # NoToken
    <3>1. Takes(k)
      BY <1>15, <2>2, MovesOf DEF Persist, Takes
    <3>2. QED
      BY <1>0, <1>15, <3>1, TakesStep DEF Persist
  <2>3. QED
    BY <2>1, <2>2
<1>16. ASSUME NEW k \in Tasks, Save(k) PROVE Good
  <2>1. \/ task'[k] = Idle /\ \A j \in Tasks : j # k => task'[j] = task[j]
        \/ task[k].op = "signin" /\ Moves(k, "restart", task[k].token)
    BY <1>16, MovesOf DEF Save
  <2>2. Writes(k)
    BY <1>16, <2>1 DEF Save, Writes, Moves
  <2>3. QED
    BY <1>0, <1>16, <2>2, WritesStep DEF Save
<1>17. ASSUME NEW k \in Tasks, Leave(k) PROVE Good
  <2>1. Drops(k)
    BY <1>17, MovesOf DEF Leave, Drops
  <2>2. QED
    BY <1>0, <1>17, <2>1, DropsStep DEF Leave
<1>18. ASSUME NEW k \in Tasks, Restart(k) PROVE Good
  <2>1. Busy = {k}
    BY <1>18 DEF Restart
  <2>2. Replaces(k)
    BY <1>18, <2>1 DEF Restart, Replaces, Fresh, Busy, At
  <2>3. QED
    BY <1>0, <1>18, <2>2, ReplacesStep DEF Restart
<1>19. ASSUME NEW k \in Tasks, Continue(k) PROVE Good
  BY <1>6, <1>7, <1>8, <1>9, <1>10, <1>11, <1>12, <1>13, <1>14, <1>15, <1>16, <1>17, <1>18, <1>19 DEF Continue
<1>20. ASSUME NEW k \in Tasks, Lost(k) PROVE Good
  BY <1>20 DEF Lost
<1>21. ASSUME RevokeSession \/ Quit PROVE Good
  BY <1>21 DEF RevokeSession, Quit
<1>22. ASSUME Expire \/ UNCHANGED vars PROVE Good
  <2>1. Expires \/ UNCHANGED vars
    BY <1>0, <1>22 DEF Expire, Expires, Busy, Typed
  <2>2. CASE Expires
    BY <1>0, <1>22, <2>2, ExpiresStep DEF Expire, vars
  <2>3. CASE UNCHANGED vars
    BY <1>0, <2>3
    DEF vars, QuietInv, Orders, OpsOK, OneRestore, Restoring, Ages, NewTokensApart, KnownIsOld, MemoryIsNew,
        CallsWereRefused, Refreshes, CallsRefreshMemory, NoneIsReused, StraysFollowALeave, Copies, StaleMemory,
        StaleVault, StaleCopies, CleanRestore, DroppedCopies, Held, Restored, Settled, Newcomer, Leaver,
        OneLeaver, TwoLeavers, Stray, Refreshing, InMemory, Stale, Gone, At
  <2>4. QED
    BY <2>1, <2>2, <2>3
<1>23. QED
  BY <1>2, <1>3, <1>4, <1>5, <1>19, <1>20, <1>21, <1>22 DEF Next
\* However the tasks interleave: no session the user is still signed in to ends
\* because one of them presented a spent token, unless one of Disturbances
\* happened.
THEOREM NoReuse == Spec => []NoSessionDiesOfReuse
<1> DEFINE Inv == happened = {} => QuietInv /\ reused \subseteq left
<1>1. Init => Inv
  BY DEF Init, Idle, At, QuietInv, Orders, OpsOK, OneRestore, Restoring, Ages, NewTokensApart, KnownIsOld,
         MemoryIsNew, CallsWereRefused, Refreshes, CallsRefreshMemory, NoneIsReused, StraysFollowALeave,
         Copies, StaleMemory, StaleVault, StaleCopies, CleanRestore, DroppedCopies, Settled, Newcomer, Leaver,
         Stray, Refreshing, Stale, Calls
<1>2. TypeOK /\ TypeOK' /\ Inv /\ [Next]_vars => Inv'
  <2> SUFFICES ASSUME TypeOK, TypeOK', Inv, [Next]_vars, happened' = {}
               PROVE  QuietInv' /\ reused' \subseteq left'
    OBVIOUS
  <2>1. happened = {}
    BY HappenedStays
  <2>2. QED
    BY <2>1, QuietNext
<1>3. Inv => NoSessionDiesOfReuse
  BY DEF NoSessionDiesOfReuse
<1>4. QED
  BY <1>1, <1>2, <1>3, TypeCorrect, PTL DEF Spec

=============================================================================
