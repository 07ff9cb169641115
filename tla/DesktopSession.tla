--------------------------- MODULE DesktopSession ---------------------------
(***************************************************************************)
(* The session of one account on one desktop: the refresh tokens the       *)
(* server rotates (auth.rs), the session the native process holds in       *)
(* memory (exo-client remote.rs, ApiClient), and the refresh token it      *)
(* keeps in the credential vault of the operating system (credentials.rs,  *)
(* lib.rs of src-tauri).                                                   *)
(*                                                                         *)
(* A refresh token is used once.  Presenting a spent one ends its session. *)
(* Memory and vault are written by concurrent tasks of the process: the    *)
(* synchronization loop and one task per Tauri command.  A step here is a  *)
(* read or a write of memory or vault, or the server's answer to a         *)
(* request; the requests travel between the steps.                         *)
(*                                                                         *)
(* Tokens are numbered in the order the server issues them.  A number      *)
(* stands for the pair issued together, access and refresh token; a        *)
(* session is named by its first token.                                    *)
(***************************************************************************)
EXTENDS Integers, FiniteSets

CONSTANTS
    Tasks,       \* tasks of the process that may run at once
    MaxTokens    \* bound: pairs of tokens the server issues

ASSUME MaxTokensAssumption == MaxTokens \in Nat

Token == 1 .. MaxTokens
NoToken == 0
NoTask == "none"
ASSUME TasksAssumption == NoTask \notin Tasks

VARIABLES
    last,        \* pairs issued so far
    session,     \* auth_tokens.session_id of each token
    spent,       \* refresh tokens with consumed_at set
    ended,       \* sessions with revoked_at set
    reused,      \* of these, the ones revoked by the reuse of a spent token
    expired,     \* access tokens up to this one are past expires_at
    memory,      \* ApiClient.session
    vault,       \* the refresh token in the credential vault
    lock,        \* the task that holds ApiClient.refresh_lock
    task,        \* what each task is doing
    left,        \* history: sessions the user signed out of
    happened     \* history: which of Disturbances happened

serverVars == <<last, session, spent, ended, reused, expired>>
vars == <<serverVars, memory, vault, lock, task, left, happened>>

(***************************************************************************)
(* Operations of the process, by what they do with the session:            *)
(*   call        an API call; some end by saving the session, others, like *)
(*               perform_mls_maintenance, do not.  A call that saves stands *)
(*               for activate_authenticated_account, whose restart is Quit  *)
(*   cancel      cancel_account_deletion: a call, then a refresh           *)
(*   schedule    schedule_account_deletion: ends every session             *)
(*   restore     restore_session   signin  a login   logout  logout_session*)
(***************************************************************************)
Calls == {"call", "cancel", "schedule"}
Operations == Calls \cup {"restore", "signin", "logout"}
Stages == {"idle", "attempt", "queue", "refresh", "exchange", "granted",
           "refused", "retry", "load", "check", "erase", "forget", "login",
           "logout", "persist", "save", "leave", "wipe", "restart"}
\* token: what the task carries; known: the tokens received when it began
TaskState == [op : Operations, stage : Stages, token : Token \cup {NoToken},
              known : SUBSET Token]
Idle == [op |-> "call", stage |-> "idle", token |-> NoToken, known |-> {}]

\* quit: the application is closed while no task runs; cut: while some does
\* crossed: a restore or a login replaced, or a refused restore dropped, a
\* session that came into memory after it began
Disturbances == {"quit", "cut", "lost", "cancel", "revoked", "crossed"}

TypeOK ==
    /\ last \in 0 .. MaxTokens
    /\ session \in [Token -> Token \cup {NoToken}]
    /\ \A t \in Token : session[t] <= t /\ (session[t] # NoToken <=> t <= last)
    /\ spent \subseteq 1 .. last
    /\ reused \subseteq ended /\ ended \subseteq 1 .. last
    /\ expired \in 0 .. last
    /\ memory \in 0 .. last /\ vault \in 0 .. last
    /\ lock \in Tasks \cup {NoTask}
    /\ task \in [Tasks -> TaskState]
    /\ \A k \in Tasks : task[k].token <= last
    /\ \A k \in Tasks : task[k].stage \in {"attempt", "queue", "exchange", "granted",
            "refused", "save", "check", "erase"} => task[k].token # NoToken
    /\ left \subseteq 1 .. last
    /\ happened \subseteq Disturbances

Init ==
    /\ last = 0 /\ session = [t \in Token |-> NoToken]
    /\ spent = {} /\ ended = {} /\ reused = {} /\ expired = 0
    /\ memory = NoToken /\ vault = NoToken
    /\ lock = NoTask /\ task = [k \in Tasks |-> Idle]
    /\ left = {} /\ happened = {}

-----------------------------------------------------------------------------
At(k, stage) == task[k].stage = stage
Busy == {k \in Tasks : ~At(k, "idle")}
\* bound: every task in flight can still be issued the pairs it may need
Need(op) == IF op = "cancel" THEN 2 ELSE 1
Room(op) == last + Need(op) + Cardinality(Busy)
                + Cardinality({k \in Busy : task[k].op = "cancel"}) <= MaxTokens

\* tokens issued whose reply is still under way
Coming == {task[k].token : k \in {j \in Tasks : At(j, "granted")}}
Received == {t \in 1 .. last : \A u \in Coming : t < u}

Begin(k, op, stage, t) ==
    /\ At(k, "idle") /\ Room(op)
    /\ task' = [task EXCEPT ![k] =
                  [op |-> op, stage |-> stage, token |-> t, known |-> Received]]
Goto(k, stage) == task' = [task EXCEPT ![k].stage = stage]
Carry(k, stage, t) == task' = [task EXCEPT ![k].stage = stage, ![k].token = t]
End(k) == task' = [task EXCEPT ![k] = Idle]
\* the guard is dropped when send_authenticated returns
Release(k) == lock' = IF lock = k THEN NoTask ELSE lock

\* AuthStore::authenticate on the access token issued with t
Authenticates(t) == t # NoToken /\ t > expired /\ session[t] \notin ended
Usable(t) == t # NoToken /\ t \notin spent /\ session[t] \notin ended

-----------------------------------------------------------------------------
(* send_authenticated: try, and on a 401 refresh once under the lock *)

\* without a session a call is refused and changes nothing
BeginCall(k, op) ==
    /\ op \in Calls
    /\ memory # NoToken
    /\ Begin(k, op, "attempt", memory)
    /\ UNCHANGED <<serverVars, memory, vault, lock, left, happened>>

\* the server did what was asked, or refused it for a reason of its own; a call
\* returns, with or without saving the session
Answered(k) ==
    \/ End(k) /\ UNCHANGED <<ended, happened>>
    \/ /\ task[k].op = "call"
       /\ Goto(k, "persist")
       /\ UNCHANGED <<ended, happened>>
    \/ /\ task[k].op = "cancel"
       /\ Goto(k, "refresh")
       /\ happened' = happened \cup {"cancel"}
       /\ UNCHANGED ended
    \/ /\ task[k].op = "schedule"
       /\ ended' = ended \cup {session[t] : t \in 1 .. last}
       /\ Goto(k, "leave")
       /\ UNCHANGED happened

Attempt(k) ==
    /\ At(k, "attempt")
    /\ \/ /\ Authenticates(task[k].token)
          /\ Answered(k)
       \/ /\ ~Authenticates(task[k].token)
          /\ Goto(k, "queue")
          /\ UNCHANGED <<ended, happened>>
    /\ UNCHANGED <<last, session, spent, reused, expired, memory, vault, lock, left>>

\* mutant: two tasks may refresh at once
AcquireLock_NotExclusive(k) ==
    /\ At(k, "queue")
    /\ lock' = k
    /\ IF memory = task[k].token THEN Goto(k, "exchange") ELSE Carry(k, "retry", memory)
    /\ UNCHANGED <<serverVars, memory, vault, left, happened>>

\* another task may have refreshed while this one waited: then the request is
\* sent again with what memory holds by now, otherwise memory is refreshed
AcquireLock(k) ==
    /\ At(k, "queue")
    /\ lock = NoTask
    /\ lock' = k
    /\ IF memory = task[k].token THEN Goto(k, "exchange") ELSE Carry(k, "retry", memory)
    /\ UNCHANGED <<serverVars, memory, vault, left, happened>>

\* cancel_account_deletion calls refresh_session without the lock
Refresh(k) ==
    /\ At(k, "refresh")
    /\ IF memory # NoToken THEN Carry(k, "exchange", memory) ELSE End(k)
    /\ UNCHANGED <<serverVars, memory, vault, lock, left, happened>>

Retry(k) ==
    /\ At(k, "retry")
    /\ \/ /\ Authenticates(task[k].token)
          /\ Answered(k)
       \/ /\ ~Authenticates(task[k].token)
          /\ End(k)
          /\ UNCHANGED <<ended, happened>>
    /\ Release(k)
    /\ UNCHANGED <<last, session, spent, reused, expired, memory, vault, left>>

-----------------------------------------------------------------------------
(* The server's side of a refresh, AuthStore::refresh *)

Issue(s) ==
    /\ last < MaxTokens
    /\ last' = last + 1
    /\ session' = [session EXCEPT ![last + 1] = s]

\* mutant: the presented token is not marked as consumed
Exchange_KeepsOldToken(k) ==
    LET t == task[k].token IN
    /\ At(k, "exchange")
    /\ \/ /\ session[t] \in ended
          /\ Goto(k, "refused")
          /\ UNCHANGED <<last, session>>
       \/ /\ session[t] \notin ended
          /\ Issue(session[t])
          /\ Carry(k, "granted", last + 1)
    /\ UNCHANGED <<spent, ended, reused, expired, memory, vault, lock, left, happened>>

Exchange(k) ==
    LET t == task[k].token IN
    /\ At(k, "exchange")
    /\ \/ /\ t \in spent
          /\ ended' = ended \cup {session[t]}
          /\ reused' = reused \cup ({session[t]} \ ended)
          /\ Goto(k, "refused")
          /\ UNCHANGED <<last, session, spent>>
       \/ /\ t \notin spent /\ session[t] \in ended
          /\ Goto(k, "refused")
          /\ UNCHANGED <<last, session, spent, ended, reused>>
       \/ /\ t \notin spent /\ session[t] \notin ended
          /\ spent' = spent \cup {t}
          /\ Issue(session[t])
          /\ Carry(k, "granted", last + 1)
          /\ UNCHANGED <<ended, reused>>
    /\ UNCHANGED <<expired, memory, vault, lock, left, happened>>

\* refresh_with_token and the logins store the reply in memory; a registration
\* is saved later, when its recovery codes were confirmed
Granted(k) ==
    /\ At(k, "granted")
    /\ memory' = task[k].token
    /\ \/ /\ task[k].op \in {"restore", "signin"}
          /\ Goto(k, "save")
       \/ /\ task[k].op = "signin"
          /\ End(k)
       \/ /\ task[k].op \in Calls /\ lock = k
          /\ Goto(k, "retry")
       \/ /\ task[k].op = "cancel" /\ lock # k
          /\ Goto(k, "persist")
    /\ happened' = IF task[k].op \in {"restore", "signin"} /\ memory # NoToken
                      THEN happened \cup {"crossed"} ELSE happened
    /\ UNCHANGED <<serverVars, vault, lock, left>>

\* mutant: a refused refresh leaves the lock held
Refused_KeepsLock(k) ==
    /\ At(k, "refused")
    /\ IF task[k].op = "restore" THEN Goto(k, "check") ELSE End(k)
    /\ UNCHANGED <<serverVars, memory, vault, lock, left, happened>>

\* a refused call keeps the session in memory
Refused(k) ==
    /\ At(k, "refused")
    /\ IF task[k].op = "restore" THEN Goto(k, "check") ELSE End(k)
    /\ Release(k)
    /\ UNCHANGED <<serverVars, memory, vault, left, happened>>

-----------------------------------------------------------------------------
(* restore_session, run by the synchronization loop and by auth_status *)

\* mutant: the loop gives up after an attempt that failed offline
BeginRestore_GivesUp(k) ==
    /\ memory = NoToken /\ "lost" \notin happened
    /\ \A j \in Busy : task[j].op # "restore"
    /\ Begin(k, "restore", "load", NoToken)
    /\ UNCHANGED <<serverVars, memory, vault, lock, left, happened>>

\* auth_restore is held from here to the end
BeginRestore(k) ==
    /\ memory = NoToken
    /\ \A j \in Busy : task[j].op # "restore"
    /\ Begin(k, "restore", "load", NoToken)
    /\ UNCHANGED <<serverVars, memory, vault, lock, left, happened>>

\* mutant: an empty vault is not told from a saved credential
Load_NoEntry(k) ==
    /\ At(k, "load")
    /\ Carry(k, "exchange", vault)
    /\ UNCHANGED <<serverVars, memory, vault, lock, left, happened>>

Load(k) ==
    /\ At(k, "load")
    /\ IF vault = NoToken THEN End(k) ELSE Carry(k, "exchange", vault)
    /\ UNCHANGED <<serverVars, memory, vault, lock, left, happened>>

\* mutant: the vault is cleared whatever it holds by now
Check_Unconditional(k) ==
    /\ At(k, "check")
    /\ Goto(k, "erase")
    /\ UNCHANGED <<serverVars, memory, vault, lock, left, happened>>

\* clear_if_matches: read, compare, then delete
Check(k) ==
    /\ At(k, "check")
    /\ Goto(k, IF vault = task[k].token THEN "erase" ELSE "forget")
    /\ UNCHANGED <<serverVars, memory, vault, lock, left, happened>>

Erase(k) ==
    /\ At(k, "erase")
    /\ vault' = NoToken
    /\ Goto(k, "forget")
    /\ UNCHANGED <<serverVars, memory, lock, left, happened>>

\* clear_session, whatever memory holds by now
Forget(k) ==
    /\ At(k, "forget")
    /\ memory' = NoToken
    /\ happened' = IF memory # NoToken THEN happened \cup {"crossed"} ELSE happened
    /\ End(k)
    /\ UNCHANGED <<serverVars, vault, lock, left>>

-----------------------------------------------------------------------------
(* Signing in, saving and signing out *)

BeginSignin(k) ==
    /\ memory = NoToken
    /\ Begin(k, "signin", "login", NoToken)
    /\ UNCHANGED <<serverVars, memory, vault, lock, left, happened>>

\* issue_session
Login(k) ==
    /\ At(k, "login")
    /\ Issue(last + 1)
    /\ Carry(k, "granted", last + 1)
    /\ UNCHANGED <<spent, ended, reused, expired, memory, vault, lock, left, happened>>

\* persist_session: take a copy of the session in memory ...
Persist(k) ==
    /\ At(k, "persist")
    /\ IF memory = NoToken THEN End(k) ELSE Carry(k, "save", memory)
    /\ UNCHANGED <<serverVars, memory, vault, lock, left, happened>>

\* ... and write it; a login that switched the account then restarts
Save(k) ==
    /\ At(k, "save")
    /\ vault' = task[k].token
    /\ \/ End(k)
       \/ task[k].op = "signin" /\ Goto(k, "restart")
    /\ UNCHANGED <<serverVars, memory, lock, left, happened>>

\* a logout is not retried after a 401
BeginLogout(k) ==
    /\ memory # NoToken
    /\ Begin(k, "logout", "logout", memory)
    /\ UNCHANGED <<serverVars, memory, vault, lock, left, happened>>

Logout(k) ==
    /\ At(k, "logout")
    /\ ended' = IF Authenticates(task[k].token)
                  THEN ended \cup {session[task[k].token]} ELSE ended
    /\ Goto(k, "leave")
    /\ UNCHANGED <<last, session, spent, reused, expired, memory, vault, lock, left, happened>>

Leave(k) ==
    /\ At(k, "leave")
    /\ left' = left \cup ({session[t] : t \in {memory, task[k].token} \ {NoToken}})
    /\ memory' = NoToken
    /\ Goto(k, "wipe")
    /\ UNCHANGED <<serverVars, vault, lock, happened>>

Wipe(k) ==
    /\ At(k, "wipe")
    /\ vault' = NoToken
    /\ Goto(k, "restart")
    /\ UNCHANGED <<serverVars, memory, lock, left, happened>>

\* the process is replaced: only the vault survives
Fresh ==
    /\ memory' = NoToken
    /\ lock' = NoTask
    /\ task' = [k \in Tasks |-> Idle]

Restart(k) ==
    /\ At(k, "restart")
    /\ Fresh
    /\ happened' = IF Busy = {k} THEN happened ELSE happened \cup {"cut"}
    /\ UNCHANGED <<serverVars, vault, left>>

-----------------------------------------------------------------------------
(* The environment *)

\* An access token lives fifteen minutes and a request ten seconds: no token
\* expires in a task that was running when it was received.
Expire ==
    /\ \E t \in expired + 1 .. last :
         /\ \A k \in Busy : t \in task[k].known
         /\ expired' = t
    /\ UNCHANGED <<last, session, spent, ended, reused, memory, vault, lock, task, left, happened>>

\* a revoked device, a suspension, a password changed elsewhere
RevokeSession ==
    /\ \E t \in 1 .. last :
         /\ session[t] \notin ended
         /\ ended' = ended \cup {session[t]}
    /\ happened' = happened \cup {"revoked"}
    /\ UNCHANGED <<last, session, spent, reused, expired, memory, vault, lock, task, left>>

\* bound: one request or reply is lost; the client gives up waiting
Lost(k) ==
    /\ "lost" \notin happened
    /\ happened' = happened \cup {"lost"}
    /\ \/ /\ task[k].stage \in {"attempt", "retry", "exchange", "granted", "refused", "login"}
          /\ End(k)
       \/ /\ At(k, "logout")
          /\ Goto(k, "leave")
    /\ Release(k)
    /\ UNCHANGED <<serverVars, memory, vault, left>>

\* bound: the user closes the application once
Quit ==
    /\ happened \cap {"quit", "cut"} = {}
    /\ happened' = happened \cup {IF Busy = {} THEN "quit" ELSE "cut"}
    /\ Fresh
    /\ UNCHANGED <<serverVars, vault, left>>

Continue(k) ==
    \/ Attempt(k) \/ AcquireLock(k) \/ Refresh(k) \/ Retry(k)
    \/ Exchange(k) \/ Granted(k) \/ Refused(k)
    \/ Load(k) \/ Check(k) \/ Erase(k) \/ Forget(k)
    \/ Login(k) \/ Persist(k) \/ Save(k)
    \/ Logout(k) \/ Leave(k) \/ Wipe(k) \/ Restart(k)

Next ==
    \/ \E k \in Tasks :
         \/ \E op \in Calls : BeginCall(k, op)
         \/ BeginRestore(k) \/ BeginSignin(k) \/ BeginLogout(k)
         \/ Continue(k)
         \/ Lost(k)
    \/ Expire \/ RevokeSession \/ Quit

Spec == Init /\ [][Next]_vars

\* Replies come or time out, the tokio mutex serves its waiters in order, and
\* the synchronization loop restores again and again.
Fairness ==
    /\ \A k \in Tasks : WF_vars(Continue(k)) /\ SF_vars(AcquireLock(k))
    /\ WF_vars(\E k \in Tasks : BeginRestore(k))
FairSpec == Spec /\ Fairness

-----------------------------------------------------------------------------
(* Properties *)

\* However the tasks of a process that nothing disturbs interleave, none of
\* them presents a spent token of a session the user is still signed in to
\* (send_authenticated compares the access token after it got the lock).  When a
\* restore or a login crosses another it may: a call can have taken a copy of
\* the session that was replaced, and save it over the newer one.
NoSessionDiesOfReuse == happened = {} => reused \subseteq left

\* The saved credential restores the session after the application is closed
\* (docs/implementation-status.md: "Native session persistence in the
\* operating-system credential vault with startup refresh rotation").
SessionsSurviveQuitting == happened \subseteq {"quit"} => reused \subseteq left

\* A session has one refresh token that still works, whatever was lost or
\* retried: two holders of a session can never both keep it alive.
OneUsableTokenPerSession ==
    \A t, u \in 1 .. last : session[t] = session[u] /\ {t, u} \cap spent = {} => t = u

\* A restore that was refused decides to erase only a credential that works no
\* more: one that a login saved meanwhile is spared (clear_if_matches).
OnlyDeadCredentialsAreErased ==
    [][\A k \in Tasks : At(k, "check") /\ task'[k].stage = "erase" => ~Usable(vault)]_vars

\* A process without a session whose vault holds a token that works gets its
\* session back whatever reply was lost, unless that token stops working or the
\* bound on tokens leaves no room.
SavedSessionsComeBack ==
    (Usable(vault) /\ memory = NoToken) ~>
        (memory # NoToken \/ ~Usable(vault) \/ ~Room("restore"))

\* Every operation ends: no one waits for ever for the refresh lock.
OperationsEnd == \A k \in Tasks : k \in Busy ~> k \notin Busy

=============================================================================
