------------------------------- MODULE SignIn -------------------------------
(***************************************************************************)
(* Email codes and Sign in with Apple (auth.rs): the one active code of an *)
(* address, browser flows that sign in or link an Apple identity to an     *)
(* account, and the sessions both issue.                                   *)
(*                                                                         *)
(* An account is named by its address.  Each action is one transaction of  *)
(* the auth store: requests that verify a password do it before, outside   *)
(* the transaction, and an Apple callback waits for Apple between its      *)
(* check of the flow and the completion.                                   *)
(***************************************************************************)
EXTENDS Naturals, FiniteSets, FiniteSetsExt

CONSTANTS
    Emails,
    Typed,         \* those that people type; the others are known to Apple only
    Subjects,      \* Apple identities
    AppleEmail,    \* the verified address Apple gives of an identity
    Flows,         \* apple_flows
    MaxAttempts,   \* MAX_CODE_ATTEMPTS
    MaxSessions,   \* bound: sessions issued
    MaxPasswords,  \* bound: passwords of an account
    MaxCodes,      \* bound: email challenges
    MaxProofs      \* bound: passwords verified at once

VARIABLES
    account,    \* address -> whether it has an account, whether it is verified, its password
    identity,   \* Apple identity -> the account it is linked to
    sessions,   \* auth_sessions
    flow,       \* browser flows
    callbacks,  \* answers of Apple between the check and the completion
    proved,     \* requests whose password was verified, before their transaction
    code,       \* address -> the challenge last requested
    mail,       \* challenges whose mail the handler still waits for
    handed,     \* history: flows whose session was given out, with the number of times
    recoveries  \* history: address -> times the password was recovered

svars == <<account, identity, sessions, flow, callbacks, proved, code, mail, handed, recoveries>>

NoAccount == [known |-> FALSE, verified |-> FALSE, password |-> 0]
NoFlow == [phase |-> "none", kind |-> "login", user |-> "none", session |-> 0, era |-> 0]
NoCode == [id |-> 0, attempts |-> 0, open |-> FALSE]
Phases == {"none", "open", "completed", "failed", "closed"}

\* what the theorems ask of the constants
Parameters ==
    /\ Typed \subseteq Emails /\ "none" \notin Emails /\ AppleEmail \in [Subjects -> Emails]
    /\ MaxAttempts \in Nat /\ MaxPasswords \in Nat \ {0} /\ MaxCodes \in Nat

TypeOK ==
    /\ \A e \in Emails :
          /\ account[e] \in [known : BOOLEAN, verified : BOOLEAN, password : 0 .. MaxPasswords]
          /\ code[e].id \in 0 .. MaxCodes /\ code[e].attempts \in 0 .. MaxAttempts
          /\ recoveries[e] \in 0 .. MaxPasswords
    /\ \A s \in Subjects : identity[s] = "none" \/ account[identity[s]].known
    /\ \A s, t \in Subjects : identity[s] = identity[t] => identity[s] = "none" \/ s = t
    /\ {r.id : r \in sessions} = 1 .. Cardinality(sessions)
    /\ \A f \in Flows : flow[f].phase \in Phases /\ flow[f].kind \in {"login", "link"}
    /\ mail \subseteq 1 .. MaxCodes

Init ==
    /\ account = [e \in Emails |-> NoAccount]
    /\ identity = [s \in Subjects |-> "none"]
    /\ sessions = {} /\ flow = [f \in Flows |-> NoFlow] /\ callbacks = {} /\ proved = {}
    /\ code = [e \in Emails |-> NoCode] /\ mail = {}
    /\ handed = [f \in Flows |-> 0] /\ recoveries = [e \in Emails |-> 0]

-----------------------------------------------------------------------------
(* Sessions and passwords *)

Live(e) == {r \in sessions : r.user = e /\ r.live}
Without(ended) == (sessions \ ended) \cup {[r EXCEPT !.live = FALSE] : r \in ended}

\* issue_session: "from" is what it was issued for
Issued(kept, e, from) ==
    kept \cup {[id |-> Cardinality(kept) + 1, user |-> e, live |-> TRUE, from |-> from]}
CanIssue == Cardinality(sessions) < MaxSessions

\* register_password_provisioned
Register(e) ==
    /\ ~account[e].known /\ CanIssue
    /\ account' = [account EXCEPT ![e] = [known |-> TRUE, verified |-> FALSE, password |-> 1]]
    /\ sessions' = Issued(sessions, e, <<"password">>)
    /\ UNCHANGED <<identity, flow, callbacks, proved, code, mail, handed, recoveries>>

\* login_password
Login(e) ==
    /\ account[e].password > 0 /\ CanIssue
    /\ sessions' = Issued(sessions, e, <<"password">>)
    /\ UNCHANGED <<account, identity, flow, callbacks, proved, code, mail, handed, recoveries>>

Logout(r) ==
    /\ r.live /\ sessions' = Without({r})
    /\ UNCHANGED <<account, identity, flow, callbacks, proved, code, mail, handed, recoveries>>

\* change_password: every other session ends
ChangePassword(r) ==
    /\ r.live /\ account[r.user].password \in 1 .. MaxPasswords - 1
    /\ account' = [account EXCEPT ![r.user].password = @ + 1]
    /\ sessions' = Without(Live(r.user) \ {r})
    /\ UNCHANGED <<identity, flow, callbacks, proved, code, mail, handed, recoveries>>

\* recover_password_provisioned: every session ends
RecoverPassword(e) ==
    /\ account[e].password \in 1 .. MaxPasswords - 1 /\ CanIssue
    /\ account' = [account EXCEPT ![e].password = @ + 1]
    /\ sessions' = Issued(Without(Live(e)), e, <<"password">>)
    /\ recoveries' = [recoveries EXCEPT ![e] = @ + 1]
    /\ UNCHANGED <<identity, flow, callbacks, proved, code, mail, handed>>

-----------------------------------------------------------------------------
(* Email codes *)

\* request_email_code: earlier challenges of the address are consumed
RequestCode(e) ==
    LET ids == {code[x].id : x \in Emails}
        id == Max(ids) + 1 IN
    /\ id <= MaxCodes
    /\ code' = [code EXCEPT ![e] = [id |-> id, attempts |-> 0, open |-> TRUE]]
    /\ mail' = mail \cup {id}
    /\ UNCHANGED <<account, identity, sessions, flow, callbacks, proved, handed, recoveries>>

\* the mail provider answers; a failure (also a late answer) cancels this challenge
MailAnswered(id, failed) ==
    /\ id \in mail /\ mail' = mail \ {id}
    /\ code' = [e \in Emails |->
                  IF failed /\ code[e].id = id THEN [code[e] EXCEPT !.open = FALSE] ELSE code[e]]
    /\ UNCHANGED <<account, identity, sessions, flow, callbacks, proved, handed, recoveries>>

\* verify_email_code with a wrong code
GuessCode(e) ==
    /\ code[e].id > 0 /\ code[e].attempts < MaxAttempts
    /\ code' = [code EXCEPT ![e].attempts = @ + 1]
    /\ UNCHANGED <<account, identity, sessions, flow, callbacks, proved, mail, handed, recoveries>>

Used(c) == [c EXCEPT !.open = FALSE]

\* find_or_create_user, with an address that was proved
Verified(a) == [known |-> TRUE, verified |-> TRUE, password |-> a.password]

\* verify_email_code with the code of the mail
VerifyCode(e) ==
    /\ code[e].open /\ code[e].attempts < MaxAttempts /\ CanIssue
    /\ code' = [code EXCEPT ![e] = Used(@)]
    /\ account' = [account EXCEPT ![e] = Verified(@)]
    /\ sessions' = Issued(sessions, e, <<"code", code[e].id>>)
    /\ UNCHANGED <<identity, flow, callbacks, proved, mail, handed, recoveries>>

\* a code expires after EMAIL_CODE_LIFETIME_MINUTES
CodeExpires(e) ==
    /\ code[e].open /\ code' = [code EXCEPT ![e].open = FALSE]
    /\ UNCHANGED <<account, identity, sessions, flow, callbacks, proved, mail, handed, recoveries>>

-----------------------------------------------------------------------------
(* Flows *)

\* begin_apple_flow
BeginLogin(f) ==
    /\ flow[f].phase = "none"
    /\ flow' = [flow EXCEPT ![f] = [NoFlow EXCEPT !.phase = "open"]]
    /\ UNCHANGED <<account, identity, sessions, callbacks, proved, code, mail, handed, recoveries>>

\* begin_apple_link and unlink_apple: the password is verified on a copy of its hash
ProvePassword(r, for) ==
    /\ r.live /\ account[r.user].password > 0 /\ Cardinality(proved) < MaxProofs
    /\ proved' = proved \cup {[for |-> for, user |-> r.user, session |-> r.id,
                               password |-> account[r.user].password]}
    /\ UNCHANGED <<account, identity, sessions, flow, callbacks, code, mail, handed, recoveries>>

Holds(p) == account[p.user].password = p.password
IsLive(id, e) == \E r \in Live(e) : r.id = id
Linked(e) == {s \in Subjects : identity[s] = e}

BeginLink(f, p) ==
    /\ p \in proved /\ p.for = "link" /\ proved' = proved \ {p}
    /\ IF Holds(p) /\ IsLive(p.session, p.user) /\ Linked(p.user) = {}
       THEN /\ flow[f].phase = "none"
            /\ flow' = [flow EXCEPT ![f] = [phase |-> "open", kind |-> "link", user |-> p.user,
                                            session |-> p.session, era |-> recoveries[p.user]]]
       ELSE flow' = flow
    /\ UNCHANGED <<account, identity, sessions, callbacks, code, mail, handed, recoveries>>

UnlinkApple(p) ==
    /\ p \in proved /\ p.for = "unlink" /\ proved' = proved \ {p}
    /\ identity' = [s \in Subjects |->
                      IF Holds(p) /\ identity[s] = p.user THEN "none" ELSE identity[s]]
    /\ UNCHANGED <<account, sessions, flow, callbacks, code, mail, handed, recoveries>>

\* apple_callback: the flow is looked up, then the code is exchanged with Apple
CallbackArrives(f, s) ==
    /\ flow[f].phase = "open"
    /\ callbacks' = callbacks \cup {[flow |-> f, subject |-> s]}
    /\ UNCHANGED <<account, identity, sessions, flow, proved, code, mail, handed, recoveries>>

\* mutant: any flow not yet given out can be completed
CanComplete_Twice(f) == flow[f].phase \in {"open", "completed"}
CanComplete(f) == flow[f].phase = "open"

\* complete_apple_flow, link
MayLink(f, s) ==
    LET e == flow[f].user IN
    IsLive(flow[f].session, e) /\ identity[s] \in {"none", e} /\ Linked(e) \subseteq {s}

CompleteLink(c) ==
    /\ c \in callbacks /\ flow[c.flow].kind = "link"
    /\ CanComplete(c.flow) /\ MayLink(c.flow, c.subject)
    /\ callbacks' = callbacks \ {c}
    /\ identity' = [identity EXCEPT ![c.subject] = flow[c.flow].user]
    /\ flow' = [flow EXCEPT ![c.flow].phase = "completed"]
    /\ UNCHANGED <<account, sessions, proved, code, mail, handed, recoveries>>

\* mutant: the address is taken for the account's, verified or not
MayEnter_ByAddress(s) ==
    identity[s] # "none" \/ Linked(AppleEmail[s]) = {}
\* complete_apple_flow, login: by identity, by verified address, or a new account
MayEnter(s) ==
    LET e == AppleEmail[s] IN
    identity[s] # "none" \/ (Linked(e) = {} /\ (account[e].known => account[e].verified))

CompleteLogin(c) ==
    LET s == c.subject
        e == IF identity[s] # "none" THEN identity[s] ELSE AppleEmail[s] IN
    /\ c \in callbacks /\ flow[c.flow].kind = "login"
    /\ CanComplete(c.flow) /\ MayEnter(s) /\ CanIssue
    /\ callbacks' = callbacks \ {c}
    /\ account' = IF account[e].known THEN account
                  ELSE [account EXCEPT ![e] = Verified(@)]
    /\ identity' = [identity EXCEPT ![s] = e]
    /\ sessions' = Issued(sessions, e, <<"flow", c.flow>>)
    /\ flow' = [flow EXCEPT ![c.flow].phase = "completed"]
    /\ UNCHANGED <<proved, code, mail, handed, recoveries>>

\* cancelled, refused by Apple, or refused above: fail_apple_flow when still open
CallbackFails(c) ==
    /\ c \in callbacks /\ callbacks' = callbacks \ {c}
    /\ flow' = IF flow[c.flow].phase = "open"
               THEN [flow EXCEPT ![c.flow].phase = "failed"] ELSE flow
    /\ UNCHANGED <<account, identity, sessions, proved, code, mail, handed, recoveries>>

\* poll_apple_flow, poll_apple_link: the outcome is given out once
Poll(f) ==
    /\ flow[f].phase \in {"completed", "failed"}
    /\ flow[f].kind = "link" => IsLive(flow[f].session, flow[f].user)
    /\ flow' = [flow EXCEPT ![f].phase = "closed"]
    /\ handed' = IF flow[f].phase = "completed" /\ flow[f].kind = "login"
                 THEN [handed EXCEPT ![f] = @ + 1] ELSE handed
    /\ UNCHANGED <<account, identity, sessions, callbacks, proved, code, mail, recoveries>>

FlowExpires(f) ==
    /\ flow[f].phase \in {"open", "completed", "failed"}
    /\ flow' = [flow EXCEPT ![f].phase = "closed"]
    /\ UNCHANGED <<account, identity, sessions, callbacks, proved, code, mail, handed, recoveries>>

-----------------------------------------------------------------------------

Passwords ==
    \/ \E e \in Typed : Register(e) \/ Login(e) \/ RecoverPassword(e)
    \/ \E r \in sessions : Logout(r) \/ ChangePassword(r)
    \/ \E r \in sessions, for \in {"link", "unlink"} : ProvePassword(r, for)

Codes ==
    \/ \E e \in Typed : RequestCode(e) \/ GuessCode(e) \/ VerifyCode(e) \/ CodeExpires(e)
    \/ \E id \in mail, failed \in BOOLEAN : MailAnswered(id, failed)

Apple ==
    \/ \E f \in Flows : BeginLogin(f) \/ Poll(f) \/ FlowExpires(f)
    \/ \E f \in Flows, p \in proved : BeginLink(f, p)
    \/ \E p \in proved : UnlinkApple(p)
    \/ \E f \in Flows, s \in Subjects : CallbackArrives(f, s)
    \/ \E c \in callbacks : CompleteLink(c) \/ CompleteLogin(c) \/ CallbackFails(c)

Next == Passwords \/ Codes \/ Apple
Spec == Init /\ [][Next]_svars

-----------------------------------------------------------------------------
(* Properties *)

\* One code, one browser flow: at most one session is issued for it and given
\* out once, however often the browser calls back, the code is tried or the
\* device polls (verify_email_code, complete_apple_flow, poll_apple_flow).
OneSessionEach ==
    /\ \A r, t \in sessions : r.from = t.from => r = t \/ r.from = <<"password">>
    /\ \A f \in Flows : handed[f] <= 1

\* An Apple identity joins an account that exists only when the account's
\* address was verified before, or by a link whose owner proved the password
\* since the last recovery of it: a recovery ends every link begun earlier
\* (complete_apple_flow; docs/apple-sign-in.md).
JoinsOnProof ==
    [][\A s \in Subjects :
          LET e == identity'[s] IN
          identity[s] # e /\ e # "none" =>
             \/ ~account[e].known
             \/ account[e].verified /\ AppleEmail[s] = e
             \/ \E f \in Flows : /\ flow[f].phase = "open" /\ flow'[f].phase = "completed"
                                 /\ flow[f].user = e /\ flow[f].era = recoveries[e]]_svars
=============================================================================
