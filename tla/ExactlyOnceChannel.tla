------------------------- MODULE ExactlyOnceChannel -------------------------
(***************************************************************************)
(* What the outbox promises the person who sends a message: every attempt  *)
(* together posts it at most once, the client says "sent" only of what was *)
(* posted, and "sent" is the last word.  "failed" is not: the message may  *)
(* have been posted although no attempt heard so.                          *)
(***************************************************************************)
EXTENDS Naturals

CONSTANT Messages

VARIABLES
    status,   \* what the client shows of each message
    posts     \* times each message was posted

vars == <<status, posts>>

Init ==
    /\ status = [m \in Messages |-> "new"]
    /\ posts = [m \in Messages |-> 0]

Send(m) ==
    /\ status[m] = "new"
    /\ status' = [status EXCEPT ![m] = "pending"]
    /\ UNCHANGED posts

Post(m) ==
    /\ status[m] # "new" /\ posts[m] = 0
    /\ posts' = [posts EXCEPT ![m] = 1]
    /\ UNCHANGED status

Confirm(m) ==
    /\ status[m] \in {"pending", "failed"} /\ posts[m] = 1
    /\ status' = [status EXCEPT ![m] = "sent"]
    /\ UNCHANGED posts

GiveUp(m) ==
    /\ status[m] = "pending"
    /\ status' = [status EXCEPT ![m] = "failed"]
    /\ UNCHANGED posts

\* the user asks for everything that failed to be tried again
Requeue ==
    /\ status' = [m \in Messages |->
                    IF status[m] = "failed" THEN "pending" ELSE status[m]]
    /\ UNCHANGED posts

Next ==
    \/ \E m \in Messages : Send(m) \/ Post(m) \/ Confirm(m) \/ GiveUp(m)
    \/ Requeue

Spec == Init /\ [][Next]_vars

=============================================================================
