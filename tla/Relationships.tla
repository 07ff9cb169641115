--------------------------- MODULE Relationships ---------------------------
(***************************************************************************)
(* Friendships, blocks and direct channels (repository.rs): two directed   *)
(* rows for each pair of people, changed under one lock for the pair, and  *)
(* the one direct channel a pair may open.                                 *)
(***************************************************************************)
EXTENDS FiniteSets

CONSTANTS Users, None

\* what the theorems ask of the constants
Parameters == None \notin {"incoming", "outgoing", "friend", "blocked"}

VARIABLES
    state,   \* user_relationships: <<user, target>> -> state of the row, or None
    direct   \* dm_pairs: pairs with a direct channel

rvars == <<state, direct>>

Rows == {row \in Users \X Users : row[1] # row[2]}
Mirror(row) == <<row[2], row[1]>>
Ends(row) == {row[1], row[2]}

TypeOK ==
    /\ state \in [Rows -> {"incoming", "outgoing", "friend", "blocked", None}]
    /\ direct \subseteq {Ends(row) : row \in Rows}

Init == state = [row \in Rows |-> None] /\ direct = {}

Put(row, mine, theirs) == state' = [state EXCEPT ![row] = mine, ![Mirror(row)] = theirs]

\* request_relationship: a crossed request accepts, a repeated one changes nothing
Request(row) ==
    /\ "blocked" \notin {state[row], state[Mirror(row)]}
    /\ \/ state[row] = "incoming" /\ Put(row, "friend", "friend")
       \/ state[row] = None /\ Put(row, "outgoing", "incoming")
    /\ UNCHANGED direct

\* update_relationship, accept
Accept(row) ==
    /\ state[row] = "incoming" /\ state[Mirror(row)] = "outgoing"
    /\ Put(row, "friend", "friend")
    /\ UNCHANGED direct

\* update_relationship, block: the other row is removed, whatever it was
Block(row) ==
    /\ Put(row, "blocked", None)
    /\ UNCHANGED direct

\* mutant: only the row of the one who asks is removed
Kept_Always(row) == state[Mirror(row)]
\* what delete_relationship leaves of the other row
Kept(row) == IF state[Mirror(row)] = "blocked" THEN "blocked" ELSE None

\* delete_relationship: decline, cancel, unfriend, unblock
Remove(row) ==
    /\ state[row] # None \/ state[Mirror(row)] \notin {None, "blocked"}
    /\ Put(row, None, Kept(row))
    /\ UNCHANGED direct

\* open_direct_channel
OpenDirect(row) ==
    /\ state[row] = "friend" /\ state[Mirror(row)] = "friend"
    /\ direct' = direct \cup {Ends(row)}
    /\ UNCHANGED state

Next == \E row \in Rows : Request(row) \/ Accept(row) \/ Block(row) \/ Remove(row) \/ OpenDirect(row)
Spec == Init /\ [][Next]_rvars

\* The two rows of a pair tell the same story: a friendship is mutual, a
\* request is pending on both sides or on neither, and a block stands alone
\* (request_relationship, update_relationship and delete_relationship in any
\* order; docs/direct-messages-presence.md, "both directed rows agree").
RowsAgree ==
    \A row \in Rows :
       /\ state[row] = "friend" => state[Mirror(row)] = "friend"
       /\ state[row] = "incoming" <=> state[Mirror(row)] = "outgoing"
       /\ state[row] = "blocked" => state[Mirror(row)] \in {"blocked", None}
=============================================================================
