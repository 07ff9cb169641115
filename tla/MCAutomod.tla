------------------------------ MODULE MCAutomod ------------------------------
(* Small instances of Automod for TLC. *)
EXTENDS Automod
CONSTANTS ada, ben, q1, q2
MCAuthors == {ada, ben}
MCRequests == {q1, q2}
MCRules == {[trigger |-> "pattern", action |-> "ban"], [trigger |-> "repeat", action |-> "timeout"]}
=============================================================================
