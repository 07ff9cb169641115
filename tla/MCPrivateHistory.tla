-------------------------- MODULE MCPrivateHistory --------------------------
(* Small instances of PrivateHistory for TLC. *)
EXTENDS PrivateHistory
CONSTANTS m1, m2
MCMessages == {m1, m2}
=============================================================================
