------------------------- MODULE MCMessageDelivery -------------------------
(* Small instances of MessageDelivery for TLC. *)
EXTENDS MessageDelivery, TLC

CONSTANTS m1, m2

OneMessage == {m1}
TwoMessages == {m1, m2}
MessageSymmetry == Permutations(Messages)

=============================================================================
