------------------------- MODULE MCAccountLifecycle -------------------------
(* Small instances of AccountLifecycle for TLC. *)
EXTENDS AccountLifecycle

CONSTANTS g1, g2

TwoUsers == {1, 2}
ThreeUsers == {1, 2, 3}
OneGuild == {g1}
TwoGuilds == {g1, g2}

=============================================================================
