-------------------------- MODULE MCDesktopSession --------------------------
(* Small instances of DesktopSession for TLC. *)
EXTENDS DesktopSession, TLC

CONSTANTS t1, t2, t3

TwoTasks == {t1, t2}
ThreeTasks == {t1, t2, t3}
TaskSymmetry == Permutations(Tasks)

=============================================================================
