---------------------------- MODULE MCAlertIntake ---------------------------
(* Small instances of AlertIntake. *)
EXTENDS AlertIntake, TLC

CONSTANTS a1, a2, poll, once

\* Two alerts of one service.
OneService == a1 :> "s1" @@ a2 :> "s1"

\* Which caller runs a cycle makes no difference.
Symmetry == Permutations({poll, once})

=============================================================================
