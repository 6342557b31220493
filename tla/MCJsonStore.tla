---------------------------- MODULE MCJsonStore ----------------------------
(* Small instances of JsonStore. *)
EXTENDS JsonStore, TLC

\* A move that may be repeated, and one that ends the change.
SomeTargets == {"dev_fix_in_progress", "closed_rejected"}

Symmetry == Permutations(Requests) \union Permutations(Changes)

=============================================================================
