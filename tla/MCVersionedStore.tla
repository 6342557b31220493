-------------------------- MODULE MCVersionedStore --------------------------
(* Small instances of VersionedStore: requests that collide on few changes. *)
EXTENDS VersionedStore, TLC

\* A dev run that is recorded and recorded again, and a rejection, after which every other move is refused.
SomeTargets == {"dev_fix_in_progress", "closed_rejected"}

Symmetry == Permutations(Requests) \union Permutations(Processes) \union Permutations(Changes)

=============================================================================
