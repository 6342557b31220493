--------------------------- MODULE MCChangeControl ---------------------------
(* Small instances of ChangeControl: one change, so that all requests collide on it. *)
EXTENDS ChangeControlClaims, ReviewScreen, TLC

\* A clean incident whose alert was kept, so the agents may run on it.
CleanOpening == {[jenkins |-> "QUEUED", diagnosis |-> "sound", warned |-> FALSE, alert |-> TRUE]}

AnyDiagnosis == {[jenkins |-> "QUEUED", diagnosis |-> d, warned |-> w, alert |-> TRUE] :
                    d \in {"sound", "weak"}, w \in BOOLEAN}

Symmetry == Permutations(Builds) \union Permutations(Clients) \union Permutations(Runs)

=============================================================================
