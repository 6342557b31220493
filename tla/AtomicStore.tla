----------------------------- MODULE AtomicStore -----------------------------
(***************************************************************************)
(* What the change store promises its callers, without saying how: the     *)
(* record of a change is the sequence of the writes made to it, each made  *)
(* whole, at one instant, on top of all those before it and allowed by the *)
(* lifecycle table; a request that is told "done" has written once, one    *)
(* that is refused has not, and one whose answer is lost may have.         *)
(*                                                                         *)
(* This is how the operations of module ChangeControl use the store: one   *)
(* step each.  VersionedStore implements it.                               *)
(***************************************************************************)
EXTENDS Lifecycle, Sequences

CONSTANTS Changes, Requests

VARIABLES
    history,    \* the writes made to each change, in order
    answer      \* what each request was told

storeVars == <<history, answer>>

Answers == {"none", "done", "refused", "unknown"}

StateAfter(writes) == writes[Len(writes)].to

Init ==
    /\ history = [c \in Changes |-> <<>>]
    /\ answer = [r \in Requests |-> "none"]

Tell(r, a) == answer[r] = "none" /\ answer' = [answer EXCEPT ![r] = a]

\* The first write creates the change, every other one is a legal move of it.
Apply(r, c, to) ==
    /\ IF history[c] = <<>> THEN to = "awaiting_dev_execution"
                            ELSE IsAllowed(StateAfter(history[c]), to)
    /\ history' = [history EXCEPT ![c] = Append(@, [req |-> r, to |-> to])]

Write(r, c, to) == Apply(r, c, to) /\ (Tell(r, "done") \/ Tell(r, "unknown"))

TurnAway(r) == (Tell(r, "refused") \/ Tell(r, "unknown")) /\ UNCHANGED history

Next ==
    \/ \E r \in Requests, c \in Changes, to \in DeploymentStates : Write(r, c, to)
    \/ \E r \in Requests : TurnAway(r)

Spec == Init /\ [][Next]_storeVars

=============================================================================
