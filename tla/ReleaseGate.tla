----------------------------- MODULE ReleaseGate -----------------------------
(***************************************************************************)
(* What change control promises about production, without saying how: a    *)
(* change is reworked while it is open, one person decides on it once, and *)
(* only a change approved on good evidence is handed, once, to a person    *)
(* who may release it, deployed at most once and called live only when     *)
(* that deployment landed.                                                 *)
(*                                                                         *)
(* docs/ARCHITECTURE.md, "the graph cannot bypass governance"; the store   *)
(* of src/app/services/change_control.py is shown to implement it in       *)
(* module ChangeControl.                                                   *)
(***************************************************************************)
CONSTANTS
    Changes,
    Deploys,            \* identities of production deployments
    Actors,             \* who may decide
    Releasers,          \* who may release
    Nobody,
    SeparateDuties      \* the releaser must not be the approver

VARIABLES
    gate,       \* where each change stands
    good,       \* does its evidence pass the policy gate now
    approver,   \* who decided
    deploys,    \* the production deployments ever started for it
    landed      \* those that succeeded

gateVars == <<gate, good, approver, deploys, landed>>

Init ==
    /\ gate = [c \in Changes |-> "open"]
    /\ good = [c \in Changes |-> FALSE]
    /\ approver = [c \in Changes |-> Nobody]
    /\ deploys = [c \in Changes |-> {}]
    /\ landed = [c \in Changes |-> {}]

MoveTo(c, from, to) == gate[c] = from /\ gate' = [gate EXCEPT ![c] = to]

(* New evidence: only while the change is open. *)
Rework ==
    /\ \A c \in Changes : gate[c] # "open" => good'[c] = good[c]
    /\ good' \in [Changes -> BOOLEAN]
    /\ UNCHANGED <<gate, approver, deploys, landed>>

Approve(c, by) ==
    /\ good[c]
    /\ MoveTo(c, "open", "approved")
    /\ approver' = [approver EXCEPT ![c] = by]
    /\ UNCHANGED <<good, deploys, landed>>

(* Turned down by a person, or approved by one and blocked by the policy gate. *)
TurnDown(c, by) ==
    /\ MoveTo(c, "open", "closed")
    /\ approver' = [approver EXCEPT ![c] = by]
    /\ UNCHANGED <<good, deploys, landed>>

Reserve(c, by) ==
    /\ SeparateDuties => by # approver[c]
    /\ MoveTo(c, "approved", "deploying")
    /\ UNCHANGED <<good, approver, deploys, landed>>

StartDeploy(c, d) ==
    /\ gate[c] = "deploying"
    /\ deploys[c] = {}
    /\ deploys' = [deploys EXCEPT ![c] = {d}]
    /\ UNCHANGED <<gate, good, approver, landed>>

Land(c, d) ==
    /\ d \in deploys[c] \ landed[c]
    /\ landed' = [landed EXCEPT ![c] = @ \union {d}]
    /\ UNCHANGED <<gate, good, approver, deploys>>

GoLive(c) ==
    /\ landed[c] # {}
    /\ MoveTo(c, "deploying", "live")
    /\ UNCHANGED <<good, approver, deploys, landed>>

GiveUp(c) ==
    /\ MoveTo(c, "deploying", "failed")
    /\ UNCHANGED <<good, approver, deploys, landed>>

Next ==
    \/ Rework
    \/ \E c \in Changes, by \in Actors : Approve(c, by) \/ TurnDown(c, by)
    \/ \E c \in Changes, by \in Releasers : Reserve(c, by)
    \/ \E c \in Changes, d \in Deploys : StartDeploy(c, d) \/ Land(c, d)
    \/ \E c \in Changes : GoLive(c) \/ GiveUp(c)

Spec == Init /\ [][Next]_gateVars

=============================================================================
