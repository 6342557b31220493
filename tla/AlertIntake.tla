---------------------------- MODULE AlertIntake -----------------------------
(***************************************************************************)
(* From an open alert to a change: the scheduler's cycle and its           *)
(* deduplication file (src/app/services/scheduler.py), correlation with an *)
(* open change (correlation.py, change_control.py), the alert source       *)
(* (apm_alert_source.py) and the pipeline that files an incident and opens *)
(* its change (pipeline.py).                                               *)
(*                                                                         *)
(* Everything is on the JSON backend: files written whole after their copy *)
(* in memory has changed, so a write that fails leaves the memory ahead.   *)
(***************************************************************************)
EXTENDS Integers, FiniteSets, Sequences, SequencesExt

CONSTANTS
    Alerts,         \* alerts the monitoring raises
    Named,          \* those the source gives an id of their own
    ServiceOf,      \* the service (and environment) of each alert
    Limit,          \* how many open alerts a cycle fetches
    Window,         \* CORRELATION_WINDOW_MINUTES is above zero
    Cyclers,        \* callers of a cycle: the poll loop and POST /scheduler/run-once
    MaxChanges,     \* bound: changes opened
    MaxFailures,    \* bound: file writes that fail
    MaxRestarts,    \* bound: restarts of the process
    None

ASSUME IntakeAssumption ==
    /\ Named \subseteq Alerts /\ DOMAIN ServiceOf = Alerts
    /\ Limit \in Nat \ {0} /\ MaxChanges \in Nat \ {0}
    /\ MaxFailures \in Nat /\ MaxRestarts \in Nat
    /\ Window \in BOOLEAN /\ None \notin Cyclers \union Alerts \union Nat

VARIABLES
    seen,       \* AlertDedupStore: ids handled, in memory and in its file
    lock,       \* the scheduler's cycle lock
    cycle,      \* where each caller of a cycle is
    changes,    \* the change store, in memory and in its file
    faults      \* writes that failed and restarts so far (bounds)

vars == <<seen, lock, cycle, changes, faults>>

Refs == 1 .. MaxChanges
Services == {ServiceOf[a] : a \in Alerts}

\* An alert without an id of its own is known by its place in the list.
Ids == Named \union 1 .. Limit
IdAt(alerts, n) == IF alerts[n] \in Named THEN alerts[n] ELSE n

\* Where a person's decision leaves a change for good; ChangeControl has what lies between.
ClosedStates == {"promoted_to_prod", "closed_rejected"}

\* `first` is the alert a cycle opened the change for; a POST has none.
NoChange == [st |-> "none", service |-> None, first |-> None, related |-> {}, fresh |-> FALSE]

Idle == [at |-> "idle", batch |-> <<>>, of |-> 0]

\* The shape of the state.
TypeOK ==
    /\ seen \in [mem : SUBSET Ids, file : SUBSET Ids]
    /\ lock \in Cyclers \union {None}
    /\ \A k \in Cyclers :
        /\ cycle[k].at \in {"idle", "next", "correlate", "attach", "file", "create", "mark"}
        /\ cycle[k].of \in {0} \union Refs
        /\ Len(cycle[k].batch) <= Limit
    /\ \A copy \in {changes.mem, changes.file} : \A i \in Refs :
        /\ copy[i].st \in {"none", "pending_approval"} \union ClosedStates
        /\ copy[i].service \in Services \union {None}
        /\ copy[i].first \in Ids \union {None} /\ copy[i].related \subseteq Ids
        /\ copy[i].fresh \in BOOLEAN
    /\ faults.writes \in 0 .. MaxFailures /\ faults.restarts \in 0 .. MaxRestarts

Init ==
    /\ seen = [mem |-> {}, file |-> {}]
    /\ lock = None
    /\ cycle = [k \in Cyclers |-> Idle]
    /\ LET empty == [i \in Refs |-> NoChange] IN changes = [mem |-> empty, file |-> empty]
    /\ faults = [writes |-> 0, restarts |-> 0]

\* A change to one record, and the file written whole: or refused, and the memory left ahead.
Writes(mem) == changes' = [mem |-> mem, file |-> mem] /\ UNCHANGED faults
WriteFails ==
    /\ faults.writes < MaxFailures
    /\ faults' = [faults EXCEPT !.writes = @ + 1]
WriteRefused(mem) == WriteFails /\ changes' = [changes EXCEPT !.mem = mem]

Goes(k, at) == cycle' = [cycle EXCEPT ![k].at = at]
NextAlert(k) ==
    cycle' = [cycle EXCEPT ![k] = [Idle EXCEPT !.at = "next", !.batch = Tail(cycle[k].batch)]]

InHand(k) == Head(cycle[k].batch)

-----------------------------------------------------------------------------
(* The scheduler's cycle. *)

\* What the source may answer: its first Limit open alerts, in its order.  Alerts open, clear and
\* change places between two cycles as they like.
Answers == {list \in UNION {[1 .. n -> Alerts] : n \in 1 .. Limit} : IsInjective(list)}

Batch(answer) ==
    [n \in DOMAIN answer |-> [id |-> IdAt(answer, n), service |-> ServiceOf[answer[n]]]]

\* Variant for mutation testing: cycles may overlap.
FetchUnlocked(k, answer) ==
    /\ cycle[k].at = "idle"
    /\ cycle' = [cycle EXCEPT ![k].at = "next", ![k].batch = Batch(answer)]
    /\ UNCHANGED <<seen, lock, changes, faults>>

Fetch(k, answer) ==
    /\ cycle[k].at = "idle" /\ lock = None
    /\ lock' = k
    /\ cycle' = [cycle EXCEPT ![k].at = "next", ![k].batch = Batch(answer)]
    /\ UNCHANGED <<seen, changes, faults>>

EndCycle(k) ==
    /\ cycle[k].at = "next" /\ cycle[k].batch = <<>>
    /\ lock' = None
    /\ Goes(k, "idle")
    /\ UNCHANGED <<seen, changes, faults>>

\* Variant for mutation testing: the id is remembered on sight, before its change is made.
MarkOnSight(k) ==
    /\ cycle[k].at = "next" /\ cycle[k].batch # <<>>
    /\ LET ids == seen.mem \union {InHand(k).id} IN seen' = [mem |-> ids, file |-> ids]
    /\ IF InHand(k).id \in seen.mem THEN NextAlert(k) ELSE Goes(k, "correlate")
    /\ UNCHANGED <<lock, changes, faults>>

Deduplicate(k) ==
    /\ cycle[k].at = "next" /\ cycle[k].batch # <<>>
    /\ IF InHand(k).id \in seen.mem THEN NextAlert(k) ELSE Goes(k, "correlate")
    /\ UNCHANGED <<seen, lock, changes, faults>>

\* The unapproved changes of the service touched inside the window.  The code takes the one touched
\* last; the model any of them.
OpenChanges(service) ==
    {i \in Refs : /\ Window
                  /\ changes.mem[i].st = "pending_approval"
                  /\ changes.mem[i].service = service
                  /\ changes.mem[i].fresh}

FindOpenChange(k) ==
    /\ cycle[k].at = "correlate"
    /\ LET found == OpenChanges(InHand(k).service) IN
       \/ found = {} /\ Goes(k, "file")
       \/ \E i \in found : cycle' = [cycle EXCEPT ![k].at = "attach", ![k].of = i]
    /\ UNCHANGED <<seen, lock, changes, faults>>

\* Whatever became of the change since it was found.
Attached(r, id) ==
    IF id \in r.related THEN r ELSE [r EXCEPT !.related = @ \union {id}, !.fresh = TRUE]

Attach(k) ==
    /\ cycle[k].at = "attach"
    /\ LET mem == [changes.mem EXCEPT ![cycle[k].of] = Attached(@, InHand(k).id)] IN
       \/ Writes(mem) /\ cycle' = [cycle EXCEPT ![k].at = "mark", ![k].of = 0]
       \/ WriteRefused(mem) /\ NextAlert(k)
    /\ UNCHANGED <<seen, lock>>

\* Only now is the alert remembered as handled.
Mark(k) ==
    /\ cycle[k].at = "mark"
    /\ LET ids == seen.mem \union {InHand(k).id} IN
       \/ seen' = [mem |-> ids, file |-> ids] /\ UNCHANGED faults
       \/ seen' = [seen EXCEPT !.mem = ids] /\ WriteFails
    /\ NextAlert(k)
    /\ UNCHANGED <<lock, changes>>

-----------------------------------------------------------------------------
(* The pipeline: an incident is filed, then its change opened. *)

\* Variant for mutation testing: opened in a state no query for open changes knows.
OpenedUnlisted(service, id) ==
    [st |-> "open", service |-> service, first |-> id, related |-> {}, fresh |-> TRUE]

Opened(service, id) ==
    [st |-> "pending_approval", service |-> service, first |-> id, related |-> {}, fresh |-> TRUE]

\* A change gets a fresh id; numbering them in order loses nothing.
Unused(i) == changes.mem[i] = NoChange /\ \A j \in 1 .. i - 1 : changes.mem[j] # NoChange

\* Triage, the ticket and the dev build come first, and go on whatever fails of them.  Incident
\* memory may refuse the write: then no change is opened.
FileIncident(k) ==
    /\ cycle[k].at = "file"
    /\ \/ Goes(k, "create") /\ UNCHANGED faults
       \/ WriteFails /\ NextAlert(k)
    /\ UNCHANGED <<seen, lock, changes>>

CreateChange(k) ==
    /\ cycle[k].at = "create"
    /\ \E i \in {j \in Refs : Unused(j)} :
        LET mem == [changes.mem EXCEPT ![i] = Opened(InHand(k).service, InHand(k).id)] IN
        \/ Writes(mem) /\ Goes(k, "mark")
        \/ WriteRefused(mem) /\ NextAlert(k)
    /\ UNCHANGED <<seen, lock>>

\* POST /incidents/process: the pipeline without the scheduler, its lock or its correlation.
Post(service) ==
    /\ \E i \in {j \in Refs : Unused(j)} :
        LET mem == [changes.mem EXCEPT ![i] = Opened(service, None)] IN
        Writes(mem) \/ WriteRefused(mem)
    /\ UNCHANGED <<seen, lock, cycle>>

-----------------------------------------------------------------------------
(* People, time, and the end of the process. *)
PersonEnds(i, to) ==
    /\ changes.mem[i].st = "pending_approval"
    /\ Writes([changes.mem EXCEPT ![i].st = to])
    /\ UNCHANGED <<seen, lock, cycle>>

WindowPasses(i) ==
    /\ changes.mem[i].fresh
    /\ changes' = [mem |-> [changes.mem EXCEPT ![i].fresh = FALSE],
                   file |-> [changes.file EXCEPT ![i].fresh = FALSE]]
    /\ UNCHANGED <<seen, lock, cycle, faults>>

Restart ==
    /\ faults.restarts < MaxRestarts
    /\ faults' = [faults EXCEPT !.restarts = @ + 1]
    /\ seen' = [seen EXCEPT !.mem = seen.file]
    /\ changes' = [changes EXCEPT !.mem = changes.file]
    /\ cycle' = [k \in Cyclers |-> Idle] /\ lock' = None

Handle(k) ==
    \/ EndCycle(k) \/ Deduplicate(k) \/ FindOpenChange(k) \/ Attach(k) \/ Mark(k)
    \/ FileIncident(k) \/ CreateChange(k)

Next ==
    \/ \E s \in Services : Post(s)
    \/ \E k \in Cyclers, answer \in Answers : Fetch(k, answer)
    \/ \E k \in Cyclers : Handle(k)
    \/ \E i \in Refs, to \in ClosedStates : PersonEnds(i, to)
    \/ \E i \in Refs : WindowPasses(i)
    \/ Restart

Spec == Init /\ [][Next]_vars

-----------------------------------------------------------------------------
(* What intake promises. *)

\* An alert is remembered as handled for good only when a change on file carries it: a crash or
\* a failed write between the steps of a cycle never loses an alert.
MarkedIsOnFile ==
    \A id \in seen.file :
        \E i \in Refs : id = changes.file[i].first \/ id \in changes.file[i].related

\* README.md:398 "folded into one open change instead of opening one per alert": however cycles,
\* failed writes and restarts fall, the scheduler never has two open changes of one service
\* inside the window.
OneOpenChangePerService ==
    LET open == {i \in Refs : /\ changes.mem[i].first # None /\ changes.mem[i].fresh
                              /\ changes.mem[i].st = "pending_approval"} IN
    Window => IsInjective([i \in open |-> changes.mem[i].service])

\* change_control.py:49: "A change in one of these states is finished (or being deployed) and
\* must not absorb new alerts."
ClosedAbsorbsNothing ==
    [][\A i \in Refs : changes.mem[i].st \in ClosedStates
            => changes.mem'[i].related \subseteq changes.mem[i].related]_changes

=============================================================================
