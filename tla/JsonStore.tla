------------------------------ MODULE JsonStore ------------------------------
(***************************************************************************)
(* The change store on a JSON file, in one process                         *)
(* (ChangeControlStore with storage_backend "json", src/app/storage.py,    *)
(* src/app/audit.py).  The store's lock is held from the read to the last  *)
(* side effect, so requests do not interleave; what can happen in between  *)
(* is that the disk refuses a write, or that the process dies.             *)
(*                                                                         *)
(* A write first changes the record in memory, then replaces the whole     *)
(* file, then appends the audit entry and publishes the event, whose       *)
(* failures are logged and swallowed.                                      *)
(***************************************************************************)
EXTENDS Lifecycle, Integers, SequencesExt

CONSTANTS
    Changes,
    Requests,       \* writes asked of the store (bound)
    Targets,        \* the states that requests move a change to
    None,           \* no request: the lock is free
    AppendMayFail,  \* can the audit log or the bus refuse?
    MaxRestarts     \* bound: restarts of the process

ASSUME JsonAssumption ==
    /\ Targets \subseteq DeploymentStates
    /\ None \notin Requests
    /\ AppendMayFail \in BOOLEAN
    /\ MaxRestarts \in Nat

VARIABLES
    memory,     \* self._records: the writes made to each change, in order
    file,       \* change_records.json
    audit,      \* the requests the audit log names
    events,     \* the requests the in-process bus has an event of, ever published
    holder,     \* the request that holds the lock, and what it does next
    answer,     \* what each request was told
    restarts    \* restarts so far (bound)

vars == <<memory, file, audit, events, holder, answer, restarts>>

Free == [req |-> None, step |-> "idle"]

Writes == [req : Requests, to : DeploymentStates]

\* The shape of the state; a request is unanswered exactly while it holds the lock.
TypeOK ==
    /\ memory \in [Changes -> Seq(Writes)]
    /\ file \in [Changes -> Seq(Writes)]
    /\ audit \subseteq Requests /\ events \subseteq Requests
    /\ holder \in {Free} \union [req : Requests, step : {"write", "audit", "publish"}]
    /\ answer \in [Requests -> {"none", "busy", "done", "refused", "failed"}]
    /\ {r \in Requests : answer[r] = "busy"} = {holder.req} \ {None}
    /\ restarts \in 0 .. MaxRestarts

Init ==
    /\ memory = [c \in Changes |-> <<>>]
    /\ file = [c \in Changes |-> <<>>]
    /\ audit = {} /\ events = {}
    /\ holder = Free
    /\ answer = [r \in Requests |-> "none"]
    /\ restarts = 0

-----------------------------------------------------------------------------
Then(step) == holder' = [holder EXCEPT !.step = step] /\ UNCHANGED answer

Release(a) == holder' = Free /\ answer' = [answer EXCEPT ![holder.req] = a]

\* create_change on an unknown change, _mutate on a known one.
MayApply(c, to) ==
    IF memory[c] = <<>> THEN to = "awaiting_dev_execution"
                        ELSE IsAllowed(Last(memory[c]).to, to)

\* Variant for mutation testing: no lock.
ChangeUnlocked(r, c, to) ==
    /\ answer[r] = "none"
    /\ MayApply(c, to)
    /\ memory' = [memory EXCEPT ![c] = Append(@, [req |-> r, to |-> to])]
    /\ holder' = [req |-> r, step |-> "write"]
    /\ answer' = [answer EXCEPT ![r] = "busy"]
    /\ UNCHANGED <<file, audit, events, restarts>>

\* The lock is taken, apply and assert_transition accept, the record in memory is replaced.
Change(r, c, to) ==
    /\ holder = Free
    /\ answer[r] = "none"
    /\ MayApply(c, to)
    /\ memory' = [memory EXCEPT ![c] = Append(@, [req |-> r, to |-> to])]
    /\ holder' = [req |-> r, step |-> "write"]
    /\ answer' = [answer EXCEPT ![r] = "busy"]
    /\ UNCHANGED <<file, audit, events, restarts>>

Refuse(r, c, to) ==
    /\ holder = Free
    /\ answer[r] = "none"
    /\ ~ MayApply(c, to)
    /\ answer' = [answer EXCEPT ![r] = "refused"]
    /\ UNCHANGED <<memory, file, audit, events, holder, restarts>>

\* atomic_write_text: a temporary file is renamed over the old one.
WriteFile ==
    /\ holder.step = "write"
    /\ file' = memory
    /\ Then("audit")
    /\ UNCHANGED <<memory, audit, events, restarts>>

\* Variant for mutation testing: the file is opened for writing in place.
WriteTruncates ==
    /\ holder.step = "write"
    /\ file' = [c \in Changes |-> <<>>]
    /\ Release("failed")
    /\ UNCHANGED <<memory, audit, events, restarts>>

\* Variant for mutation testing: the failure is logged like those of the audit log and the bus.
WriteFailureSwallowed ==
    /\ holder.step = "write"
    /\ Then("audit")
    /\ UNCHANGED <<memory, file, audit, events, restarts>>

\* The disk refuses: the exception leaves _mutate, the old file stays, the new record stays in memory.
WriteFails ==
    /\ holder.step = "write"
    /\ Release("failed")
    /\ UNCHANGED <<memory, file, audit, events, restarts>>

\* Variant for mutation testing: the audit entry is written before the file.
RecordEarly ==
    /\ holder.step \in {"write", "audit"}
    /\ audit' = audit \union {holder.req}
    /\ IF holder.step = "audit" THEN Then("publish") ELSE UNCHANGED <<holder, answer>>
    /\ UNCHANGED <<memory, file, events, restarts>>

\* audit.append, whose failure is logged.
Record ==
    /\ holder.step = "audit"
    /\ \/ audit' = audit \union {holder.req}
       \/ AppendMayFail /\ UNCHANGED audit
    /\ Then("publish")
    /\ UNCHANGED <<memory, file, events, restarts>>

\* bus.publish, whose failure is logged; the request is answered.
Publish ==
    /\ holder.step = "publish"
    /\ \/ events' = events \union {holder.req}
       \/ AppendMayFail /\ UNCHANGED events
    /\ Release("done")
    /\ UNCHANGED <<memory, file, audit, restarts>>

\* The process dies and starts again: what it has is what _load reads from the file.
Restart ==
    /\ restarts < MaxRestarts
    /\ restarts' = restarts + 1
    /\ memory' = file
    /\ holder' = Free
    /\ answer' = [r \in Requests |-> IF answer[r] = "busy" THEN "failed" ELSE answer[r]]
    /\ UNCHANGED <<file, audit, events>>

Next ==
    \/ \E r \in Requests, c \in Changes, to \in Targets \union {"awaiting_dev_execution"} :
        Change(r, c, to) \/ Refuse(r, c, to)
    \/ WriteFile \/ WriteFails \/ Record \/ Publish
    \/ Restart

Spec == Init /\ [][Next]_vars

-----------------------------------------------------------------------------
(* Properties *)

Written(records) == UNION {{w.req : w \in ToSet(records[c])} : c \in Changes}

\* A request that was told "done" is in the file, so no later failure and no restart takes it
\* back, though the file is one snapshot of all changes.
DoneIsDurable == \A r \in Requests : answer[r] = "done" => r \in Written(file)

\* The audit log and the bus never tell of a state change that a restart would undo.
RecordedIsDurable == audit \union events \subseteq Written(file)

\* "A crash mid-write leaves the previous file intact" (atomic_write_text): the file of every
\* change only ever gains writes at its end.
FileOnlyGrows == [][\A c \in Changes : IsPrefix(file[c], file'[c])]_vars

=============================================================================
