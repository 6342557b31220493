---------------------------- MODULE VersionedStore ----------------------------
(***************************************************************************)
(* The change store on Postgres, shared by several processes               *)
(* (ChangeControlStore._mutate and below, src/app/services/                *)
(* change_control.py).  Inside a process the store's lock admits one       *)
(* request at a time; between processes a write is conditional on the      *)
(* version that was read, and is tried three times.  The record, its audit *)
(* entry and its outbox event are written in one transaction.              *)
(*                                                                         *)
(* The payload of a record is what was written to it, in order: enough to  *)
(* see an update that a later one was not computed from.  Postgres is      *)
(* external: an UPDATE waits for another transaction's lock on the row,    *)
(* what is not committed is rolled back, and a connection may break before *)
(* or after the commit.                                                    *)
(***************************************************************************)
EXTENDS Lifecycle, Integers, Sequences

CONSTANTS
    Changes,
    Requests,           \* writes asked of the store (bound)
    Processes,          \* processes that share the database
    Targets,            \* the states that requests move a change to
    None,               \* no request, no change: the lock is free
    MaxWriteAttempts    \* 3 in the code

ASSUME StoreAssumption ==
    /\ MaxWriteAttempts \in Nat \ {0}
    /\ Targets \subseteq DeploymentStates
    /\ None \notin Requests \union Changes

VARIABLES
    rows,       \* table change_records, as committed
    audit,      \* table audit_events, as committed
    outbox,     \* table event_outbox, as committed
    nextSeq,    \* the outbox's BIGSERIAL; a rolled-back transaction leaves a gap
    clock,      \* time, as audit entries are stamped with it
    work,       \* the request that holds the store's lock in each process
    answer      \* what each request was told

vars == <<rows, audit, outbox, nextSeq, clock, work, answer>>

NoRow == [version |-> 0, writes |-> <<>>]

StateOf(row) == row.writes[Len(row.writes)].to

\* The lock is free.
NoWork == [step |-> "idle", req |-> None, of |-> None, to |-> "awaiting_dev_execution", tries |-> 0,
           current |-> NoRow, stamp |-> 0, seq |-> 0]

Writes == [req : Requests, to : DeploymentStates]
Rows == {row \in [version : Nat, writes : Seq(Writes)] : row.version = Len(row.writes)}

\* The shape of the state: a version counts the writes of its record, and no request gets
\* more attempts than the code allows.
TypeOK ==
    /\ rows \in [Changes -> Rows]
    /\ audit \subseteq [req : Requests, of : Changes, stamp : Nat,
                        from : DeploymentStates \union {"none"}, to : DeploymentStates]
    /\ outbox \subseteq [req : Requests, of : Changes, version : Nat, seq : Nat]
    /\ nextSeq \in Nat /\ clock \in Nat
    /\ work \in [Processes -> {NoWork} \union
                     [step : {"find", "update", "commit"}, req : Requests, of : Changes,
                      to : DeploymentStates, tries : 0 .. MaxWriteAttempts - 1,
                      current : Rows, stamp : Nat, seq : Nat]]
    /\ answer \in [Requests -> {"none", "busy", "done", "refused", "conflict", "unknown"}]

Init ==
    /\ rows = [c \in Changes |-> NoRow]
    /\ audit = {} /\ outbox = {}
    /\ nextSeq = 1 /\ clock = 1
    /\ work = [p \in Processes |-> NoWork]
    /\ answer = [r \in Requests |-> "none"]

-----------------------------------------------------------------------------
(* Helpers: the lock taken for a request, and given back with an answer. *)
Lock(p, step, r, c, to, stamp, seq) ==
    /\ work[p] = NoWork
    /\ answer[r] = "none"
    /\ work' = [work EXCEPT ![p] = [step |-> step, req |-> r, of |-> c, to |-> to, tries |-> 0,
                                    current |-> NoRow, stamp |-> stamp, seq |-> seq]]
    /\ answer' = [answer EXCEPT ![r] = "busy"]

Answer(p, a) ==
    /\ work' = [work EXCEPT ![p] = NoWork]
    /\ answer' = [answer EXCEPT ![work[p].req] = a]

\* Another process has an open transaction on the row.
RowLocked(p) == \E q \in Processes \ {p} : work[q].step = "commit" /\ work[q].of = work[p].of

\* create_change: a fresh change_id, so the insert meets no other; emission, record,
\* audit entry and event in one transaction that is open until Commit.
CreateChange(p, r, c) ==
    /\ rows[c] = NoRow
    /\ \A q \in Processes : work[q].step = "commit" => work[q].of # c
    /\ Lock(p, "commit", r, c, "awaiting_dev_execution", clock, nextSeq)
    /\ clock' = clock + 1
    /\ nextSeq' = nextSeq + 1
    /\ UNCHANGED <<rows, audit, outbox>>

\* _mutate takes the lock.
Mutate(p, r, c, to) ==
    /\ Lock(p, "find", r, c, to, 0, 0)
    /\ UNCHANGED <<rows, audit, outbox, nextSeq, clock>>

\* Variant for mutation testing: the move is checked only when the request arrives.
MayApplyOnce(w, row) == row # NoRow /\ (w.tries = 0 => IsAllowed(StateOf(row), w.to))

\* apply and assert_transition accept the move from what was just read.
MayApply(w, row) == row # NoRow /\ IsAllowed(StateOf(row), w.to)

\* Variant for mutation testing: a retry keeps the record of the first read.
ReadOnce(p) ==
    LET w == work[p] IN
    /\ w.step = "find"
    /\ MayApply(w, rows[w.of])
    /\ work' = [work EXCEPT ![p].step = "update", ![p].stamp = clock,
                            ![p].current = IF w.tries = 0 THEN rows[w.of] ELSE @]
    /\ clock' = clock + 1
    /\ UNCHANGED <<rows, audit, outbox, nextSeq, answer>>

\* Variant for mutation testing: the audit entry is stamped when the request arrives.
StampOnce(p) ==
    LET w == work[p] IN
    /\ w.step = "find"
    /\ MayApply(w, rows[w.of])
    /\ work' = [work EXCEPT ![p].step = "update", ![p].current = rows[w.of],
                            ![p].stamp = IF w.tries = 0 THEN clock ELSE @]
    /\ clock' = clock + 1
    /\ UNCHANGED <<rows, audit, outbox, nextSeq, answer>>

\* One round of the loop: read the row from the database, apply, stamp the audit entry.
Find(p) ==
    LET w == work[p] IN
    /\ w.step = "find"
    /\ MayApply(w, rows[w.of])
    /\ work' = [work EXCEPT ![p].step = "update", ![p].current = rows[w.of], ![p].stamp = clock]
    /\ clock' = clock + 1
    /\ UNCHANGED <<rows, audit, outbox, nextSeq, answer>>

\* The change is unknown, or its state refuses the move.
Refuse(p) ==
    /\ work[p].step = "find"
    /\ ~ MayApply(work[p], rows[work[p].of])
    /\ Answer(p, "refused")
    /\ UNCHANGED <<rows, audit, outbox, nextSeq, clock>>

\* Variant for mutation testing: an UPDATE that is not conditional on the version.
NotChanged(row, current) == TRUE

\* ... WHERE change_id = %s AND version = %s
Unchanged(row, current) == row.version = current.version

\* The UPDATE matches: the row is locked, the audit entry and the event are inserted.
Update(p) ==
    LET w == work[p] IN
    /\ w.step = "update"
    /\ ~ RowLocked(p)
    /\ Unchanged(rows[w.of], w.current)
    /\ work' = [work EXCEPT ![p].step = "commit", ![p].seq = nextSeq]
    /\ nextSeq' = nextSeq + 1
    /\ UNCHANGED <<rows, audit, outbox, clock, answer>>

\* Variant for mutation testing: one attempt too many.
ConflictLate(p) ==
    LET w == work[p] IN
    /\ w.step = "update"
    /\ ~ RowLocked(p)
    /\ ~ Unchanged(rows[w.of], w.current)
    /\ IF w.tries + 1 <= MaxWriteAttempts
       THEN /\ work' = [work EXCEPT ![p].step = "find", ![p].tries = @ + 1]
            /\ UNCHANGED answer
       ELSE Answer(p, "conflict")
    /\ UNCHANGED <<rows, audit, outbox, nextSeq, clock>>

\* The UPDATE matches no row: the transaction is rolled back and the next round begins,
\* or the last attempt is used up.
Conflict(p) ==
    LET w == work[p] IN
    /\ w.step = "update"
    /\ ~ RowLocked(p)
    /\ ~ Unchanged(rows[w.of], w.current)
    /\ IF w.tries + 1 < MaxWriteAttempts
       THEN /\ work' = [work EXCEPT ![p].step = "find", ![p].tries = @ + 1]
            /\ UNCHANGED answer
       ELSE Answer(p, "conflict")
    /\ UNCHANGED <<rows, audit, outbox, nextSeq, clock>>

\* The payload that apply computed from what was read, under the next version; _emission.
NewRow(w) == [version |-> w.current.version + 1,
              writes |-> Append(w.current.writes, [req |-> w.req, to |-> w.to])]

AuditEntry(w) == [req |-> w.req, of |-> w.of, stamp |-> w.stamp,
                  from |-> IF w.current = NoRow THEN "none" ELSE StateOf(w.current), to |-> w.to]

OutboxEvent(w) == [req |-> w.req, of |-> w.of, version |-> w.current.version + 1, seq |-> w.seq]

\* Variant for mutation testing: the event is published after the commit, and may be lost.
PublishLater(w) ==
    /\ rows' = [rows EXCEPT ![w.of] = NewRow(w)]
    /\ audit' = audit \union {AuditEntry(w)}
    /\ UNCHANGED outbox

\* What the transaction leaves: the row, its audit entry and its event.
Transaction(w) ==
    /\ rows' = [rows EXCEPT ![w.of] = NewRow(w)]
    /\ audit' = audit \union {AuditEntry(w)}
    /\ outbox' = outbox \union {OutboxEvent(w)}

\* The commit is made; the caller hears of it, or the connection breaks first.
Commit(p) ==
    /\ work[p].step = "commit"
    /\ Transaction(work[p])
    /\ Answer(p, "done") \/ Answer(p, "unknown")
    /\ UNCHANGED <<nextSeq, clock>>

\* The database is out of reach or the process dies: the transaction, if any, is rolled back.
Break(p) ==
    /\ work[p].step # "idle"
    /\ Answer(p, "unknown")
    /\ UNCHANGED <<rows, audit, outbox, nextSeq, clock>>

Step(p) == Find(p) \/ Refuse(p) \/ Update(p) \/ Conflict(p) \/ Commit(p)

Next ==
    \/ \E p \in Processes, r \in Requests, c \in Changes :
        CreateChange(p, r, c) \/ \E to \in Targets : Mutate(p, r, c, to)
    \/ \E p \in Processes : Step(p) \/ Break(p)

Spec == Init /\ [][Next]_vars

-----------------------------------------------------------------------------
(* Properties *)

EntriesOf(c) == {a \in audit : a.of = c}
EventsOf(c) == {e \in outbox : e.of = c}
WritersOf(c) == {rows[c].writes[i].req : i \in DOMAIN rows[c].writes}

\* A committed change always has its audit entry and its event: the writes in a record, the
\* entries that name it and the events that name it are the same ones, one event for each
\* version, whatever is retried, rolled back or lost on the way (ChangeControlStore, docstring).
EveryWriteIsOnRecord ==
    \A c \in Changes :
        /\ {a.req : a \in EntriesOf(c)} = WritersOf(c)
        /\ {e.req : e \in EventsOf(c)} = WritersOf(c)
        /\ {e.version : e \in EventsOf(c)} = 1 .. rows[c].version

\* The audit trail of a change, in the order of its time stamps, tells one story: every entry
\* starts from the state the one before it left, and the move is one the table allows.  The
\* stamp is taken before the write, by processes that do not see each other.
AuditTrailConnects ==
    \A a \in audit : a.from # "none" =>
        /\ IsAllowed(a.from, a.to)
        /\ \E b \in EntriesOf(a.of) :
            /\ b.stamp < a.stamp /\ b.to = a.from
            /\ \A d \in EntriesOf(a.of) : d.stamp <= b.stamp \/ d.stamp >= a.stamp

\* The outbox numbers the events of one change in the order of its versions, though numbers
\* are given out before the transactions commit.
EventsFollowVersions ==
    \A e, f \in outbox : e.of = f.of /\ e.seq < f.seq => e.version < f.version

\* A request gives up for concurrent modification only if it was overtaken on every attempt:
\* as many writes of others are on record after the one that created the change.
GivesUpOnlyWhenOvertaken ==
    \A r \in Requests : answer[r] = "conflict" =>
        \E c \in Changes : Len(rows[c].writes) > MaxWriteAttempts

\* No lost update, and no write without a trace in the callers' answers: the store implements
\* the atomic one.  "Retry the request" (ConcurrentModificationError) is a refusal.
Atomic == INSTANCE AtomicStore WITH
    history <- [c \in Changes |-> rows[c].writes],
    answer <- [r \in Requests |-> CASE answer[r] = "busy" -> "none"
                                    [] answer[r] = "conflict" -> "refused"
                                    [] OTHER -> answer[r]]

ImplementsAtomicStore == Atomic!Spec

=============================================================================
