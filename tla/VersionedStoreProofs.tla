------------------------ MODULE VersionedStoreProofs ------------------------
(***************************************************************************)
(* Theorems about VersionedStore, for any number of processes, requests,   *)
(* changes and attempts: what is read under a version is what is           *)
(* overwritten, so the store is atomic.                                    *)
(***************************************************************************)
EXTENDS VersionedStore, SequenceTheorems, TLAPS

ActiveWork == [step : {"find", "update", "commit"}, req : Requests, of : Changes,
               to : DeploymentStates, tries : 0 .. MaxWriteAttempts - 1,
               current : Rows, stamp : Nat, seq : Nat]

LEMMA Constants ==
    /\ NoRow \in Rows
    /\ NoWork.step = "idle" /\ NoWork \notin ActiveWork
    /\ "awaiting_dev_execution" \in DeploymentStates
    /\ "none" \notin DeploymentStates
<1>1. <<>> \in Seq(Writes) /\ Len(<<>>) = 0
  BY EmptySeq
<1>2. NoRow \in Rows
  BY <1>1 DEF NoRow, Rows
<1>3. NoWork.step = "idle" /\ NoWork \notin ActiveWork
  BY DEF NoWork, ActiveWork
<1>4. "awaiting_dev_execution" \in DeploymentStates /\ "none" \notin DeploymentStates
  BY DEF DeploymentStates, PRE_APPROVAL_STATES, TERMINAL_STATES
<1>5. QED
  BY <1>2, <1>3, <1>4

\* A process that is not idle is at work on a request.
LEMMA AtWork ==
    ASSUME TypeOK, NEW p \in Processes, work[p].step # "idle"
    PROVE  work[p] \in ActiveWork
  BY Constants DEF TypeOK, ActiveWork

LEMMA StateType ==
    ASSUME NEW row \in Rows, row # NoRow
    PROVE  Len(row.writes) \in Nat \ {0} /\ StateOf(row) \in DeploymentStates
<1>1. row.writes \in Seq(Writes) /\ Len(row.writes) \in Nat /\ row.version = Len(row.writes)
      /\ row = [version |-> row.version, writes |-> row.writes]
  BY LenProperties DEF Rows
<1>2. Len(row.writes) # 0
  BY <1>1, EmptySeq DEF NoRow
<1>3. row.writes[Len(row.writes)] \in Writes
  BY <1>1, <1>2, ElementOfSeq
<1>4. QED
  BY <1>1, <1>2, <1>3 DEF StateOf, Writes

LEMMA NewRowType ==
    ASSUME NEW w \in ActiveWork
    PROVE  /\ NewRow(w) \in Rows
           /\ NewRow(w).version = w.current.version + 1
           /\ Len(NewRow(w).writes) = Len(w.current.writes) + 1
           /\ Len(w.current.writes) \in Nat
           /\ \A i \in 1 .. Len(w.current.writes) : NewRow(w).writes[i] = w.current.writes[i]
           /\ NewRow(w).writes[Len(w.current.writes) + 1] = [req |-> w.req, to |-> w.to]
           /\ NewRow(w).writes = Append(w.current.writes, [req |-> w.req, to |-> w.to])
           /\ NewRow(w) # NoRow
<1>1. /\ w.current \in Rows /\ w.current.version \in Nat /\ w.current.writes \in Seq(Writes)
      /\ [req |-> w.req, to |-> w.to] \in Writes
  BY DEF ActiveWork, Rows, Writes
<1>2. /\ Append(w.current.writes, [req |-> w.req, to |-> w.to]) \in Seq(Writes)
      /\ Append(w.current.writes, [req |-> w.req, to |-> w.to]) # <<>>
      /\ Len(Append(w.current.writes, [req |-> w.req, to |-> w.to])) = Len(w.current.writes) + 1
      /\ \A i \in 1 .. Len(w.current.writes) :
            Append(w.current.writes, [req |-> w.req, to |-> w.to])[i] = w.current.writes[i]
      /\ Append(w.current.writes, [req |-> w.req, to |-> w.to])[Len(w.current.writes) + 1]
            = [req |-> w.req, to |-> w.to]
  BY <1>1, AppendProperties
<1>3. Len(w.current.writes) \in Nat
  BY <1>1, LenProperties
<1>4. QED
  BY <1>1, <1>2, <1>3 DEF NewRow, Rows, NoRow

-----------------------------------------------------------------------------
(* The steps of a process, and the step that takes the lock. *)
LEMMA TypeStep ==
    ASSUME TypeOK, [Next]_vars
    PROVE  TypeOK'
<1> USE DEF TypeOK
<1>1. ASSUME NEW p \in Processes, NEW r \in Requests, NEW c \in Changes, CreateChange(p, r, c)
      PROVE  TypeOK'
  <2>1. [step |-> "commit", req |-> r, of |-> c, to |-> "awaiting_dev_execution", tries |-> 0,
         current |-> NoRow, stamp |-> clock, seq |-> nextSeq] \in ActiveWork
    BY Constants, StoreAssumption DEF ActiveWork
  <2>2. QED
    BY <1>1, <2>1 DEF CreateChange, Lock, ActiveWork
<1>2. ASSUME NEW p \in Processes, NEW r \in Requests, NEW c \in Changes, NEW to \in Targets, Mutate(p, r, c, to)
      PROVE  TypeOK'
  <2>1. [step |-> "find", req |-> r, of |-> c, to |-> to, tries |-> 0,
         current |-> NoRow, stamp |-> 0, seq |-> 0] \in ActiveWork
    BY Constants, StoreAssumption DEF ActiveWork
  <2>2. QED
    BY <1>2, <2>1 DEF Mutate, Lock, ActiveWork
<1>3. ASSUME NEW p \in Processes, Find(p)
      PROVE  TypeOK'
  <2>1. work[p] \in ActiveWork /\ rows[work[p].of] \in Rows
    BY <1>3, AtWork DEF Find, ActiveWork
  <2>2. [work[p] EXCEPT !.step = "update", !.current = rows[work[p].of], !.stamp = clock] \in ActiveWork
    BY <2>1 DEF ActiveWork
  <2>3. work' = [work EXCEPT ![p] = [work[p] EXCEPT !.step = "update", !.current = rows[work[p].of], !.stamp = clock]]
    BY <1>3 DEF Find
  <2>4. QED
    BY <1>3, <2>2, <2>3 DEF Find, ActiveWork
<1>4. ASSUME NEW p \in Processes, Refuse(p)
      PROVE  TypeOK'
  BY <1>4 DEF Refuse, Answer
<1>5. ASSUME NEW p \in Processes, Update(p)
      PROVE  TypeOK'
  <2>1. work[p] \in ActiveWork
    BY <1>5, AtWork DEF Update
  <2>2. [work[p] EXCEPT !.step = "commit", !.seq = nextSeq] \in ActiveWork
    BY <2>1 DEF ActiveWork
  <2>3. work' = [work EXCEPT ![p] = [work[p] EXCEPT !.step = "commit", !.seq = nextSeq]]
    BY <1>5 DEF Update
  <2>4. QED
    BY <1>5, <2>2, <2>3 DEF Update, ActiveWork
<1>6. ASSUME NEW p \in Processes, Conflict(p)
      PROVE  TypeOK'
  <2>1. work[p] \in ActiveWork
    BY <1>6, AtWork DEF Conflict
  <2>2. CASE work[p].tries + 1 < MaxWriteAttempts
    <3>0. work[p].tries + 1 \in 0 .. MaxWriteAttempts - 1
      BY <2>1, <2>2, StoreAssumption DEF ActiveWork
    <3>1. [work[p] EXCEPT !.step = "find", !.tries = @ + 1] \in ActiveWork
      BY <2>1, <3>0 DEF ActiveWork
    <3>2. work' = [work EXCEPT ![p] = [work[p] EXCEPT !.step = "find", !.tries = @ + 1]]
      BY <1>6, <2>2 DEF Conflict
    <3>3. QED
      BY <1>6, <2>2, <3>1, <3>2 DEF Conflict, ActiveWork
  <2>3. CASE ~ (work[p].tries + 1 < MaxWriteAttempts)
    BY <1>6, <2>3 DEF Conflict, Answer
  <2>4. QED
    BY <2>2, <2>3
<1>7. ASSUME NEW p \in Processes, Commit(p)
      PROVE  TypeOK'
  <2>1. work[p] \in ActiveWork
    BY <1>7, AtWork DEF Commit
  <2>2. NewRow(work[p]) \in Rows
    BY <2>1, NewRowType
  <2>3. OutboxEvent(work[p]) \in [req : Requests, of : Changes, version : Nat, seq : Nat]
    BY <2>1 DEF OutboxEvent, ActiveWork, Rows
  <2>4. AuditEntry(work[p]) \in [req : Requests, of : Changes, stamp : Nat,
                                 from : DeploymentStates \union {"none"}, to : DeploymentStates]
    <3>1. ASSUME work[p].current # NoRow
          PROVE  StateOf(work[p].current) \in DeploymentStates
      BY <2>1, <3>1, StateType DEF ActiveWork
    <3>2. QED
      BY <2>1, <3>1 DEF AuditEntry, ActiveWork
  <2>5. QED
    BY <1>7, <2>2, <2>3, <2>4 DEF Commit, Transaction, Answer
<1>8. ASSUME NEW p \in Processes, Break(p)
      PROVE  TypeOK'
  BY <1>8 DEF Break, Answer
<1>9. CASE UNCHANGED vars
  BY <1>9 DEF vars
<1>10. QED
  BY <1>1, <1>2, <1>3, <1>4, <1>5, <1>6, <1>7, <1>8, <1>9 DEF Next, Step

LEMMA TypeInit == Init => TypeOK
<1> SUFFICES ASSUME Init PROVE TypeOK
  OBVIOUS
<1>1. NoRow \in Rows
  BY Constants
<1>2. QED
  BY <1>1 DEF Init, TypeOK

\* Types, for any number of processes, requests and attempts (ChangeControlStore on Postgres).
THEOREM TypeCorrect == Spec => []TypeOK
<1>1. Init => TypeOK
  BY TypeInit
<1>2. TypeOK /\ [Next]_vars => TypeOK'
  BY TypeStep
<1>3. QED
  BY <1>1, <1>2, PTL DEF Spec

-----------------------------------------------------------------------------
(***************************************************************************)
(* The inductive invariant.  A request holds the lock of one process.  What *)
(* a process has read is a past of the row as long as its versions say so, *)
(* and is the row itself, for good, once its transaction holds the row.    *)
(***************************************************************************)
LegalMove(row, to) ==
    IF row = NoRow THEN to = "awaiting_dev_execution" ELSE IsAllowed(StateOf(row), to)

\* A request is in one process, and is unanswered.
OneHolder ==
    /\ \A p \in Processes : work[p].step # "idle" => answer[work[p].req] = "busy"
    /\ \A p, q \in Processes :
          work[p].step # "idle" /\ work[q].step # "idle" /\ p # q => work[p].req # work[q].req

\* What was read is an earlier version of the row; the move was allowed from it.
ReadsAreVersions ==
    \A p \in Processes : work[p].step \in {"update", "commit"} =>
        /\ work[p].current.version <= rows[work[p].of].version
        /\ \A i \in 1 .. work[p].current.version :
              rows[work[p].of].writes[i] = work[p].current.writes[i]
        /\ \A row \in Rows, to \in DeploymentStates :
              work[p].current = row /\ work[p].to = to => LegalMove(row, to)
        /\ work[p].step = "update" => work[p].current # NoRow

\* An open transaction holds its row: nobody else has one on it, and it was not overtaken.
RowsAreHeld ==
    \A p \in Processes : work[p].step = "commit" =>
        /\ work[p].current.version = rows[work[p].of].version
        /\ \A q \in Processes \ {p} : work[q].step = "commit" => work[q].of # work[p].of

Consistent == TypeOK /\ OneHolder /\ ReadsAreVersions /\ RowsAreHeld

\* Equal versions of one row are equal.
LEMMA SameVersion ==
    ASSUME NEW r \in Rows, NEW s \in Rows, r.version = s.version,
           \A i \in 1 .. s.version : r.writes[i] = s.writes[i]
    PROVE  r = s
<1>1. r.writes \in Seq(Writes) /\ s.writes \in Seq(Writes) /\ Len(r.writes) = Len(s.writes)
      /\ s.version = Len(s.writes)
  BY DEF Rows
<1>2. r.writes = s.writes
  BY <1>1, SeqEqual
<1>3. QED
  BY <1>2 DEF Rows

LEMMA RowIsCurrent ==
    ASSUME TypeOK, ReadsAreVersions, NEW p \in Processes, work[p].step \in {"update", "commit"},
           rows[work[p].of].version = work[p].current.version
    PROVE  rows[work[p].of] = work[p].current
<1>1. work[p] \in ActiveWork
  BY AtWork
<1>2. rows[work[p].of] \in Rows /\ work[p].current \in Rows
  BY <1>1 DEF ActiveWork, TypeOK
<1>3. QED
  BY <1>2, SameVersion DEF ReadsAreVersions

LEMMA ConsistentInit == Init => Consistent
<1> SUFFICES ASSUME Init PROVE Consistent
  OBVIOUS
<1>1. \A p \in Processes : work[p].step = "idle"
  BY Constants DEF Init
<1>2. QED
  BY <1>1, TypeInit DEF Consistent, OneHolder, ReadsAreVersions, RowsAreHeld

LEMMA OneHolderStep ==
    ASSUME TypeOK, OneHolder, [Next]_vars
    PROVE  OneHolder'
<1> USE DEF OneHolder
<1>1. ASSUME NEW p \in Processes, NEW r \in Requests, NEW c \in Changes, NEW to, NEW step \in {"find", "commit"},
             NEW stamp, NEW seq, Lock(p, step, r, c, to, stamp, seq)
      PROVE  OneHolder'
  <2>1. \A q \in Processes : work[q].step # "idle" => work[q].req # r
    BY <1>1 DEF Lock
  <2>2. work'[p].req = r /\ \A q \in Processes \ {p} : work'[q] = work[q]
    BY <1>1 DEF Lock, TypeOK
  <2>3. answer'[r] = "busy" /\ \A s \in Requests \ {r} : answer'[s] = answer[s]
    BY <1>1 DEF Lock, TypeOK
  <2>4. \A q \in Processes : work[q].step # "idle" => work[q].req \in Requests
    BY AtWork DEF ActiveWork
  <2>5. QED
    BY <2>1, <2>2, <2>3, <2>4
<1>2. ASSUME NEW p \in Processes, NEW a, work[p].step # "idle", Answer(p, a)
      PROVE  OneHolder'
  <2>1. work'[p].step = "idle" /\ \A q \in Processes \ {p} : work'[q] = work[q]
    BY <1>2, Constants DEF Answer, TypeOK
  <2>2. \A s \in Requests : s # work[p].req => answer'[s] = answer[s]
    BY <1>2 DEF Answer, TypeOK
  <2>3. \A q \in Processes : work[q].step # "idle" => work[q].req \in Requests
    BY AtWork DEF ActiveWork
  <2>4. QED
    BY <1>2, <2>1, <2>2, <2>3
<1>3. ASSUME NEW p \in Processes, work[p].step # "idle", work'[p].req = work[p].req,
             \A q \in Processes \ {p} : work'[q] = work[q], UNCHANGED answer
      PROVE  OneHolder'
  BY <1>3
<1>4. ASSUME NEW p \in Processes, Find(p)
      PROVE  OneHolder'
  BY <1>3, <1>4 DEF Find, TypeOK
<1>5. ASSUME NEW p \in Processes, Update(p)
      PROVE  OneHolder'
  BY <1>3, <1>5 DEF Update, TypeOK
<1>6. ASSUME NEW p \in Processes, Conflict(p)
      PROVE  OneHolder'
  <2>1. CASE work[p].tries + 1 < MaxWriteAttempts
    <3>1. /\ work' = [work EXCEPT ![p] = [work[p] EXCEPT !.step = "find", !.tries = @ + 1]]
          /\ UNCHANGED answer
      BY <1>6, <2>1 DEF Conflict
    <3>2. QED
      BY <1>3, <1>6, <3>1 DEF Conflict, TypeOK
  <2>2. CASE ~ (work[p].tries + 1 < MaxWriteAttempts)
    BY <1>2, <1>6, <2>2 DEF Conflict
  <2>3. QED
    BY <2>1, <2>2
<1>7. CASE UNCHANGED vars
  BY <1>7 DEF vars
<1>8. QED
  BY <1>1, <1>2, <1>4, <1>5, <1>6, <1>7 DEF Next, Step, CreateChange, Mutate, Refuse, Commit, Break

\* One read is as good in the next state if the process and the row stand still.
LEMMA ReadsAreVersionsStep ==
    ASSUME TypeOK, OneHolder, ReadsAreVersions, RowsAreHeld, [Next]_vars
    PROVE  ReadsAreVersions'
<1> USE DEF ReadsAreVersions
<1>1. ASSUME NEW p \in Processes, UNCHANGED rows, work'[p].step \notin {"update", "commit"},
             \A q \in Processes \ {p} : work'[q] = work[q]
      PROVE  ReadsAreVersions'
  BY <1>1
<1>2. ASSUME NEW p \in Processes, NEW a, UNCHANGED rows, Answer(p, a)
      PROVE  ReadsAreVersions'
  BY <1>1, <1>2, Constants DEF Answer, TypeOK
<1>3. ASSUME NEW p \in Processes, NEW r \in Requests, NEW c \in Changes, CreateChange(p, r, c)
      PROVE  ReadsAreVersions'
  <2>1. /\ work'[p].current = NoRow /\ work'[p].to = "awaiting_dev_execution" /\ work'[p].of = c
        /\ work'[p].step = "commit" /\ rows' = rows
        /\ \A q \in Processes \ {p} : work'[q] = work[q]
    BY <1>3 DEF CreateChange, Lock, TypeOK
  <2>2. rows[c] = NoRow /\ NoRow.version = 0
    BY <1>3 DEF CreateChange, NoRow
  <2>3. LegalMove(NoRow, "awaiting_dev_execution")
    BY DEF LegalMove
  <2>4. QED
    BY <2>1, <2>2, <2>3
<1>4. ASSUME NEW p \in Processes, NEW r \in Requests, NEW c \in Changes, NEW to \in Targets, Mutate(p, r, c, to)
      PROVE  ReadsAreVersions'
  BY <1>1, <1>4 DEF Mutate, Lock, TypeOK
<1>5. ASSUME NEW p \in Processes, Find(p)
      PROVE  ReadsAreVersions'
  <2>1. work[p] \in ActiveWork /\ rows[work[p].of] \in Rows
    BY <1>5, AtWork DEF Find, ActiveWork, TypeOK
  <2>2. work' = [work EXCEPT ![p] = [work[p] EXCEPT !.step = "update", !.current = rows[work[p].of], !.stamp = clock]]
    BY <1>5 DEF Find
  <2>3. /\ work'[p].current = rows[work[p].of] /\ work'[p].to = work[p].to /\ work'[p].of = work[p].of
        /\ rows' = rows /\ work'[p].step = "update"
        /\ \A q \in Processes \ {p} : work'[q] = work[q]
    BY <1>5, <2>1, <2>2 DEF Find, TypeOK, ActiveWork
  <2>4. rows[work[p].of] # NoRow /\ LegalMove(rows[work[p].of], work[p].to)
    BY <1>5 DEF Find, MayApply, LegalMove
  <2>5. rows[work[p].of].version \in Nat
    BY <2>1 DEF Rows
  <2>6. QED
    BY <2>3, <2>4, <2>5
<1>6. ASSUME NEW p \in Processes, Update(p)
      PROVE  ReadsAreVersions'
  <2>1. work[p] \in ActiveWork
    BY <1>6, AtWork DEF Update
  <2>2. /\ work'[p].current = work[p].current /\ work'[p].to = work[p].to /\ work'[p].of = work[p].of
        /\ rows' = rows /\ work'[p].step = "commit"
        /\ \A q \in Processes \ {p} : work'[q] = work[q]
    BY <1>6, <2>1 DEF Update, TypeOK, ActiveWork
  <2>3. work[p].step = "update"
    BY <1>6 DEF Update
  <2>4. QED
    BY <2>2, <2>3
<1>7. ASSUME NEW p \in Processes, Conflict(p)
      PROVE  ReadsAreVersions'
  <2>1. CASE work[p].tries + 1 < MaxWriteAttempts
    <3>1. /\ work' = [work EXCEPT ![p] = [work[p] EXCEPT !.step = "find", !.tries = @ + 1]]
          /\ UNCHANGED rows
      BY <1>7, <2>1 DEF Conflict
    <3>2. work[p] \in ActiveWork
      BY <1>7, AtWork DEF Conflict
    <3>3. work'[p].step = "find"
      BY <3>1, <3>2 DEF TypeOK, ActiveWork
    <3>4. QED
      BY <1>1, <3>1, <3>3 DEF TypeOK
  <2>2. CASE ~ (work[p].tries + 1 < MaxWriteAttempts)
    BY <1>2, <1>7, <2>2 DEF Conflict
  <2>3. QED
    BY <2>1, <2>2
<1>8. ASSUME NEW p \in Processes, Commit(p)
      PROVE  ReadsAreVersions'
  <2>1. work[p] \in ActiveWork /\ work[p].step = "commit"
    BY <1>8, AtWork DEF Commit
  <2>2. rows[work[p].of] = work[p].current
    BY <2>1, RowIsCurrent DEF RowsAreHeld
  <2>3. /\ rows' = [rows EXCEPT ![work[p].of] = NewRow(work[p])]
        /\ work'[p].step = "idle" /\ \A q \in Processes \ {p} : work'[q] = work[q]
    BY <1>8, Constants DEF Commit, Transaction, Answer, TypeOK
  <2>4. ASSUME NEW q \in Processes, work'[q].step \in {"update", "commit"}
        PROVE  /\ work'[q].current.version <= rows'[work'[q].of].version
               /\ \A i \in 1 .. work'[q].current.version :
                     rows'[work'[q].of].writes[i] = work'[q].current.writes[i]
    <3>1. q # p /\ work'[q] = work[q] /\ work[q] \in ActiveWork
      BY <2>3, <2>4, AtWork
    <3>2. work[q].current.version \in Nat
      BY <3>1 DEF ActiveWork, Rows
    <3>3. CASE work[q].of = work[p].of
      <4>1. rows'[work[q].of] = NewRow(work[p])
        BY <2>1, <2>3, <3>3 DEF TypeOK, ActiveWork
      <4>2. /\ work[q].current.version <= work[p].current.version
            /\ work[p].current.version \in Nat
            /\ work[p].current.version = Len(work[p].current.writes)
            /\ \A i \in 1 .. work[q].current.version : work[p].current.writes[i] = work[q].current.writes[i]
        BY <2>1, <2>2, <2>4, <3>1, <3>3 DEF ActiveWork, Rows
      <4>3. /\ NewRow(work[p]).version = work[p].current.version + 1
            /\ \A i \in 1 .. Len(work[p].current.writes) : NewRow(work[p]).writes[i] = work[p].current.writes[i]
        BY <2>1, NewRowType
      <4>4. QED
        BY <3>1, <3>2, <4>1, <4>2, <4>3
    <3>4. CASE work[q].of # work[p].of
      BY <2>3, <2>4, <3>1, <3>4 DEF TypeOK, ActiveWork
    <3>5. QED
      BY <3>3, <3>4
  <2>5. \A q \in Processes : work'[q].step \in {"update", "commit"} => work'[q] = work[q]
    BY <2>3
  <2>6. QED
    BY <2>4, <2>5
<1>9. CASE UNCHANGED vars
  BY <1>9 DEF vars
<1>10. QED
  BY <1>2, <1>3, <1>4, <1>5, <1>6, <1>7, <1>8, <1>9 DEF Next, Step, Refuse, Break

LEMMA RowsAreHeldStep ==
    ASSUME TypeOK, OneHolder, ReadsAreVersions, RowsAreHeld, [Next]_vars
    PROVE  RowsAreHeld'
<1> USE DEF RowsAreHeld
<1>1. ASSUME NEW p \in Processes, UNCHANGED rows, work'[p].step # "commit",
             \A q \in Processes \ {p} : work'[q] = work[q]
      PROVE  RowsAreHeld'
  BY <1>1
<1>2. ASSUME NEW p \in Processes, NEW a, UNCHANGED rows, Answer(p, a)
      PROVE  RowsAreHeld'
  BY <1>1, <1>2, Constants DEF Answer, TypeOK
<1>3. ASSUME NEW p \in Processes, NEW r \in Requests, NEW c \in Changes, CreateChange(p, r, c)
      PROVE  RowsAreHeld'
  <2>1. /\ work'[p].current = NoRow /\ work'[p].of = c /\ rows' = rows
        /\ \A q \in Processes \ {p} : work'[q] = work[q]
    BY <1>3 DEF CreateChange, Lock, TypeOK
  <2>2. /\ rows[c] = NoRow
        /\ \A q \in Processes : work[q].step = "commit" => work[q].of # c
    BY <1>3 DEF CreateChange
  <2>3. QED
    BY <2>1, <2>2
<1>4. ASSUME NEW p \in Processes, NEW r \in Requests, NEW c \in Changes, NEW to \in Targets, Mutate(p, r, c, to)
      PROVE  RowsAreHeld'
  BY <1>1, <1>4 DEF Mutate, Lock, TypeOK
<1>5. ASSUME NEW p \in Processes, Find(p)
      PROVE  RowsAreHeld'
  <2>1. work[p] \in ActiveWork
    BY <1>5, AtWork DEF Find
  <2>2. work'[p].step = "update" /\ rows' = rows /\ \A q \in Processes \ {p} : work'[q] = work[q]
    BY <1>5, <2>1 DEF Find, TypeOK, ActiveWork
  <2>3. QED
    BY <1>1, <2>2
<1>6. ASSUME NEW p \in Processes, Update(p)
      PROVE  RowsAreHeld'
  <2>1. work[p] \in ActiveWork
    BY <1>6, AtWork DEF Update
  <2>2. /\ work'[p].current = work[p].current /\ work'[p].of = work[p].of
        /\ rows' = rows /\ \A q \in Processes \ {p} : work'[q] = work[q]
    BY <1>6, <2>1 DEF Update, TypeOK, ActiveWork
  <2>3. /\ rows[work[p].of].version = work[p].current.version
        /\ \A q \in Processes \ {p} : work[q].step = "commit" => work[q].of # work[p].of
    BY <1>6 DEF Update, Unchanged, RowLocked
  <2>4. QED
    BY <2>2, <2>3
<1>7. ASSUME NEW p \in Processes, Conflict(p)
      PROVE  RowsAreHeld'
  <2>1. CASE work[p].tries + 1 < MaxWriteAttempts
    <3>1. /\ work' = [work EXCEPT ![p] = [work[p] EXCEPT !.step = "find", !.tries = @ + 1]]
          /\ UNCHANGED rows
      BY <1>7, <2>1 DEF Conflict
    <3>2. work[p] \in ActiveWork
      BY <1>7, AtWork DEF Conflict
    <3>3. work'[p].step = "find"
      BY <3>1, <3>2 DEF TypeOK, ActiveWork
    <3>4. QED
      BY <1>1, <3>1, <3>3 DEF TypeOK
  <2>2. CASE ~ (work[p].tries + 1 < MaxWriteAttempts)
    BY <1>2, <1>7, <2>2 DEF Conflict
  <2>3. QED
    BY <2>1, <2>2
<1>8. ASSUME NEW p \in Processes, Commit(p)
      PROVE  RowsAreHeld'
  <2>1. work[p] \in ActiveWork /\ work[p].step = "commit"
    BY <1>8, AtWork DEF Commit
  <2>2. /\ rows' = [rows EXCEPT ![work[p].of] = NewRow(work[p])]
        /\ work'[p].step = "idle" /\ \A q \in Processes \ {p} : work'[q] = work[q]
    BY <1>8, Constants DEF Commit, Transaction, Answer, TypeOK
  <2>3. \A q \in Processes \ {p} : work[q].step = "commit" => work[q].of # work[p].of /\ work[q].of \in Changes
    BY <2>1, AtWork DEF ActiveWork
  <2>4. \A q \in Processes \ {p} : work[q].step = "commit" => rows'[work[q].of] = rows[work[q].of]
    BY <2>2, <2>3 DEF TypeOK
  <2>5. QED
    BY <2>2, <2>4
<1>9. CASE UNCHANGED vars
  BY <1>9 DEF vars
<1>10. QED
  BY <1>2, <1>3, <1>4, <1>5, <1>6, <1>7, <1>8, <1>9 DEF Next, Step, Refuse, Break

LEMMA ConsistentStep == Consistent /\ [Next]_vars => Consistent'
  BY TypeStep, OneHolderStep, ReadsAreVersionsStep, RowsAreHeldStep DEF Consistent

LEMMA AlwaysConsistent == Spec => []Consistent
  BY ConsistentInit, ConsistentStep, PTL DEF Spec

-----------------------------------------------------------------------------
(* The refinement: a commit is a write, an answer without one turns a request away. *)
Told(a) == CASE a = "busy" -> "none" [] a = "conflict" -> "refused" [] OTHER -> a

LEMMA TellStep ==
    ASSUME TypeOK, NEW r \in Requests, answer[r] = "busy",
           NEW a \in {"done", "refused", "conflict", "unknown"},
           answer' = [answer EXCEPT ![r] = a]
    PROVE  Atomic!Tell(r, Told(a))
<1> DEFINE told == [s \in Requests |-> CASE answer[s] = "busy" -> "none"
                                         [] answer[s] = "conflict" -> "refused"
                                         [] OTHER -> answer[s]]
           told2 == [s \in Requests |-> CASE answer'[s] = "busy" -> "none"
                                          [] answer'[s] = "conflict" -> "refused"
                                          [] OTHER -> answer'[s]]
<1>1. \A s \in Requests : told[s] = Told(answer[s]) /\ told2[s] = Told(answer'[s])
  BY DEF Told
<1>2. told[r] = "none" /\ told2[r] = Told(a)
  BY <1>1 DEF Told, TypeOK
<1>3. \A s \in Requests : s # r => told2[s] = told[s]
  BY <1>1 DEF TypeOK
<1>4. told2 = [told EXCEPT ![r] = Told(a)]
  BY <1>2, <1>3
<1>5. QED
  BY <1>2, <1>4 DEF Atomic!Tell

LEMMA UntoldStep ==
    ASSUME TypeOK, NEW r \in Requests, answer[r] = "none", answer' = [answer EXCEPT ![r] = "busy"], UNCHANGED rows
    PROVE  UNCHANGED Atomic!storeVars
<1> DEFINE told == [s \in Requests |-> CASE answer[s] = "busy" -> "none"
                                         [] answer[s] = "conflict" -> "refused"
                                         [] OTHER -> answer[s]]
           told2 == [s \in Requests |-> CASE answer'[s] = "busy" -> "none"
                                          [] answer'[s] = "conflict" -> "refused"
                                          [] OTHER -> answer'[s]]
<1>1. \A s \in Requests : told2[s] = told[s]
  BY DEF TypeOK
<1>2. told2 = told
  BY <1>1
<1>3. QED
  BY <1>2 DEF Atomic!storeVars

\* The abstract store checks moves against the same table.
LEMMA SameTable ==
    /\ Atomic!DeploymentStates = DeploymentStates
    /\ \A from, to : Atomic!IsAllowed(from, to) <=> IsAllowed(from, to)
<1>1. Atomic!PRE_APPROVAL_STATES = PRE_APPROVAL_STATES /\ Atomic!TERMINAL_STATES = TERMINAL_STATES
  BY DEF Atomic!PRE_APPROVAL_STATES, PRE_APPROVAL_STATES, Atomic!TERMINAL_STATES, TERMINAL_STATES
<1>2. Atomic!EDGES = EDGES
  BY DEF Atomic!EDGES, EDGES
<1>3. Atomic!TRANSITIONS = TRANSITIONS
  BY <1>1, <1>2 DEF Atomic!TRANSITIONS, TRANSITIONS
<1>4. QED
  BY <1>1, <1>3 DEF Atomic!DeploymentStates, DeploymentStates, Atomic!IsAllowed, IsAllowed

LEMMA CommitIsWrite ==
    ASSUME Consistent, NEW p \in Processes, Commit(p),
           NEW r, NEW c, NEW to, work[p].req = r, work[p].of = c, work[p].to = to
    PROVE  Atomic!Write(r, c, to)
<1>1. work[p] \in ActiveWork /\ work[p].step = "commit" /\ TypeOK
  BY AtWork DEF Commit, Consistent
<1>2. rows[work[p].of] = work[p].current
  BY <1>1, RowIsCurrent DEF Consistent, RowsAreHeld
<1>3. LegalMove(work[p].current, work[p].to)
  BY <1>1 DEF Consistent, ReadsAreVersions, ActiveWork
<1>4. /\ rows' = [rows EXCEPT ![work[p].of] = NewRow(work[p])]
      /\ NewRow(work[p]).writes = Append(work[p].current.writes, [req |-> work[p].req, to |-> work[p].to])
  BY <1>1, NewRowType DEF Commit, Transaction
<1> DEFINE history == [d \in Changes |-> rows[d].writes]
           history2 == [d \in Changes |-> rows'[d].writes]
<1>5. history2 = [history EXCEPT ![c] = Append(@, [req |-> r, to |-> to])]
  <2>1. \A d \in Changes : d # c => history2[d] = history[d]
    BY <1>4 DEF Consistent, TypeOK
  <2>2. history2[c] = Append(history[c], [req |-> r, to |-> to])
    BY <1>1, <1>2, <1>4 DEF TypeOK, ActiveWork
  <2>3. c \in Changes
    BY <1>1 DEF ActiveWork
  <2>4. QED
    BY <2>1, <2>2, <2>3
<1>6. IF history[c] = <<>> THEN to = "awaiting_dev_execution"
      ELSE IsAllowed(Atomic!StateAfter(history[c]), to)
  <2>1. history[c] = work[p].current.writes /\ work[p].current \in Rows
    BY <1>1, <1>2 DEF ActiveWork
  <2>2. work[p].current = NoRow <=> work[p].current.writes = <<>>
    <3>1. ASSUME work[p].current.writes = <<>> PROVE work[p].current = NoRow
      <4>1. Len(work[p].current.writes) = 0
        BY <3>1
      <4>2. QED
        BY <2>1, <3>1, <4>1, StateType
    <3>2. QED
      BY <3>1 DEF NoRow
  <2>3. Atomic!StateAfter(work[p].current.writes) = StateOf(work[p].current)
    BY DEF Atomic!StateAfter, StateOf
  <2>4. QED
    BY <1>3, <2>1, <2>2, <2>3 DEF LegalMove
<1>7. Atomic!Apply(r, c, to)
  BY <1>5, <1>6, SameTable DEF Atomic!Apply
<1>8. Atomic!Tell(r, "done") \/ Atomic!Tell(r, "unknown")
  <2>1. answer[r] = "busy" /\ r \in Requests
    BY <1>1 DEF Consistent, OneHolder, ActiveWork
  <2>2. \/ answer' = [answer EXCEPT ![r] = "done"]
        \/ answer' = [answer EXCEPT ![r] = "unknown"]
    BY DEF Commit, Answer
  <2>3. Told("done") = "done" /\ Told("unknown") = "unknown"
    BY DEF Told
  <2>4. QED
    BY <1>1, <2>1, <2>2, <2>3, TellStep
<1>9. QED
  BY <1>7, <1>8 DEF Atomic!Write

LEMMA AnswerTurnsAway ==
    ASSUME Consistent, NEW p \in Processes, work[p].step # "idle", UNCHANGED rows,
           NEW a \in {"refused", "conflict", "unknown"}, Answer(p, a), NEW r, work[p].req = r
    PROVE  r \in Requests /\ Atomic!TurnAway(r)
<1>1. /\ answer[r] = "busy" /\ r \in Requests /\ TypeOK
      /\ answer' = [answer EXCEPT ![r] = a]
  BY AtWork DEF Consistent, OneHolder, ActiveWork, Answer
<1>2. Atomic!Tell(r, "refused") \/ Atomic!Tell(r, "unknown")
  BY <1>1, TellStep DEF Told
<1>3. QED
  BY <1>1, <1>2 DEF Atomic!TurnAway

LEMMA StepRefines ==
    ASSUME Consistent, [Next]_vars
    PROVE  [Atomic!Next]_(Atomic!storeVars)
<1>1. ASSUME NEW p \in Processes, NEW a \in {"refused", "conflict", "unknown"}, work[p].step # "idle",
             UNCHANGED rows, Answer(p, a)
      PROVE  Atomic!Next
  <2>1. PICK r : work[p].req = r
    OBVIOUS
  <2>2. r \in Requests /\ Atomic!TurnAway(r)
    BY <1>1, <2>1, AnswerTurnsAway
  <2>3. QED
    BY <2>2 DEF Atomic!Next
<1>2. CASE UNCHANGED <<rows, answer>>
  BY <1>2 DEF Atomic!storeVars
<1>3. ASSUME NEW p \in Processes, NEW r \in Requests, NEW c \in Changes, CreateChange(p, r, c)
      PROVE  UNCHANGED Atomic!storeVars
  BY <1>3, UntoldStep DEF CreateChange, Lock, Consistent
<1>4. ASSUME NEW p \in Processes, NEW r \in Requests, NEW c \in Changes, NEW to \in Targets, Mutate(p, r, c, to)
      PROVE  UNCHANGED Atomic!storeVars
  BY <1>4, UntoldStep DEF Mutate, Lock, Consistent
<1>5. ASSUME NEW p \in Processes, Find(p) \/ Update(p)
      PROVE  UNCHANGED <<rows, answer>>
  BY <1>5 DEF Find, Update
<1>6. ASSUME NEW p \in Processes, Refuse(p) \/ Break(p)
      PROVE  Atomic!Next
  BY <1>1, <1>6 DEF Refuse, Break
<1>7. ASSUME NEW p \in Processes, Conflict(p)
      PROVE  Atomic!Next \/ UNCHANGED <<rows, answer>>
  BY <1>1, <1>7 DEF Conflict
<1>8. ASSUME NEW p \in Processes, Commit(p)
      PROVE  Atomic!Next
  <2>1. work[p] \in ActiveWork
    BY <1>8, AtWork DEF Commit, Consistent
  <2>2. PICK r \in Requests, c \in Changes, to \in DeploymentStates :
            work[p].req = r /\ work[p].of = c /\ work[p].to = to
    BY <2>1 DEF ActiveWork
  <2>3. Atomic!Write(r, c, to)
    BY <1>8, <2>2, CommitIsWrite
  <2>4. QED
    BY <2>3, SameTable DEF Atomic!Next
<1>9. CASE UNCHANGED vars
  BY <1>2, <1>9 DEF vars
<1>10. QED
  BY <1>2, <1>3, <1>4, <1>5, <1>6, <1>7, <1>8, <1>9 DEF Next, Step

LEMMA InitRefines == Init => Atomic!Init
<1> SUFFICES ASSUME Init PROVE Atomic!Init
  OBVIOUS
<1>1. \A c \in Changes : rows[c].writes = <<>>
  BY DEF Init, NoRow
<1>2. \A r \in Requests : answer[r] = "none"
  BY DEF Init
<1>3. QED
  BY <1>1, <1>2 DEF Atomic!Init

\* The store on Postgres is atomic: however many processes write, each write is made whole, on
\* top of all those before it, and what a caller is told is true (ChangeControlStore._mutate).
THEOREM StoreIsAtomic == Spec => ImplementsAtomicStore
<1>1. Init => Atomic!Init
  BY InitRefines
<1>2. Consistent /\ [Next]_vars => [Atomic!Next]_(Atomic!storeVars)
  BY StepRefines
<1>3. QED
  BY <1>1, <1>2, AlwaysConsistent, PTL DEF Spec, ImplementsAtomicStore, Atomic!Spec

-----------------------------------------------------------------------------
(* What a step does to the tables, for the invariants about audit entries and events. *)
Quiet ==
    /\ UNCHANGED <<rows, audit, outbox, nextSeq, clock>>
    /\ \A p \in Processes : work'[p] = work[p] \/ work'[p].step \notin {"update", "commit"}

Creates(p, c) ==
    /\ UNCHANGED <<rows, audit, outbox>> /\ nextSeq' = nextSeq + 1 /\ clock' = clock + 1
    /\ \A q \in Processes \ {p} : work'[q] = work[q]
    /\ rows[c] = NoRow
    /\ work'[p].step = "commit" /\ work'[p].of = c /\ work'[p].current = NoRow
    /\ work'[p].stamp = clock /\ work'[p].seq = nextSeq

Reads(p) ==
    /\ UNCHANGED <<rows, audit, outbox, nextSeq>> /\ clock' = clock + 1
    /\ \A q \in Processes \ {p} : work'[q] = work[q]
    /\ work'[p].step = "update" /\ work'[p].stamp = clock
    /\ work'[p].of = work[p].of /\ work'[p].current = rows[work[p].of]

Locks(p) ==
    /\ UNCHANGED <<rows, audit, outbox, clock>> /\ nextSeq' = nextSeq + 1
    /\ \A q \in Processes \ {p} : work'[q] = work[q]
    /\ work[p].step = "update" /\ work'[p].step = "commit" /\ work'[p].seq = nextSeq
    /\ work'[p].of = work[p].of /\ work'[p].current = work[p].current /\ work'[p].stamp = work[p].stamp

\* w is what the process worked on; the row it read is the row it replaces.
Commits(p, w) ==
    /\ w = work[p] /\ w.step = "commit" /\ w.current = rows[w.of] /\ LegalMove(w.current, w.to)
    /\ rows' = [rows EXCEPT ![w.of] = NewRow(w)]
    /\ audit' = audit \union {AuditEntry(w)}
    /\ outbox' = outbox \union {OutboxEvent(w)}
    /\ UNCHANGED <<nextSeq, clock>>
    /\ work'[p].step = "idle"
    /\ \A q \in Processes \ {p} : work'[q] = work[q] /\ (work[q].step = "commit" => work[q].of # w.of)

LEMMA StepKinds ==
    ASSUME Consistent, [Next]_vars
    PROVE  \/ Quiet
           \/ \E p \in Processes, c \in Changes : Creates(p, c)
           \/ \E p \in Processes : Reads(p) /\ work[p] \in ActiveWork
           \/ \E p \in Processes : Locks(p) /\ work[p] \in ActiveWork
           \/ \E p \in Processes, w \in ActiveWork : Commits(p, w)
<1> USE DEF Consistent
<1>1. ASSUME NEW p \in Processes, NEW a, Answer(p, a), UNCHANGED <<rows, audit, outbox, nextSeq, clock>>
      PROVE  Quiet
  BY <1>1, Constants DEF Answer, Quiet, TypeOK
<1>2. ASSUME NEW p \in Processes, NEW r \in Requests, NEW c \in Changes, CreateChange(p, r, c)
      PROVE  Creates(p, c)
  BY <1>2 DEF CreateChange, Lock, Creates, TypeOK
<1>3. ASSUME NEW p \in Processes, NEW r \in Requests, NEW c \in Changes, NEW to \in Targets, Mutate(p, r, c, to)
      PROVE  Quiet
  BY <1>3 DEF Mutate, Lock, Quiet, TypeOK
<1>4. ASSUME NEW p \in Processes, Find(p)
      PROVE  Reads(p) /\ work[p] \in ActiveWork
  <2>1. work[p] \in ActiveWork
    BY <1>4, AtWork DEF Find
  <2>2. work' = [work EXCEPT ![p] = [work[p] EXCEPT !.step = "update", !.current = rows[work[p].of], !.stamp = clock]]
    BY <1>4 DEF Find
  <2>3. QED
    BY <1>4, <2>1, <2>2 DEF Find, Reads, TypeOK, ActiveWork
<1>5. ASSUME NEW p \in Processes, Update(p)
      PROVE  Locks(p) /\ work[p] \in ActiveWork
  <2>1. work[p] \in ActiveWork
    BY <1>5, AtWork DEF Update
  <2>2. work' = [work EXCEPT ![p] = [work[p] EXCEPT !.step = "commit", !.seq = nextSeq]]
    BY <1>5 DEF Update
  <2>3. QED
    BY <1>5, <2>1, <2>2 DEF Update, Locks, TypeOK, ActiveWork
<1>6. ASSUME NEW p \in Processes, Conflict(p)
      PROVE  Quiet
  <2>1. CASE work[p].tries + 1 < MaxWriteAttempts
    <3>1. /\ work' = [work EXCEPT ![p] = [work[p] EXCEPT !.step = "find", !.tries = @ + 1]]
          /\ UNCHANGED <<rows, audit, outbox, nextSeq, clock>>
      BY <1>6, <2>1 DEF Conflict
    <3>2. work[p] \in ActiveWork
      BY <1>6, AtWork DEF Conflict
    <3>3. work'[p].step = "find" /\ \A q \in Processes \ {p} : work'[q] = work[q]
      BY <3>1, <3>2 DEF TypeOK, ActiveWork
    <3>4. QED
      BY <3>1, <3>3 DEF Quiet
  <2>2. CASE ~ (work[p].tries + 1 < MaxWriteAttempts)
    BY <1>1, <1>6, <2>2 DEF Conflict
  <2>3. QED
    BY <2>1, <2>2
<1>7. ASSUME NEW p \in Processes, Commit(p)
      PROVE  \E w \in ActiveWork : Commits(p, w)
  <2>1. PICK w \in ActiveWork : w = work[p]
    BY <1>7, AtWork DEF Commit
  <2>2. w.step = "commit" /\ w.current = rows[w.of]
    BY <1>7, <2>1, RowIsCurrent DEF Commit, RowsAreHeld
  <2>3. LegalMove(w.current, w.to)
    BY <2>1, <2>2 DEF ReadsAreVersions, ActiveWork
  <2>4. /\ rows' = [rows EXCEPT ![w.of] = NewRow(w)]
        /\ audit' = audit \union {AuditEntry(w)}
        /\ outbox' = outbox \union {OutboxEvent(w)}
        /\ UNCHANGED <<nextSeq, clock>>
    BY <1>7, <2>1 DEF Commit, Transaction
  <2>5. work'[p].step = "idle" /\ \A q \in Processes \ {p} : work'[q] = work[q]
    BY <1>7, Constants DEF Commit, Answer, TypeOK
  <2>6. \A q \in Processes \ {p} : work[q].step = "commit" => work[q].of # w.of
    BY <2>1, <2>2 DEF RowsAreHeld
  <2>7. Commits(p, w)
    BY <2>1, <2>2, <2>3, <2>4, <2>5, <2>6 DEF Commits
  <2>8. QED
    BY <2>7
<1>8. ASSUME NEW p \in Processes, Refuse(p) \/ Break(p)
      PROVE  Quiet
  BY <1>1, <1>8 DEF Refuse, Break
<1>9. CASE UNCHANGED vars
  BY <1>9 DEF vars, Quiet
<1>10. CASE \E p \in Processes : Step(p) \/ Break(p)
  <2>1. PICK p \in Processes :
            Find(p) \/ Refuse(p) \/ Update(p) \/ Conflict(p) \/ Commit(p) \/ Break(p)
    BY <1>10 DEF Step
  <2>2. CASE Find(p)
    BY <1>4, <2>2
  <2>3. CASE Update(p)
    BY <1>5, <2>3
  <2>4. CASE Conflict(p)
    BY <1>6, <2>4
  <2>5. CASE Commit(p)
    BY <1>7, <2>5
  <2>6. CASE Refuse(p) \/ Break(p)
    BY <1>8, <2>6
  <2>7. QED
    BY <2>1, <2>2, <2>3, <2>4, <2>5, <2>6
<1>11. CASE \E p \in Processes, r \in Requests, c \in Changes :
               CreateChange(p, r, c) \/ \E to \in Targets : Mutate(p, r, c, to)
  <2>1. PICK p \in Processes, r \in Requests, c \in Changes :
            CreateChange(p, r, c) \/ \E to \in Targets : Mutate(p, r, c, to)
    BY <1>11
  <2>2. CASE CreateChange(p, r, c)
    <3>1. Creates(p, c)
      BY <1>2, <2>2
    <3>2. QED
      BY <3>1
  <2>3. CASE \E to \in Targets : Mutate(p, r, c, to)
    BY <1>3, <2>3
  <2>4. QED
    BY <2>1, <2>2, <2>3
<1>12. QED
  BY <1>9, <1>10, <1>11 DEF Next

\* What a commit leaves of the row.
LEMMA CommittedRow ==
    ASSUME TypeOK, NEW p \in Processes, NEW w \in ActiveWork, Commits(p, w)
    PROVE  /\ rows'[w.of] = NewRow(w) /\ w.of \in Changes
           /\ rows'[w.of].version = rows[w.of].version + 1
           /\ rows[w.of].version = Len(rows[w.of].writes) /\ rows[w.of].version \in Nat
           /\ Len(rows'[w.of].writes) = Len(rows[w.of].writes) + 1
           /\ \A i \in 1 .. Len(rows[w.of].writes) : rows'[w.of].writes[i] = rows[w.of].writes[i]
           /\ rows'[w.of].writes[Len(rows[w.of].writes) + 1] = [req |-> w.req, to |-> w.to]
           /\ StateOf(NewRow(w)) = w.to
           /\ \A c \in Changes : c # w.of => rows'[c] = rows[c]
<1>1. rows'[w.of] = NewRow(w) /\ w.of \in Changes /\ rows[w.of] = w.current /\ w.current \in Rows
      /\ \A c \in Changes : c # w.of => rows'[c] = rows[c]
  BY DEF Commits, TypeOK, ActiveWork
<1>2. w.current.version = Len(w.current.writes) /\ w.current.version \in Nat
  BY <1>1 DEF Rows
<1>3. StateOf(NewRow(w)) = w.to
  <2>1. /\ Len(NewRow(w).writes) = Len(w.current.writes) + 1
        /\ NewRow(w).writes[Len(w.current.writes) + 1] = [req |-> w.req, to |-> w.to]
    BY NewRowType
  <2>2. QED
    BY <2>1 DEF StateOf
<1>4. /\ NewRow(w).version = w.current.version + 1
      /\ Len(NewRow(w).writes) = Len(w.current.writes) + 1
      /\ \A i \in 1 .. Len(w.current.writes) : NewRow(w).writes[i] = w.current.writes[i]
      /\ NewRow(w).writes[Len(w.current.writes) + 1] = [req |-> w.req, to |-> w.to]
  BY NewRowType
<1>5. QED
  BY <1>1, <1>2, <1>3, <1>4

-----------------------------------------------------------------------------
(* Every write is on record, under its own version. *)
LEMMA OneMoreEvent ==
    ASSUME NEW S, NEW x
    PROVE  /\ {e.version : e \in S \union {x}} = {e.version : e \in S} \union {x.version}
           /\ {e.req : e \in S \union {x}} = {e.req : e \in S} \union {x.req}
  OBVIOUS

LEMMA OneMoreWriter ==
    ASSUME NEW s, NEW t, NEW n \in Nat, NEW r,
           DOMAIN s = 1 .. n, DOMAIN t = 1 .. n + 1,
           \A i \in 1 .. n : t[i] = s[i], t[n + 1].req = r
    PROVE  {t[i].req : i \in DOMAIN t} = {s[i].req : i \in DOMAIN s} \union {r}
<1>1. ASSUME NEW i \in 1 .. n + 1 PROVE t[i].req \in {s[j].req : j \in DOMAIN s} \union {r}
  <2>1. i \in 1 .. n \/ i = n + 1
    OBVIOUS
  <2>2. CASE i \in 1 .. n
    BY <2>2
  <2>3. CASE i = n + 1
    BY <2>3
  <2>4. QED
    BY <2>1, <2>2, <2>3
<1>2. ASSUME NEW i \in 1 .. n PROVE s[i].req \in {t[j].req : j \in DOMAIN t}
  <2>1. i \in 1 .. n + 1 /\ t[i] = s[i]
    OBVIOUS
  <2>2. QED
    BY <2>1
<1>3. n + 1 \in DOMAIN t
  OBVIOUS
<1>4. r \in {t[j].req : j \in DOMAIN t}
  BY <1>3
<1>5. QED
  BY <1>1, <1>2, <1>4

LEMMA OnRecordStep ==
    ASSUME Consistent, EveryWriteIsOnRecord, [Next]_vars
    PROVE  EveryWriteIsOnRecord'
<1> USE DEF EveryWriteIsOnRecord, EntriesOf, EventsOf, WritersOf
<1>1. CASE UNCHANGED <<rows, audit, outbox>>
  BY <1>1
<1>2. ASSUME NEW p \in Processes, NEW w \in ActiveWork, Commits(p, w)
      PROVE  EveryWriteIsOnRecord'
  <2> DEFINE n == Len(rows[w.of].writes)
  <2>1. /\ rows'[w.of].version = rows[w.of].version + 1 /\ rows[w.of].version = n /\ n \in Nat
        /\ Len(rows'[w.of].writes) = n + 1
        /\ \A i \in 1 .. n : rows'[w.of].writes[i] = rows[w.of].writes[i]
        /\ rows'[w.of].writes[n + 1] = [req |-> w.req, to |-> w.to]
        /\ \A c \in Changes : c # w.of => rows'[c] = rows[c]
        /\ w.of \in Changes
    BY <1>2, CommittedRow DEF Consistent
  <2>2. /\ audit' = audit \union {AuditEntry(w)}
        /\ outbox' = outbox \union {OutboxEvent(w)}
        /\ AuditEntry(w).of = w.of /\ AuditEntry(w).req = w.req
        /\ OutboxEvent(w).of = w.of /\ OutboxEvent(w).req = w.req
        /\ OutboxEvent(w).version = n + 1
    BY <1>2, <2>1 DEF Commits, AuditEntry, OutboxEvent
  <2>3. DOMAIN rows[w.of].writes = 1 .. n /\ DOMAIN rows'[w.of].writes = 1 .. n + 1
    <3>1. rows[w.of].writes \in Seq(Writes)
      BY <2>1 DEF Consistent, TypeOK, Rows
    <3>2. rows'[w.of].writes \in Seq(Writes)
      BY <1>2, CommittedRow, NewRowType DEF Consistent, Rows
    <3>3. QED
      BY <2>1, <3>1, <3>2, LenProperties
  <2>4. ASSUME NEW c \in Changes, c # w.of
        PROVE  /\ EntriesOf(c)' = EntriesOf(c) /\ EventsOf(c)' = EventsOf(c)
               /\ WritersOf(c)' = WritersOf(c) /\ rows'[c].version = rows[c].version
    BY <2>1, <2>2, <2>4
  <2>5. /\ EntriesOf(w.of)' = EntriesOf(w.of) \union {AuditEntry(w)}
        /\ EventsOf(w.of)' = EventsOf(w.of) \union {OutboxEvent(w)}
    BY <2>2
  <2>6. WritersOf(w.of)' = WritersOf(w.of) \union {w.req}
    <3>1. rows'[w.of].writes[n + 1].req = w.req
      BY <2>1
    <3>2. PICK s, t, m : s = rows[w.of].writes /\ t = rows'[w.of].writes /\ m = n
      OBVIOUS
    <3>3. /\ m \in Nat /\ DOMAIN s = 1 .. m /\ DOMAIN t = 1 .. m + 1
          /\ \A i \in 1 .. m : t[i] = s[i]
          /\ t[m + 1].req = w.req
      BY <2>1, <2>3, <3>1, <3>2
    <3>4. {t[i].req : i \in DOMAIN t} = {s[i].req : i \in DOMAIN s} \union {w.req}
      BY ONLY <3>3, OneMoreWriter
    <3>5. QED
      BY <3>2, <3>4
  <2>7. {e.version : e \in EventsOf(w.of)'} = 1 .. rows'[w.of].version
    <3>1. {e.version : e \in EventsOf(w.of)'} = {e.version : e \in EventsOf(w.of)} \union {n + 1}
      BY <2>2, <2>5, OneMoreEvent
    <3>2. {e.version : e \in EventsOf(w.of)} = 1 .. n
      BY <2>1
    <3>3. 1 .. n + 1 = (1 .. n) \union {n + 1}
      BY <2>1
    <3>4. QED
      BY <2>1, <3>1, <3>2, <3>3
  <2>8. /\ {a.req : a \in EntriesOf(w.of)'} = WritersOf(w.of)'
        /\ {e.req : e \in EventsOf(w.of)'} = WritersOf(w.of)'
    <3>1. {a.req : a \in EntriesOf(w.of)'} = {a.req : a \in EntriesOf(w.of)} \union {w.req}
      BY <2>2, <2>5, OneMoreEvent
    <3>2. {e.req : e \in EventsOf(w.of)'} = {e.req : e \in EventsOf(w.of)} \union {w.req}
      BY <2>2, <2>5, OneMoreEvent
    <3>3. /\ {a.req : a \in EntriesOf(w.of)} = WritersOf(w.of)
          /\ {e.req : e \in EventsOf(w.of)} = WritersOf(w.of)
      BY <2>1
    <3>4. QED
      BY <2>6, <3>1, <3>2, <3>3
  <2>9. ASSUME NEW c \in Changes
        PROVE  /\ {a.req : a \in EntriesOf(c)'} = WritersOf(c)'
               /\ {e.req : e \in EventsOf(c)'} = WritersOf(c)'
               /\ {e.version : e \in EventsOf(c)'} = 1 .. rows'[c].version
    <3>1. CASE c = w.of
      BY <2>7, <2>8, <3>1
    <3>2. CASE c # w.of
      <4>1. /\ {a.req : a \in EntriesOf(c)} = WritersOf(c)
            /\ {e.req : e \in EventsOf(c)} = WritersOf(c)
            /\ {e.version : e \in EventsOf(c)} = 1 .. rows[c].version
        OBVIOUS
      <4>2. /\ EntriesOf(c)' = EntriesOf(c) /\ EventsOf(c)' = EventsOf(c)
            /\ WritersOf(c)' = WritersOf(c) /\ rows'[c].version = rows[c].version
        BY <2>4, <3>2
      <4>3. QED
        BY <4>1, <4>2
    <3>3. QED
      BY <3>1, <3>2
  <2>10. QED
    BY <2>9
<1>3. QED
  BY <1>1, <1>2, StepKinds DEF Quiet, Creates, Reads, Locks

LEMMA OnRecordInit == Init => EveryWriteIsOnRecord
<1> SUFFICES ASSUME Init PROVE EveryWriteIsOnRecord
  OBVIOUS
<1>1. ASSUME NEW c \in Changes
      PROVE  rows[c].version = 0 /\ DOMAIN rows[c].writes = {} /\ audit = {} /\ outbox = {}
  BY DEF Init, NoRow
<1>2. QED
  BY <1>1 DEF EveryWriteIsOnRecord, EntriesOf, EventsOf, WritersOf

\* A committed change always has its audit entry and its event, and nothing else has one
\* (ChangeControlStore, docstring; _update_postgres).
THEOREM WritesAreOnRecord == Spec => []EveryWriteIsOnRecord
  BY OnRecordInit, OnRecordStep, AlwaysConsistent, PTL DEF Spec

-----------------------------------------------------------------------------
(* The audit trail.  The newest entry of a row names the state the row is in; a read that is still *)
(* current has a later stamp than every entry of its row; the clock is ahead of all of them.       *)
NewestEntry(c, b) ==
    /\ b \in EntriesOf(c) /\ b.to = StateOf(rows[c])
    /\ \A d \in EntriesOf(c) : d.stamp <= b.stamp

NewestKnown ==
    \A c \in Changes : IF rows[c] = NoRow THEN EntriesOf(c) = {} ELSE \E b \in audit : NewestEntry(c, b)

ReadsAreLater ==
    \A p \in Processes :
        work[p].step \in {"update", "commit"} /\ work[p].current.version = rows[work[p].of].version
            => \A d \in EntriesOf(work[p].of) : d.stamp < work[p].stamp

ClockAhead ==
    /\ \A a \in audit : a.stamp < clock
    /\ \A p \in Processes : work[p].step \in {"update", "commit"} => work[p].stamp < clock

Stamped == NewestKnown /\ ReadsAreLater /\ ClockAhead

\* A commit's entry is later than all entries of its row, and starts where the newest one ended.
LEMMA CommitIsNewest ==
    ASSUME Consistent, Stamped, NEW p \in Processes, NEW w \in ActiveWork, Commits(p, w)
    PROVE  /\ \A d \in EntriesOf(w.of) : d.stamp < w.stamp
           /\ AuditEntry(w).of = w.of /\ AuditEntry(w).stamp = w.stamp /\ AuditEntry(w).to = w.to
           /\ w.stamp \in Nat /\ w.stamp < clock
           /\ w.current = NoRow => AuditEntry(w).from = "none"
           /\ w.current # NoRow => /\ AuditEntry(w).from = StateOf(rows[w.of])
                                   /\ IsAllowed(AuditEntry(w).from, w.to)
                                   /\ \E b \in audit : NewestEntry(w.of, b)
<1>1. w = work[p] /\ w.step = "commit" /\ w.current = rows[w.of] /\ LegalMove(w.current, w.to) /\ w.of \in Changes
      /\ w.stamp \in Nat
  BY DEF Commits, ActiveWork
<1>2. \A d \in EntriesOf(w.of) : d.stamp < w.stamp
  BY <1>1 DEF Stamped, ReadsAreLater
<1>3. w.stamp < clock
  BY <1>1 DEF Stamped, ClockAhead
<1>4. AuditEntry(w).of = w.of /\ AuditEntry(w).stamp = w.stamp /\ AuditEntry(w).to = w.to
      /\ AuditEntry(w).from = IF w.current = NoRow THEN "none" ELSE StateOf(w.current)
  BY DEF AuditEntry
<1>5. w.current # NoRow => \E b \in audit : NewestEntry(w.of, b)
  BY <1>1 DEF Stamped, NewestKnown
<1>6. QED
  BY <1>1, <1>2, <1>3, <1>4, <1>5 DEF LegalMove

LEMMA NewestKnownStep ==
    ASSUME Consistent, Stamped, [Next]_vars
    PROVE  NewestKnown'
<1>1. CASE UNCHANGED <<rows, audit>>
  BY <1>1 DEF Stamped, NewestKnown, NewestEntry, EntriesOf, StateOf
<1>2. ASSUME NEW p \in Processes, NEW w \in ActiveWork, Commits(p, w)
      PROVE  NewestKnown'
  <2> DEFINE a == AuditEntry(w)
  <2>1. /\ \A d \in EntriesOf(w.of) : d.stamp < w.stamp
        /\ a.of = w.of /\ a.stamp = w.stamp /\ a.to = w.to /\ w.stamp \in Nat
    BY <1>2, CommitIsNewest
  <2>2. /\ rows'[w.of] = NewRow(w) /\ w.of \in Changes /\ StateOf(NewRow(w)) = w.to /\ NewRow(w) # NoRow
        /\ \A c \in Changes : c # w.of => rows'[c] = rows[c]
    BY <1>2, CommittedRow, NewRowType DEF Consistent
  <2>3. audit' = audit \union {a}
    BY <1>2 DEF Commits
  <2> HIDE DEF a
  <2>4. ASSUME NEW c \in Changes, c # w.of
        PROVE  EntriesOf(c)' = EntriesOf(c) /\ rows'[c] = rows[c]
    BY <2>1, <2>2, <2>3, <2>4 DEF EntriesOf
  <2>5. EntriesOf(w.of)' = EntriesOf(w.of) \union {a}
    BY <2>1, <2>3 DEF EntriesOf
  <2>6. \A d \in EntriesOf(w.of) : d.stamp \in Nat
    BY DEF Consistent, TypeOK, EntriesOf
  <2>7. NewestEntry(w.of, a)'
    <3>1. a \in EntriesOf(w.of)' /\ \A d \in EntriesOf(w.of)' : d.stamp <= a.stamp
      BY <2>1, <2>5, <2>6
    <3>2. a.to = StateOf(rows'[w.of])
      BY <2>1, <2>2
    <3>3. a.to = StateOf(rows[w.of])'
      BY <3>2 DEF StateOf
    <3>4. QED
      BY <3>1, <3>3 DEF NewestEntry
  <2>8. ASSUME NEW c \in Changes
        PROVE  IF rows'[c] = NoRow THEN EntriesOf(c)' = {} ELSE \E b \in audit' : NewestEntry(c, b)'
    <3>1. CASE c = w.of
      BY <2>2, <2>3, <2>7, <3>1
    <3>2. CASE c # w.of
      <4>1. EntriesOf(c)' = EntriesOf(c) /\ rows'[c] = rows[c] /\ StateOf(rows[c])' = StateOf(rows[c])
        BY <2>4, <3>2 DEF StateOf
      <4>2. IF rows[c] = NoRow THEN EntriesOf(c) = {} ELSE \E b \in audit : NewestEntry(c, b)
        BY DEF Stamped, NewestKnown
      <4>3. ASSUME NEW b \in audit, NewestEntry(c, b) PROVE NewestEntry(c, b)'
        BY <4>1, <4>3 DEF NewestEntry
      <4>4. QED
        BY <2>3, <4>1, <4>2, <4>3
    <3>3. QED
      BY <3>1, <3>2
  <2>9. QED
    BY <2>8 DEF NewestKnown
<1>3. QED
  BY <1>1, <1>2, StepKinds DEF Quiet, Creates, Reads, Locks

LEMMA ReadsAreLaterStep ==
    ASSUME Consistent, Stamped, [Next]_vars
    PROVE  ReadsAreLater'
<1> USE DEF ReadsAreLater
<1>t. /\ \A a \in audit : a.stamp \in Nat
      /\ \A q \in Processes : work[q].step # "idle" => work[q] \in ActiveWork
  BY AtWork DEF Consistent, TypeOK
<1>1. CASE Quiet
  BY <1>1 DEF Quiet, Stamped, EntriesOf
<1>2. ASSUME NEW p \in Processes, NEW c \in Changes, Creates(p, c)
      PROVE  ReadsAreLater'
  <2>1. EntriesOf(c) = {}
    BY <1>2 DEF Creates, Stamped, NewestKnown
  <2>2. QED
    BY <1>2, <2>1 DEF Creates, Stamped, EntriesOf
<1>3. ASSUME NEW p \in Processes, Reads(p)
      PROVE  ReadsAreLater'
  BY <1>3 DEF Reads, Stamped, ClockAhead, EntriesOf
<1>4. ASSUME NEW p \in Processes, Locks(p)
      PROVE  ReadsAreLater'
  BY <1>4 DEF Locks, Stamped, EntriesOf
<1>5. ASSUME NEW p \in Processes, NEW w \in ActiveWork, Commits(p, w)
      PROVE  ReadsAreLater'
  <2>1. /\ rows'[w.of].version = rows[w.of].version + 1 /\ rows[w.of].version \in Nat
        /\ \A c \in Changes : c # w.of => rows'[c] = rows[c]
    BY <1>5, CommittedRow DEF Consistent
  <2>2. ASSUME NEW q \in Processes, work'[q].step \in {"update", "commit"},
               work'[q].current.version = rows'[work'[q].of].version
        PROVE  \A d \in EntriesOf(work[q].of)' : d.stamp < work'[q].stamp
    <3>1. q # p /\ work'[q] = work[q] /\ work[q] \in ActiveWork
      BY <1>5, <1>t, <2>2 DEF Commits
    <3>2. work[q].of # w.of
      <4>1. work[q].current.version <= rows[work[q].of].version /\ work[q].current.version \in Nat
        BY <2>2, <3>1 DEF Consistent, ReadsAreVersions, ActiveWork, Rows
      <4>2. QED
        BY <2>1, <2>2, <3>1, <4>1
    <3>3. EntriesOf(work[q].of)' = EntriesOf(work[q].of)
      BY <1>5, <3>2 DEF Commits, EntriesOf, AuditEntry
    <3>4. rows'[work[q].of] = rows[work[q].of]
      BY <2>1, <3>1, <3>2 DEF ActiveWork
    <3>5. \A d \in EntriesOf(work[q].of) : d.stamp < work[q].stamp
      BY <2>2, <3>1, <3>4 DEF Stamped
    <3>6. QED
      BY <3>1, <3>3, <3>5
  <2>3. QED
    BY <2>2
<1>6. QED
  BY <1>1, <1>2, <1>3, <1>4, <1>5, StepKinds

LEMMA ClockAheadStep ==
    ASSUME Consistent, Stamped, [Next]_vars
    PROVE  ClockAhead'
<1> USE DEF ClockAhead
<1>t. /\ clock \in Nat /\ \A a \in audit : a.stamp \in Nat
      /\ \A q \in Processes : work[q].step # "idle" => work[q].stamp \in Nat
  BY AtWork DEF Consistent, TypeOK, ActiveWork
<1>1. CASE Quiet
  BY <1>1 DEF Quiet, Stamped
<1>2. ASSUME NEW p \in Processes, NEW c \in Changes, Creates(p, c)
      PROVE  ClockAhead'
  BY <1>2, <1>t DEF Creates, Stamped
<1>3. ASSUME NEW p \in Processes, Reads(p)
      PROVE  ClockAhead'
  BY <1>3, <1>t DEF Reads, Stamped
<1>4. ASSUME NEW p \in Processes, Locks(p)
      PROVE  ClockAhead'
  BY <1>4 DEF Locks, Stamped
<1>5. ASSUME NEW p \in Processes, NEW w \in ActiveWork, Commits(p, w)
      PROVE  ClockAhead'
  <2>1. AuditEntry(w).stamp < clock
    BY <1>5, CommitIsNewest
  <2>2. audit' = audit \union {AuditEntry(w)} /\ clock' = clock
    BY <1>5 DEF Commits
  <2>3. \A a \in audit' : a.stamp < clock'
    BY <2>1, <2>2 DEF Stamped
  <2>4. QED
    BY <1>5, <2>2, <2>3 DEF Commits, Stamped
<1>6. QED
  BY <1>1, <1>2, <1>3, <1>4, <1>5, StepKinds

LEMMA TrailConnectsStep ==
    ASSUME Consistent, Stamped, AuditTrailConnects, [Next]_vars
    PROVE  AuditTrailConnects'
<1> USE DEF AuditTrailConnects
<1>1. CASE UNCHANGED audit
  BY <1>1 DEF EntriesOf
<1>2. ASSUME NEW p \in Processes, NEW w \in ActiveWork, Commits(p, w)
      PROVE  AuditTrailConnects'
  <2>1. PICK n : n = AuditEntry(w)
    OBVIOUS
  <2>2. audit' = audit \union {n}
    BY <1>2, <2>1 DEF Commits
  <2>3. /\ \A d \in EntriesOf(n.of) : d.stamp < n.stamp
        /\ n.stamp \in Nat /\ n.of = w.of
        /\ n.from # "none" => /\ IsAllowed(n.from, n.to)
                              /\ \E b \in EntriesOf(n.of) : b.to = n.from /\ \A d \in EntriesOf(n.of) : d.stamp <= b.stamp
    BY <1>2, <2>1, CommitIsNewest DEF NewestEntry
  <2>4. \A c : EntriesOf(c)' = EntriesOf(c) \union (IF c = n.of THEN {n} ELSE {})
    BY <2>2 DEF EntriesOf
  <2>5. \A a \in audit : a.stamp \in Nat /\ a.from \in DeploymentStates \union {"none"}
    BY DEF Consistent, TypeOK
  <2>6. ASSUME NEW a \in audit, a.from # "none"
        PROVE  /\ IsAllowed(a.from, a.to)
               /\ \E b \in EntriesOf(a.of)' :
                    /\ b.stamp < a.stamp /\ b.to = a.from
                    /\ \A d \in EntriesOf(a.of)' : d.stamp <= b.stamp \/ d.stamp >= a.stamp
    <3>1. IsAllowed(a.from, a.to)
      BY <2>6
    <3>2. PICK b \in EntriesOf(a.of) :
            /\ b.stamp < a.stamp /\ b.to = a.from
            /\ \A d \in EntriesOf(a.of) : d.stamp <= b.stamp \/ d.stamp >= a.stamp
      BY <2>6
    <3>3. \A d \in EntriesOf(a.of)' : d.stamp <= b.stamp \/ d.stamp >= a.stamp
      <4>1. a \in EntriesOf(a.of)
        BY DEF EntriesOf
      <4>2. a.of = n.of => n.stamp >= a.stamp
        BY <2>3, <2>5, <4>1
      <4>3. QED
        BY <2>4, <3>2, <4>2
    <3>4. b \in EntriesOf(a.of)'
      BY <2>4
    <3>5. QED
      BY <3>1, <3>2, <3>3, <3>4
  <2>7. ASSUME n.from # "none"
        PROVE  /\ IsAllowed(n.from, n.to)
               /\ \E b \in EntriesOf(n.of)' :
                    /\ b.stamp < n.stamp /\ b.to = n.from
                    /\ \A d \in EntriesOf(n.of)' : d.stamp <= b.stamp \/ d.stamp >= n.stamp
    <3>1. PICK b \in EntriesOf(n.of) : b.to = n.from /\ \A d \in EntriesOf(n.of) : d.stamp <= b.stamp
      BY <2>3, <2>7
    <3>2. b.stamp < n.stamp
      BY <2>3
    <3>3. \A d \in EntriesOf(n.of)' : d.stamp <= b.stamp \/ d.stamp >= n.stamp
      BY <2>3, <2>4, <3>1
    <3>4. b \in EntriesOf(n.of)'
      BY <2>4
    <3>5. QED
      BY <2>3, <2>7, <3>1, <3>2, <3>3, <3>4
  <2>8. QED
    BY <2>2, <2>6, <2>7
<1>3. QED
  BY <1>1, <1>2, StepKinds DEF Quiet, Creates, Reads, Locks

LEMMA StampedInit == Init => Stamped /\ AuditTrailConnects
<1> SUFFICES ASSUME Init PROVE Stamped /\ AuditTrailConnects
  OBVIOUS
<1>1. audit = {} /\ (\A c \in Changes : rows[c] = NoRow) /\ \A p \in Processes : work[p].step = "idle"
  BY Constants DEF Init
<1>2. QED
  BY <1>1 DEF Stamped, NewestKnown, ReadsAreLater, ClockAhead, AuditTrailConnects, EntriesOf

\* Read in the order of its time stamps, the audit trail of a change is one legal walk through the
\* lifecycle, though the stamps are taken before the writes, by processes that do not see each other.
THEOREM AuditTrailTellsOneStory == Spec => []AuditTrailConnects
<1>1. Consistent /\ Stamped /\ AuditTrailConnects /\ [Next]_vars => (Stamped /\ AuditTrailConnects)'
  BY NewestKnownStep, ReadsAreLaterStep, ClockAheadStep, TrailConnectsStep DEF Stamped
<1>2. QED
  BY <1>1, StampedInit, AlwaysConsistent, PTL DEF Spec

-----------------------------------------------------------------------------
(* The outbox.  An open transaction has a number above those of its row's events. *)
Numbered ==
    /\ \A e \in outbox : e.seq < nextSeq /\ e.version <= rows[e.of].version
    /\ \A p \in Processes : work[p].step = "commit" =>
          /\ work[p].seq < nextSeq
          /\ \A e \in EventsOf(work[p].of) : e.seq < work[p].seq

LEMMA NumberedStep ==
    ASSUME Consistent, Numbered, EventsFollowVersions, [Next]_vars
    PROVE  Numbered' /\ EventsFollowVersions'
<1> USE DEF Numbered, EventsFollowVersions
<1>t. /\ nextSeq \in Nat
      /\ \A e \in outbox : e.seq \in Nat /\ e.version \in Nat /\ e.of \in Changes
      /\ \A q \in Processes : work[q].step # "idle" => work[q] \in ActiveWork /\ work[q].seq \in Nat
  BY AtWork DEF Consistent, TypeOK, ActiveWork
<1>1. CASE Quiet
  BY <1>1 DEF Quiet, EventsOf
<1>2. ASSUME NEW p \in Processes, NEW c \in Changes, Creates(p, c)
      PROVE  Numbered' /\ EventsFollowVersions'
  BY <1>2, <1>t DEF Creates, EventsOf
<1>3. ASSUME NEW p \in Processes, Reads(p)
      PROVE  Numbered' /\ EventsFollowVersions'
  BY <1>3 DEF Reads, EventsOf
<1>4. ASSUME NEW p \in Processes, Locks(p)
      PROVE  Numbered' /\ EventsFollowVersions'
  BY <1>4, <1>t DEF Locks, EventsOf
<1>5. ASSUME NEW p \in Processes, NEW w \in ActiveWork, Commits(p, w)
      PROVE  Numbered' /\ EventsFollowVersions'
  <2>1. PICK n : n = OutboxEvent(w)
    OBVIOUS
  <2>2. /\ outbox' = outbox \union {n} /\ nextSeq' = nextSeq /\ work[p] = w /\ w.step = "commit"
        /\ w.current = rows[w.of]
    BY <1>5, <2>1 DEF Commits
  <2>3. n.of = w.of /\ n.seq = w.seq /\ n.version = rows[w.of].version + 1
    BY <2>1, <2>2 DEF OutboxEvent
  <2>4. /\ rows'[w.of].version = rows[w.of].version + 1 /\ rows[w.of].version \in Nat
        /\ \A c \in Changes : c # w.of => rows'[c] = rows[c]
    BY <1>5, CommittedRow DEF Consistent
  <2>5. w.seq < nextSeq /\ w.seq \in Nat /\ \A e \in outbox : e.of = w.of => e.seq < w.seq
    BY <1>t, <2>2 DEF EventsOf
  <2>6. \A e \in outbox' : e.seq < nextSeq' /\ e.version <= rows'[e.of].version
    <3>1. ASSUME NEW e \in outbox PROVE e.version <= rows'[e.of].version
      BY <1>t, <2>4
    <3>2. QED
      BY <2>2, <2>3, <2>4, <2>5, <3>1
  <2>7. ASSUME NEW q \in Processes, work'[q].step = "commit"
        PROVE  work'[q].seq < nextSeq' /\ \A e \in EventsOf(work[q].of)' : e.seq < work'[q].seq
    <3>1. work'[q] = work[q] /\ work[q].of # w.of
      BY <1>5, <2>7 DEF Commits
    <3>2. EventsOf(work[q].of)' = EventsOf(work[q].of)
      BY <2>2, <2>3, <3>1 DEF EventsOf
    <3>3. QED
      BY <2>2, <2>7, <3>1, <3>2
  <2>8. ASSUME NEW e \in outbox', NEW f \in outbox', e.of = f.of, e.seq < f.seq
        PROVE  e.version < f.version
    <3>1. CASE e \in outbox /\ f \in outbox
      BY <2>8, <3>1
    <3>2. CASE e = n /\ f \in outbox
      BY <1>t, <2>3, <2>5, <2>8, <3>2
    <3>3. CASE e \in outbox /\ f = n
      BY <1>t, <2>3, <2>4, <2>8, <3>3
    <3>4. CASE e = n /\ f = n
      BY <2>3, <2>5, <2>8, <3>4
    <3>5. QED
      BY <2>2, <3>1, <3>2, <3>3, <3>4
  <2>9. QED
    BY <2>6, <2>7, <2>8
<1>6. QED
  BY <1>1, <1>2, <1>3, <1>4, <1>5, StepKinds

\* The events of a change are numbered in the order of its versions, though a number is taken
\* before its transaction commits and is lost with it (event_outbox.seq, postgres.py).
THEOREM EventsAreInOrder == Spec => []EventsFollowVersions
<1>1. Init => Numbered /\ EventsFollowVersions
  <2>1. Init => outbox = {} /\ \A p \in Processes : work[p].step = "idle"
    BY Constants DEF Init
  <2>2. QED
    BY <2>1 DEF Numbered, EventsFollowVersions, EventsOf
<1>2. Consistent /\ Numbered /\ EventsFollowVersions /\ [Next]_vars => (Numbered /\ EventsFollowVersions)'
  BY NumberedStep
<1>3. QED
  BY <1>1, <1>2, AlwaysConsistent, PTL DEF Spec

-----------------------------------------------------------------------------
(* The attempts.  Whoever is at its n-th attempt has met n - 1 writes of others after the one that *)
(* created the change.                                                                             *)
Overtaken ==
    \A p \in Processes :
        /\ work[p].step = "find" /\ work[p].tries > 0
              => rows[work[p].of].version > work[p].tries
        /\ work[p].step = "update" => work[p].current.version > work[p].tries

LEMMA RowsOnlyGrow ==
    ASSUME Consistent, [Next]_vars, NEW c \in Changes
    PROVE  rows'[c].version >= rows[c].version /\ rows'[c].version \in Nat /\ rows[c].version \in Nat
<1>1. rows[c].version \in Nat
  BY DEF Consistent, TypeOK, Rows
<1>2. CASE UNCHANGED rows
  BY <1>1, <1>2
<1>3. ASSUME NEW p \in Processes, NEW w \in ActiveWork, Commits(p, w)
      PROVE  rows'[c].version >= rows[c].version /\ rows'[c].version \in Nat
  <2>1. /\ rows'[w.of].version = rows[w.of].version + 1
        /\ \A d \in Changes : d # w.of => rows'[d] = rows[d]
    BY <1>3, CommittedRow DEF Consistent
  <2>2. CASE c = w.of
    BY <1>1, <2>1, <2>2
  <2>3. CASE c # w.of
    BY <1>1, <2>1, <2>3
  <2>4. QED
    BY <2>2, <2>3
<1>4. QED
  BY <1>1, <1>2, <1>3, StepKinds DEF Quiet, Creates, Reads, Locks

LEMMA OvertakenStep ==
    ASSUME Consistent, Overtaken, GivesUpOnlyWhenOvertaken, [Next]_vars
    PROVE  Overtaken' /\ GivesUpOnlyWhenOvertaken'
<1> DEFINE Kept(q) == \/ work'[q] = work[q]
                      \/ work'[q].step \in {"idle", "commit"}
                      \/ work'[q].step = "find" /\ work'[q].tries = 0
<1>g. \A c \in Changes : rows'[c].version >= rows[c].version /\ rows'[c].version \in Nat /\ rows[c].version \in Nat
  BY RowsOnlyGrow
<1>l. \A c \in Changes : rows[c].version = Len(rows[c].writes) /\ rows'[c].version = Len(rows'[c].writes)
  BY TypeStep DEF Consistent, TypeOK, Rows
<1>w. /\ MaxWriteAttempts \in Nat
      /\ work \in [Processes -> ActiveWork \union {NoWork}] /\ answer \in [Requests -> {"none", "busy", "done", "refused", "conflict", "unknown"}]
      /\ \A q \in Processes : work[q].step # "idle" => /\ work[q] \in ActiveWork
                                                       /\ work[q].tries \in Nat /\ work[q].of \in Changes
                                                       /\ work[q].current.version \in Nat
  BY AtWork, StoreAssumption DEF Consistent, TypeOK, ActiveWork, Rows
<1>k. ASSUME NEW q \in Processes, Kept(q)
      PROVE  /\ work'[q].step = "find" /\ work'[q].tries > 0 => rows'[work'[q].of].version > work'[q].tries
             /\ work'[q].step = "update" => work'[q].current.version > work'[q].tries
  BY <1>g, <1>k, <1>w DEF Overtaken
<1> HIDE DEF Kept
<1>a. ASSUME \A r \in Requests : answer'[r] # "conflict" \/ answer'[r] = answer[r]
      PROVE  GivesUpOnlyWhenOvertaken'
  BY <1>a, <1>g, <1>l, <1>w DEF GivesUpOnlyWhenOvertaken
<1>n. ASSUME NEW p \in Processes, NEW a \in {"done", "refused", "unknown"}, Answer(p, a)
      PROVE  Overtaken' /\ GivesUpOnlyWhenOvertaken'
  <2>1. \A q \in Processes : Kept(q)
    BY <1>n, <1>w, Constants DEF Answer, Kept
  <2>2. \A r \in Requests : answer'[r] # "conflict" \/ answer'[r] = answer[r]
    BY <1>n, <1>w DEF Answer
  <2>3. QED
    BY <1>a, <1>k, <2>1, <2>2 DEF Overtaken
<1>1. ASSUME NEW p \in Processes, NEW r \in Requests, NEW c, NEW to, NEW step \in {"find", "commit"}, NEW stamp, NEW seq,
             Lock(p, step, r, c, to, stamp, seq)
      PROVE  Overtaken' /\ GivesUpOnlyWhenOvertaken'
  <2>1. \A q \in Processes : Kept(q)
    BY <1>1, <1>w DEF Lock, Kept
  <2>2. \A s \in Requests : answer'[s] # "conflict" \/ answer'[s] = answer[s]
    BY <1>1, <1>w DEF Lock
  <2>3. QED
    BY <1>a, <1>k, <2>1, <2>2 DEF Overtaken
<1>2. ASSUME NEW p \in Processes, Find(p)
      PROVE  Overtaken' /\ GivesUpOnlyWhenOvertaken'
  <2>1. work' = [work EXCEPT ![p] = [work[p] EXCEPT !.step = "update", !.current = rows[work[p].of], !.stamp = clock]]
    BY <1>2 DEF Find
  <2>2. work[p] \in ActiveWork /\ work[p].step = "find" /\ UNCHANGED answer /\ rows[work[p].of] # NoRow
    BY <1>2, <1>w DEF Find, MayApply
  <2>3. /\ work'[p].step = "update" /\ work'[p].current = rows[work[p].of] /\ work'[p].tries = work[p].tries
        /\ \A q \in Processes \ {p} : work'[q] = work[q]
    BY <1>w, <2>1, <2>2 DEF ActiveWork
  <2>4. rows[work[p].of].version > work[p].tries
    <3>1. CASE work[p].tries = 0
      <4>1. rows[work[p].of] \in Rows
        BY <1>w, <2>2 DEF Consistent, TypeOK
      <4>2. Len(rows[work[p].of].writes) \in Nat \ {0} /\ rows[work[p].of].version = Len(rows[work[p].of].writes)
        BY <2>2, <4>1, StateType DEF Rows
      <4>3. QED
        BY <3>1, <4>2
    <3>2. CASE work[p].tries # 0
      BY <1>w, <2>2, <3>2 DEF Overtaken
    <3>3. QED
      BY <3>1, <3>2
  <2>5. \A q \in Processes \ {p} : Kept(q)
    BY <2>3 DEF Kept
  <2>6. QED
    BY <1>a, <1>k, <2>2, <2>3, <2>4, <2>5 DEF Overtaken
<1>3. ASSUME NEW p \in Processes, Update(p)
      PROVE  Overtaken' /\ GivesUpOnlyWhenOvertaken'
  <2>1. work' = [work EXCEPT ![p] = [work[p] EXCEPT !.step = "commit", !.seq = nextSeq]] /\ UNCHANGED answer
    BY <1>3 DEF Update
  <2>2. \A q \in Processes : Kept(q)
    BY <1>3, <1>w, <2>1 DEF Update, Kept, ActiveWork
  <2>3. QED
    BY <1>a, <1>k, <2>1, <2>2 DEF Overtaken
<1>4. ASSUME NEW p \in Processes, Conflict(p)
      PROVE  Overtaken' /\ GivesUpOnlyWhenOvertaken'
  <2>1. work[p] \in ActiveWork /\ work[p].step = "update" /\ work[p].of \in Changes /\ UNCHANGED rows
    BY <1>4, <1>w DEF Conflict
  <2>2. rows[work[p].of].version > work[p].tries + 1
    <3>1. work[p].current.version <= rows[work[p].of].version /\ work[p].current.version # rows[work[p].of].version
      BY <1>4, <2>1 DEF Conflict, Unchanged, Consistent, ReadsAreVersions
    <3>2. work[p].current.version > work[p].tries
      BY <2>1 DEF Overtaken
    <3>3. QED
      BY <1>g, <1>w, <2>1, <3>1, <3>2
  <2>3. CASE work[p].tries + 1 < MaxWriteAttempts
    <3>1. work' = [work EXCEPT ![p] = [work[p] EXCEPT !.step = "find", !.tries = @ + 1]] /\ UNCHANGED answer
      BY <1>4, <2>3 DEF Conflict
    <3>2. /\ work'[p].step = "find" /\ work'[p].tries = work[p].tries + 1 /\ work'[p].of = work[p].of
          /\ \A q \in Processes \ {p} : work'[q] = work[q]
      BY <1>w, <2>1, <3>1 DEF ActiveWork
    <3>3. \A q \in Processes \ {p} : Kept(q)
      BY <3>2 DEF Kept
    <3>4. QED
      BY <1>a, <1>k, <2>1, <2>2, <3>1, <3>2, <3>3 DEF Overtaken
  <2>4. CASE ~ (work[p].tries + 1 < MaxWriteAttempts)
    <3>1. Answer(p, "conflict")
      BY <1>4, <2>4 DEF Conflict
    <3>2. \A q \in Processes : Kept(q)
      BY <1>w, <3>1, Constants DEF Answer, Kept
    <3>3. Len(rows'[work[p].of].writes) > MaxWriteAttempts
      BY <1>g, <1>l, <1>w, <2>1, <2>2, <2>4
    <3>4. QED
      BY <1>k, <2>1, <3>2, <3>3 DEF Overtaken, GivesUpOnlyWhenOvertaken
  <2>5. QED
    BY <2>3, <2>4
<1>5. ASSUME NEW p \in Processes, Refuse(p) \/ Commit(p) \/ Break(p)
      PROVE  Overtaken' /\ GivesUpOnlyWhenOvertaken'
  BY <1>5, <1>n DEF Refuse, Commit, Break
<1>6. CASE UNCHANGED vars
  <2>1. \A q \in Processes : Kept(q)
    BY <1>6 DEF vars, Kept
  <2>2. QED
    BY <1>6, <1>a, <1>k, <2>1 DEF vars, Overtaken
<1>7. QED
  BY <1>1, <1>2, <1>3, <1>4, <1>5, <1>6 DEF Next, Step, CreateChange, Mutate

\* A request is told to try again only if every one of its attempts was overtaken, however many
\* processes share the table (ConcurrentModificationError, change_control.py).
THEOREM GivingUpIsJustified == Spec => []GivesUpOnlyWhenOvertaken
<1>1. Init => Overtaken /\ GivesUpOnlyWhenOvertaken
  <2>1. Init => (\A p \in Processes : work[p].step = "idle") /\ \A r \in Requests : answer[r] = "none"
    BY Constants DEF Init
  <2>2. QED
    BY <2>1 DEF Overtaken, GivesUpOnlyWhenOvertaken
<1>2. Consistent /\ Overtaken /\ GivesUpOnlyWhenOvertaken /\ [Next]_vars => (Overtaken /\ GivesUpOnlyWhenOvertaken)'
  BY OvertakenStep
<1>3. QED
  BY <1>1, <1>2, AlwaysConsistent, PTL DEF Spec

=============================================================================
