-------------------------- MODULE AlertIntakeProofs --------------------------
(***************************************************************************)
(* Theorems about AlertIntake, for any number of alerts, callers of a      *)
(* cycle, failed writes and restarts: no alert is forgotten between the    *)
(* two files, and the scheduler opens one change per service.              *)
(***************************************************************************)
EXTENDS AlertIntake, SequenceTheorems, TLAPS

States == {"none", "pending_approval"} \union ClosedStates
Records == [st : States, service : Services \union {None}, first : Ids \union {None},
            related : SUBSET Ids, fresh : BOOLEAN]
Batches == {b \in Seq([id : Ids, service : Services]) : Len(b) <= Limit}
Positions == {"idle", "next", "correlate", "attach", "file", "create", "mark"}
Cycles == [at : Positions,
           batch : Batches, of : {0} \union Refs]

\* The types, and what a position of a cycle says of the rest: beyond "next" there is an alert in
\* hand, and at "attach" the change it was found for.
Typed ==
    /\ seen \in [mem : SUBSET Ids, file : SUBSET Ids]
    /\ lock \in Cyclers \union {None}
    /\ cycle \in [Cyclers -> Cycles]
    /\ changes \in [mem : [Refs -> Records], file : [Refs -> Records]]
    /\ faults \in [writes : 0 .. MaxFailures, restarts : 0 .. MaxRestarts]
    /\ \A k \in Cyclers :
        /\ cycle[k].at \notin {"idle", "next"} => cycle[k].batch # <<>>
        /\ cycle[k].at = "attach" => cycle[k].of \in Refs

\* A record on file is an earlier one of the record in memory: a refused write leaves it behind.
Behind(old, new) ==
    \/ old = NoChange
    \/ /\ old.st = new.st /\ old.service = new.service /\ old.first = new.first
       /\ old.related \subseteq new.related
       /\ old.fresh => new.fresh

FileBehind == \A i \in Refs : Behind(changes.file[i], changes.mem[i])

\* A change opened by the scheduler, unapproved and inside the window.
Open(r) == r.first # None /\ r.fresh /\ r.st = "pending_approval"

OnePerService ==
    Window => \A i, j \in Refs : Open(changes.mem[i]) /\ Open(changes.mem[j])
                                 /\ changes.mem[i].service = changes.mem[j].service => i = j

\* What correlation found out is still so when the cycle acts on it: a change opened or touched
\* meanwhile was not opened by the scheduler, whose lock the cycle holds.
StillSo ==
    \A k \in Cyclers :
        /\ cycle[k].at # "idle" => lock = k
        /\ Window /\ cycle[k].at \in {"file", "create"} =>
              \A i \in Refs : Open(changes.mem[i]) => changes.mem[i].service # InHand(k).service
        /\ cycle[k].at = "attach" =>
              LET found == changes.mem[cycle[k].of] IN
              found.first # None /\ found.st = "pending_approval" =>
                  \A j \in Refs : Open(changes.mem[j]) /\ changes.mem[j].service = found.service
                                  => j = cycle[k].of

\* An id is carried by a change of a copy of the store.
Carried(copy, id) == \E i \in Refs : id = copy[i].first \/ id \in copy[i].related

\* What is remembered as handled, in memory or on file, or about to be, is on file.
Remembered ==
    /\ \A id \in seen.mem \union seen.file : Carried(changes.file, id)
    /\ \A k \in Cyclers : cycle[k].at = "mark" => Carried(changes.file, InHand(k).id)

-----------------------------------------------------------------------------
(* Types. *)
LEMMA HandHeld ==
    ASSUME Typed, NEW k \in Cyclers, cycle[k].batch # <<>>
    PROVE  InHand(k) \in [id : Ids, service : Services] /\ Tail(cycle[k].batch) \in Batches
<1>1. cycle[k].batch \in Seq([id : Ids, service : Services]) /\ Len(cycle[k].batch) <= Limit
  BY DEF Typed, Cycles, Batches
<1>2. /\ Head(cycle[k].batch) \in [id : Ids, service : Services]
      /\ Tail(cycle[k].batch) \in Seq([id : Ids, service : Services])
      /\ Len(Tail(cycle[k].batch)) = Len(cycle[k].batch) - 1
      /\ Len(cycle[k].batch) \in Nat
  BY <1>1, HeadTailProperties, LenProperties
<1>3. QED
  BY <1>1, <1>2, IntakeAssumption DEF InHand, Batches

LEMMA EmptyBatch == Idle \in Cycles /\ <<>> \in Batches
<1>1. <<>> \in Batches
  BY EmptySeq, IntakeAssumption DEF Batches
<1>2. QED
  BY <1>1 DEF Idle, Cycles, Positions

LEMMA SequenceOf ==
    ASSUME NEW S, NEW n \in Nat, NEW f \in [1 .. n -> S]
    PROVE  f \in Seq(S)
  BY SeqDef

LEMMA FetchedBatch ==
    ASSUME NEW answer \in Answers
    PROVE  Batch(answer) \in Batches
<1>1. PICK n \in 1 .. Limit : answer \in [1 .. n -> Alerts]
  BY DEF Answers
<1>2. n \in Nat /\ n <= Limit /\ DOMAIN answer = 1 .. n /\ \A m \in 1 .. n : answer[m] \in Alerts
  BY <1>1, IntakeAssumption
<1>3. \A m \in 1 .. n : IdAt(answer, m) \in Ids /\ ServiceOf[answer[m]] \in Services
  <2>1. SUFFICES ASSUME NEW m \in 1 .. n PROVE IdAt(answer, m) \in Ids /\ ServiceOf[answer[m]] \in Services
    OBVIOUS
  <2>2. m \in 1 .. Limit
    BY <1>2, IntakeAssumption
  <2>3. IdAt(answer, m) \in Ids
    BY <2>2 DEF IdAt, Ids
  <2>4. QED
    BY <1>2, <2>3 DEF Services
<1>4. Batch(answer) \in [1 .. n -> [id : Ids, service : Services]]
  BY <1>2, <1>3 DEF Batch
<1>5. Batch(answer) \in Seq([id : Ids, service : Services]) /\ DOMAIN Batch(answer) = 1 .. n
  BY <1>2, <1>4, SequenceOf
<1>6. Len(Batch(answer)) = n
  BY <1>2, <1>5, LenProperties
<1>7. QED
  BY <1>2, <1>5, <1>6 DEF Batches

\* How a cycle moves: only its own position changes.
Moves(k, at, batch, of) ==
    /\ cycle' \in [Cyclers -> Cycles]
    /\ cycle'[k].at = at /\ cycle'[k].batch = batch /\ cycle'[k].of = of
    /\ \A h \in Cyclers : h # k => cycle'[h] = cycle[h]

LEMMA CycleGoes ==
    ASSUME Typed, NEW k \in Cyclers, NEW at \in Positions, Goes(k, at)
    PROVE  Moves(k, at, cycle[k].batch, cycle[k].of)
  BY DEF Typed, Cycles, Goes, Moves, Positions

LEMMA CycleGoesFor ==
    ASSUME Typed, NEW k \in Cyclers, NEW at \in Positions, NEW of \in {0} \union Refs,
           cycle' = [cycle EXCEPT ![k].at = at, ![k].of = of]
    PROVE  Moves(k, at, cycle[k].batch, of)
  BY DEF Typed, Cycles, Moves, Positions

LEMMA CycleStarts ==
    ASSUME Typed, NEW k \in Cyclers, NEW batch \in Batches,
           cycle' = [cycle EXCEPT ![k].at = "next", ![k].batch = batch]
    PROVE  Moves(k, "next", batch, cycle[k].of)
  BY DEF Typed, Cycles, Moves, Positions

LEMMA CycleTakesNext ==
    ASSUME Typed, NEW k \in Cyclers, cycle[k].batch # <<>>, NextAlert(k)
    PROVE  Moves(k, "next", Tail(cycle[k].batch), 0)
<1>1. Tail(cycle[k].batch) \in Batches
  BY HandHeld
<1> DEFINE c == [Idle EXCEPT !.at = "next", !.batch = Tail(cycle[k].batch)]
<1>2. c \in Cycles /\ c.at = "next" /\ c.batch = Tail(cycle[k].batch) /\ c.of = 0
  BY <1>1 DEF Idle, Cycles, Positions
<1>3. cycle' = [cycle EXCEPT ![k] = c] /\ cycle \in [Cyclers -> Cycles]
  BY DEF NextAlert, Typed
<1> HIDE DEF c
<1>4. QED
  BY <1>2, <1>3 DEF Moves

\* A move to a well-formed position.
LEMMA CycleTyped ==
    ASSUME Typed, NEW k \in Cyclers, NEW at, NEW batch, NEW of, Moves(k, at, batch, of),
           at \notin {"idle", "next"} => batch # <<>>, at = "attach" => of \in Refs
    PROVE  /\ cycle' \in [Cyclers -> Cycles]
           /\ \A h \in Cyclers : /\ cycle'[h].at \notin {"idle", "next"} => cycle'[h].batch # <<>>
                                 /\ cycle'[h].at = "attach" => cycle'[h].of \in Refs
  BY DEF Typed, Moves

LEMMA WriteTyped ==
    ASSUME Typed, NEW mem \in [Refs -> Records], Writes(mem) \/ WriteRefused(mem)
    PROVE  /\ changes' \in [mem : [Refs -> Records], file : [Refs -> Records]]
           /\ faults' \in [writes : 0 .. MaxFailures, restarts : 0 .. MaxRestarts]
  BY IntakeAssumption DEF Typed, Writes, WriteRefused, WriteFails

LEMMA AttachedGrows ==
    ASSUME NEW r \in Records, NEW id \in Ids
    PROVE  LET a == Attached(r, id) IN
           /\ a \in Records /\ a.st = r.st /\ a.service = r.service /\ a.first = r.first
           /\ r.related \subseteq a.related /\ id \in a.related /\ (r.fresh => a.fresh)
  BY DEF Records, Attached

LEMMA OpenedTyped ==
    ASSUME NEW service \in Services, NEW id \in Ids \union {None}
    PROVE  Opened(service, id) \in Records
  BY DEF Opened, Records, States

\* A change that falls out of the window.
LEMMA Stale ==
    ASSUME NEW copy \in [Refs -> Records], NEW i \in Refs, NEW new, new = [copy EXCEPT ![i].fresh = FALSE]
    PROVE  /\ new \in [Refs -> Records]
           /\ \A j \in Refs : j # i => new[j] = copy[j]
           /\ new[i].st = copy[i].st /\ new[i].service = copy[i].service /\ new[i].first = copy[i].first
           /\ new[i].related = copy[i].related /\ ~new[i].fresh
           /\ copy[i] = NoChange => new[i] = NoChange
<1> DEFINE r == [copy[i] EXCEPT !.fresh = FALSE]
<1>1. r \in Records /\ r.st = copy[i].st /\ r.service = copy[i].service /\ r.first = copy[i].first
      /\ r.related = copy[i].related /\ r.fresh = FALSE
  BY DEF Records
<1>2. new = [copy EXCEPT ![i] = r]
  OBVIOUS
<1> HIDE DEF r
<1>3. copy[i] = NoChange => r = NoChange
  <2>1. r = [st |-> r.st, service |-> r.service, first |-> r.first, related |-> r.related, fresh |-> r.fresh]
    BY <1>1 DEF Records
  <2>2. QED
    BY <1>1, <2>1 DEF NoChange
<1>4. QED
  BY <1>1, <1>2, <1>3

\* A change that a person ends.
LEMMA Closed ==
    ASSUME NEW copy \in [Refs -> Records], NEW i \in Refs, NEW to \in States,
           NEW new, new = [copy EXCEPT ![i].st = to]
    PROVE  /\ new \in [Refs -> Records]
           /\ \A j \in Refs : j # i => new[j] = copy[j]
           /\ new[i].st = to /\ new[i].first = copy[i].first /\ new[i].related = copy[i].related
<1> DEFINE r == [copy[i] EXCEPT !.st = to]
<1>1. r \in Records /\ r.st = to /\ r.first = copy[i].first /\ r.related = copy[i].related
  BY DEF Records
<1>2. new = [copy EXCEPT ![i] = r]
  OBVIOUS
<1> HIDE DEF r
<1>3. QED
  BY <1>1, <1>2

LEMMA TypedStep ==
    ASSUME Typed, [Next]_vars
    PROVE  Typed'
<1>1. ASSUME NEW k \in Cyclers, NEW answer \in Answers, Fetch(k, answer)
      PROVE  Typed'
  <2>1. Moves(k, "next", Batch(answer), cycle[k].of)
    BY <1>1, FetchedBatch, CycleStarts DEF Fetch
  <2>2. QED
    BY <1>1, <2>1, CycleTyped DEF Fetch, Typed
<1>2. ASSUME NEW k \in Cyclers, NEW at \in {"idle", "next", "correlate", "file", "create", "mark"},
             cycle[k].batch # <<>> \/ at = "idle", Goes(k, at)
      PROVE  /\ cycle' \in [Cyclers -> Cycles]
             /\ \A h \in Cyclers : /\ cycle'[h].at \notin {"idle", "next"} => cycle'[h].batch # <<>>
                                   /\ cycle'[h].at = "attach" => cycle'[h].of \in Refs
  BY <1>2, CycleGoes, CycleTyped DEF Positions
<1>3. ASSUME NEW k \in Cyclers, cycle[k].batch # <<>>, NextAlert(k)
      PROVE  /\ cycle' \in [Cyclers -> Cycles]
             /\ \A h \in Cyclers : /\ cycle'[h].at \notin {"idle", "next"} => cycle'[h].batch # <<>>
                                   /\ cycle'[h].at = "attach" => cycle'[h].of \in Refs
  BY <1>3, CycleTakesNext, CycleTyped
<1>4. ASSUME NEW k \in Cyclers, Handle(k)
      PROVE  Typed'
  <2>1. CASE EndCycle(k)
    BY <1>2, <2>1 DEF EndCycle, Typed
  <2>2. CASE Deduplicate(k)
    BY <1>2, <1>3, <2>2 DEF Deduplicate, Typed
  <2>3. CASE FindOpenChange(k)
    <3>1. cycle[k].at = "correlate" /\ cycle[k].batch # <<>> /\ UNCHANGED <<seen, lock, changes, faults>>
      BY <2>3 DEF FindOpenChange, Typed
    <3>2. CASE Goes(k, "file")
      BY <1>2, <3>1, <3>2 DEF Typed
    <3>3. ASSUME NEW i \in OpenChanges(InHand(k).service),
                 cycle' = [cycle EXCEPT ![k].at = "attach", ![k].of = i]
          PROVE  Typed'
      <4>1. i \in Refs
        BY DEF OpenChanges
      <4>2. Moves(k, "attach", cycle[k].batch, i)
        BY <3>3, <4>1, CycleGoesFor DEF Positions
      <4>3. QED
        BY <3>1, <4>1, <4>2, CycleTyped DEF Typed
    <3>4. QED
      BY <2>3, <3>2, <3>3 DEF FindOpenChange
  <2>4. CASE Attach(k)
    <3> DEFINE mem == [changes.mem EXCEPT ![cycle[k].of] = Attached(@, InHand(k).id)]
    <3>1. cycle[k].batch # <<>> /\ cycle[k].of \in Refs /\ UNCHANGED <<seen, lock>>
      BY <2>4 DEF Attach, Typed
    <3>2. mem \in [Refs -> Records]
      BY <3>1, HandHeld, AttachedGrows DEF Typed
    <3>3. \/ Writes(mem) /\ cycle' = [cycle EXCEPT ![k].at = "mark", ![k].of = 0]
          \/ WriteRefused(mem) /\ NextAlert(k)
      BY <2>4 DEF Attach
    <3> HIDE DEF mem
    <3>4. CASE cycle' = [cycle EXCEPT ![k].at = "mark", ![k].of = 0]
      <4>1. Moves(k, "mark", cycle[k].batch, 0)
        BY <3>4, CycleGoesFor DEF Positions
      <4>2. QED
        BY <3>1, <3>2, <3>3, <4>1, CycleTyped, WriteTyped DEF Typed
    <3>5. CASE NextAlert(k)
      BY <1>3, <3>1, <3>2, <3>3, <3>5, WriteTyped DEF Typed
    <3>6. QED
      BY <3>3, <3>4, <3>5
  <2>5. CASE Mark(k)
    <3>1. cycle[k].batch # <<>> /\ UNCHANGED <<lock, changes>> /\ NextAlert(k)
      BY <2>5 DEF Mark, Typed
    <3>2. seen' \in [mem : SUBSET Ids, file : SUBSET Ids]
      BY <2>5, <3>1, HandHeld DEF Mark, Typed
    <3>3. faults' \in [writes : 0 .. MaxFailures, restarts : 0 .. MaxRestarts]
      BY <2>5, IntakeAssumption DEF Mark, WriteFails, Typed
    <3>4. QED
      BY <1>3, <3>1, <3>2, <3>3 DEF Typed
  <2>6. CASE FileIncident(k)
    <3>1. cycle[k].batch # <<>> /\ UNCHANGED <<seen, lock, changes>>
      BY <2>6 DEF FileIncident, Typed
    <3>2. faults' \in [writes : 0 .. MaxFailures, restarts : 0 .. MaxRestarts]
      BY <2>6, IntakeAssumption DEF FileIncident, WriteFails, Typed
    <3>3. QED
      BY <1>2, <1>3, <2>6, <3>1, <3>2 DEF FileIncident, Typed
  <2>7. CASE CreateChange(k)
    <3>1. cycle[k].batch # <<>> /\ UNCHANGED <<seen, lock>>
      BY <2>7 DEF CreateChange, Typed
    <3>2. PICK i \in Refs :
              LET mem == [changes.mem EXCEPT ![i] = Opened(InHand(k).service, InHand(k).id)] IN
              \/ Writes(mem) /\ Goes(k, "mark")
              \/ WriteRefused(mem) /\ NextAlert(k)
      BY <2>7 DEF CreateChange
    <3>3. [changes.mem EXCEPT ![i] = Opened(InHand(k).service, InHand(k).id)] \in [Refs -> Records]
      BY <3>1, HandHeld, OpenedTyped DEF Typed
    <3>4. QED
      BY <1>2, <1>3, <3>1, <3>2, <3>3, WriteTyped DEF Typed
  <2>8. QED
    BY <1>4, <2>1, <2>2, <2>3, <2>4, <2>5, <2>6, <2>7 DEF Handle
<1>5. ASSUME NEW service \in Services, Post(service)
      PROVE  Typed'
  <2>1. PICK i \in Refs : LET mem == [changes.mem EXCEPT ![i] = Opened(service, None)] IN
                          Writes(mem) \/ WriteRefused(mem)
    BY <1>5 DEF Post
  <2>2. [changes.mem EXCEPT ![i] = Opened(service, None)] \in [Refs -> Records]
    BY OpenedTyped DEF Typed
  <2>3. QED
    BY <1>5, <2>1, <2>2, WriteTyped DEF Post, Typed
<1>6. ASSUME NEW i \in Refs, NEW to \in ClosedStates, PersonEnds(i, to)
      PROVE  Typed'
  <2>1. [changes.mem EXCEPT ![i].st = to] \in [Refs -> Records]
    BY Closed DEF Typed, States
  <2>2. QED
    BY <1>6, <2>1, WriteTyped DEF PersonEnds, Typed
<1>7. ASSUME NEW i \in Refs, WindowPasses(i)
      PROVE  Typed'
  <2>1. /\ [changes.mem EXCEPT ![i].fresh = FALSE] \in [Refs -> Records]
        /\ [changes.file EXCEPT ![i].fresh = FALSE] \in [Refs -> Records]
    BY Stale DEF Typed
  <2>2. QED
    BY <1>7, <2>1 DEF WindowPasses, Typed
<1>8. CASE Restart
  <2>1. cycle' \in [Cyclers -> Cycles] /\ \A k \in Cyclers : cycle'[k].at = "idle"
    BY <1>8, EmptyBatch DEF Restart, Idle
  <2>2. QED
    BY <1>8, <2>1, IntakeAssumption DEF Restart, Typed
<1>9. CASE UNCHANGED vars
  BY <1>9 DEF vars, Typed
<1>10. QED
  BY <1>1, <1>4, <1>5, <1>6, <1>7, <1>8, <1>9 DEF Next

-----------------------------------------------------------------------------
(* The store and its file. *)

\* A copy that keeps what an earlier one carries.
Keeps(old, new) ==
    \A i \in Refs : /\ old[i].first # None => new[i].first = old[i].first
                    /\ old[i].related \subseteq new[i].related

LEMMA CarriedOn ==
    ASSUME NEW old, NEW new, Keeps(old, new), NEW id, id # None, Carried(old, id)
    PROVE  Carried(new, id)
  BY DEF Keeps, Carried

LEMMA BehindKeeps ==
    ASSUME NEW old \in [Refs -> Records], NEW new \in [Refs -> Records], \A i \in Refs : Behind(old[i], new[i])
    PROVE  Keeps(old, new)
  BY DEF Behind, Keeps, NoChange

LEMMA KeepsOn ==
    ASSUME NEW a, NEW b, NEW c, Keeps(a, b), Keeps(b, c)
    PROVE  Keeps(a, c)
  BY DEF Keeps

LEMMA Nothing ==
    ASSUME NEW old \in Records, Behind(old, NoChange)
    PROVE  old = NoChange
<1>1. CASE old # NoChange
  <2>1. /\ old.st = "none" /\ old.service = None /\ old.first = None /\ old.related = {} /\ old.fresh = FALSE
    BY <1>1 DEF Behind, NoChange, Records
  <2>2. old = [st |-> old.st, service |-> old.service, first |-> old.first,
               related |-> old.related, fresh |-> old.fresh]
    BY DEF Records
  <2>3. QED
    BY <2>1, <2>2 DEF NoChange
<1>2. QED
  BY <1>1

\* A write made, and a write refused by the disk.
LEMMA Written ==
    ASSUME Typed, FileBehind, NEW mem \in [Refs -> Records], Keeps(changes.mem, mem), Writes(mem)
    PROVE  FileBehind' /\ Keeps(changes.file, changes'.file)
<1>1. changes'.mem = mem /\ changes'.file = mem
  BY DEF Writes
<1>2. Keeps(changes.file, changes.mem)
  BY BehindKeeps DEF Typed, FileBehind
<1>3. QED
  BY <1>1, <1>2, KeepsOn DEF FileBehind, Behind

LEMMA Refused ==
    ASSUME Typed, NEW mem \in [Refs -> Records], WriteRefused(mem),
           \A i \in Refs : Behind(changes.file[i], mem[i])
    PROVE  FileBehind' /\ Keeps(changes.file, changes'.file)
<1>1. changes'.mem = mem /\ changes'.file = changes.file
  BY DEF WriteRefused, Typed
<1>2. QED
  BY <1>1 DEF FileBehind, Keeps

\* A change of its own, opened where there was none.
LEMMA OpenedBehind ==
    ASSUME Typed, FileBehind, NEW i \in Refs, Unused(i), NEW r \in Records,
           NEW mem, mem = [changes.mem EXCEPT ![i] = r]
    PROVE  Keeps(changes.mem, mem) /\ \A j \in Refs : Behind(changes.file[j], mem[j])
<1>1. changes.mem[i] = NoChange /\ changes.mem \in [Refs -> Records] /\ changes.file \in [Refs -> Records]
  BY DEF Unused, Typed
<1>2. changes.file[i] = NoChange
  BY <1>1, Nothing DEF FileBehind
<1>3. mem[i] = r /\ \A j \in Refs : j # i => mem[j] = changes.mem[j]
  BY <1>1
<1>4. Keeps(changes.mem, mem)
  BY <1>1, <1>3 DEF Keeps, NoChange
<1>5. \A j \in Refs : Behind(changes.file[j], mem[j])
  BY <1>2, <1>3 DEF FileBehind, Behind
<1>6. QED
  BY <1>4, <1>5

LEMMA AttachedBehind ==
    ASSUME Typed, FileBehind, NEW i \in Refs, NEW id \in Ids,
           NEW mem, mem = [changes.mem EXCEPT ![i] = Attached(@, id)]
    PROVE  Keeps(changes.mem, mem) /\ \A j \in Refs : Behind(changes.file[j], mem[j])
<1>1. changes.mem \in [Refs -> Records] /\ changes.mem[i] \in Records
  BY DEF Typed
<1>2. mem[i] = Attached(changes.mem[i], id) /\ \A j \in Refs : j # i => mem[j] = changes.mem[j]
  BY <1>1
<1> DEFINE a == Attached(changes.mem[i], id)
<1>3. /\ a.st = changes.mem[i].st /\ a.service = changes.mem[i].service /\ a.first = changes.mem[i].first
      /\ changes.mem[i].related \subseteq a.related /\ (changes.mem[i].fresh => a.fresh)
  BY <1>1, AttachedGrows
<1> HIDE DEF a
<1>4. mem[i] = a
  BY <1>2 DEF a
<1>5. Keeps(changes.mem, mem)
  BY <1>2, <1>3, <1>4 DEF Keeps
<1>6. \A j \in Refs : Behind(changes.file[j], mem[j])
  BY <1>2, <1>3, <1>4 DEF FileBehind, Behind
<1>7. QED
  BY <1>5, <1>6

LEMMA FileStep ==
    ASSUME Typed, FileBehind, [Next]_vars
    PROVE  FileBehind' /\ Keeps(changes.file, changes'.file)
<1>t. changes.mem \in [Refs -> Records] /\ changes.file \in [Refs -> Records]
  BY DEF Typed
<1>1. CASE UNCHANGED changes
  BY <1>1 DEF FileBehind, Keeps
<1>2. ASSUME NEW k \in Cyclers, Attach(k)
      PROVE  FileBehind' /\ Keeps(changes.file, changes'.file)
  <2> DEFINE mem == [changes.mem EXCEPT ![cycle[k].of] = Attached(@, InHand(k).id)]
  <2>1. cycle[k].of \in Refs /\ InHand(k).id \in Ids
    BY <1>2, HandHeld DEF Attach, Typed
  <2>2. mem \in [Refs -> Records]
    BY <1>t, <2>1, AttachedGrows
  <2>3. Writes(mem) \/ WriteRefused(mem)
    BY <1>2 DEF Attach
  <2>4. Keeps(changes.mem, mem) /\ \A j \in Refs : Behind(changes.file[j], mem[j])
    BY <2>1, AttachedBehind
  <2> HIDE DEF mem
  <2>5. QED
    BY <2>2, <2>3, <2>4, Written, Refused
<1>3. ASSUME NEW i \in Refs, Unused(i), NEW r \in Records,
             Writes([changes.mem EXCEPT ![i] = r]) \/ WriteRefused([changes.mem EXCEPT ![i] = r])
      PROVE  FileBehind' /\ Keeps(changes.file, changes'.file)
  <2> DEFINE mem == [changes.mem EXCEPT ![i] = r]
  <2>1. mem \in [Refs -> Records]
    BY <1>t
  <2>2. Keeps(changes.mem, mem) /\ \A j \in Refs : Behind(changes.file[j], mem[j])
    BY <1>3, OpenedBehind
  <2>3. Writes(mem) \/ WriteRefused(mem)
    BY <1>3
  <2> HIDE DEF mem
  <2>4. QED
    BY <2>1, <2>2, <2>3, Written, Refused
<1>4. ASSUME NEW k \in Cyclers, CreateChange(k)
      PROVE  FileBehind' /\ Keeps(changes.file, changes'.file)
  <2>1. Opened(InHand(k).service, InHand(k).id) \in Records
    BY <1>4, HandHeld, OpenedTyped DEF CreateChange, Typed
  <2>2. QED
    BY <1>3, <1>4, <2>1 DEF CreateChange
<1>5. ASSUME NEW service \in Services, Post(service)
      PROVE  FileBehind' /\ Keeps(changes.file, changes'.file)
  BY <1>3, <1>5, OpenedTyped DEF Post
<1>6. ASSUME NEW i \in Refs, NEW to \in ClosedStates, PersonEnds(i, to)
      PROVE  FileBehind' /\ Keeps(changes.file, changes'.file)
  <2> DEFINE mem == [changes.mem EXCEPT ![i].st = to]
  <2>1. mem \in [Refs -> Records] /\ Keeps(changes.mem, mem) /\ Writes(mem)
    BY <1>t, <1>6, Closed DEF PersonEnds, States, Keeps
  <2> HIDE DEF mem
  <2>2. QED
    BY <2>1, Written
<1>7. ASSUME NEW i \in Refs, WindowPasses(i)
      PROVE  FileBehind' /\ Keeps(changes.file, changes'.file)
  <2>1. /\ changes'.mem = [changes.mem EXCEPT ![i].fresh = FALSE]
        /\ changes'.file = [changes.file EXCEPT ![i].fresh = FALSE]
    BY <1>7 DEF WindowPasses
  <2>2. /\ \A j \in Refs : j # i => changes'.mem[j] = changes.mem[j] /\ changes'.file[j] = changes.file[j]
        /\ changes'.mem[i].st = changes.mem[i].st /\ changes'.file[i].st = changes.file[i].st
        /\ changes'.mem[i].service = changes.mem[i].service /\ changes'.file[i].service = changes.file[i].service
        /\ changes'.mem[i].first = changes.mem[i].first /\ changes'.file[i].first = changes.file[i].first
        /\ changes'.mem[i].related = changes.mem[i].related /\ changes'.file[i].related = changes.file[i].related
        /\ ~changes'.file[i].fresh /\ (changes.file[i] = NoChange => changes'.file[i] = NoChange)
    BY <1>t, <2>1, Stale
  <2>3. ASSUME NEW j \in Refs PROVE Behind(changes'.file[j], changes'.mem[j])
    <3>1. Behind(changes.file[j], changes.mem[j])
      BY DEF FileBehind
    <3>2. CASE j = i
      BY <2>2, <3>1, <3>2 DEF Behind
    <3>3. CASE j # i
      BY <2>2, <3>1, <3>3
    <3>4. QED
      BY <3>2, <3>3
  <2>4. FileBehind'
    BY <2>3 DEF FileBehind, Behind
  <2>5. Keeps(changes.file, changes'.file)
    BY <2>2 DEF Keeps
  <2>6. QED
    BY <2>4, <2>5
<1>8. CASE Restart
  <2>1. changes'.mem = changes.file /\ changes'.file = changes.file
    BY <1>8 DEF Restart, Typed
  <2>2. QED
    BY <2>1 DEF FileBehind, Behind, Keeps
<1>9. ASSUME NEW k \in Cyclers, Handle(k), ~Attach(k), ~CreateChange(k)
      PROVE  UNCHANGED changes
  BY <1>9 DEF Handle, EndCycle, Deduplicate, FindOpenChange, Mark, FileIncident
<1>10. QED
  BY <1>1, <1>2, <1>4, <1>5, <1>6, <1>7, <1>8, <1>9 DEF Next, Fetch, vars

-----------------------------------------------------------------------------
(* What is remembered. *)
LEMMA NoneIsNoId == None \notin Ids
  BY IntakeAssumption DEF Ids

LEMMA RememberedStep ==
    ASSUME Typed, FileBehind, Remembered, [Next]_vars
    PROVE  Remembered'
<1>k. Keeps(changes.file, changes'.file)
  BY FileStep
<1>c. ASSUME NEW id \in Ids, Carried(changes.file, id)
      PROVE  Carried(changes'.file, id)
  BY <1>k, <1>c, NoneIsNoId, CarriedOn
<1>i. ASSUME NEW k \in Cyclers, cycle[k].at = "mark"
      PROVE  InHand(k).id \in Ids /\ Carried(changes.file, InHand(k).id)
  BY <1>i, HandHeld DEF Remembered, Typed
<1>s. /\ seen.mem \union seen.file \subseteq Ids
      /\ \A id \in seen.mem \union seen.file : Carried(changes'.file, id)
  BY <1>c DEF Remembered, Typed
\* No cycle comes to the mark.
<1>1. ASSUME \A k \in Cyclers : cycle'[k].at = "mark" => cycle'[k] = cycle[k],
             seen'.mem \union seen'.file \subseteq seen.mem \union seen.file
      PROVE  Remembered'
  <2>1. \A id \in seen'.mem \union seen'.file : Carried(changes'.file, id)
    BY <1>1, <1>s
  <2>2. \A k \in Cyclers : cycle'[k].at = "mark" => Carried(changes'.file, InHand(k)'.id)
    BY <1>1, <1>i, <1>c DEF InHand
  <2>3. QED
    BY <2>1, <2>2 DEF Remembered, Carried
\* One cycle comes to the mark, and its alert is on file.
<1>2. ASSUME NEW k \in Cyclers, NEW of, Moves(k, "mark", cycle[k].batch, of), UNCHANGED seen,
             Carried(changes'.file, InHand(k).id)
      PROVE  Remembered'
  <2>1. InHand(k)' = InHand(k) /\ \A h \in Cyclers : h # k => cycle'[h] = cycle[h]
    BY <1>2 DEF Moves, InHand
  <2>2. \A h \in Cyclers : cycle'[h].at = "mark" => Carried(changes'.file, InHand(h)'.id)
    BY <1>2, <1>i, <1>c, <2>1 DEF InHand
  <2>3. QED
    BY <1>2, <1>s, <2>2 DEF Remembered, Carried
<1>3. ASSUME NEW k \in Cyclers, NEW at \in Positions \ {"mark"}, NEW batch, NEW of, Moves(k, at, batch, of)
      PROVE  \A h \in Cyclers : cycle'[h].at = "mark" => cycle'[h] = cycle[h]
  BY <1>3 DEF Moves
<1>4. ASSUME NEW k \in Cyclers, NEW answer \in Answers, Fetch(k, answer)
      PROVE  Remembered'
  <2>1. Moves(k, "next", Batch(answer), cycle[k].of) /\ UNCHANGED seen
    BY <1>4, FetchedBatch, CycleStarts DEF Fetch
  <2>2. QED
    BY <1>1, <1>3, <2>1 DEF Positions
<1>5. ASSUME NEW k \in Cyclers, Handle(k)
      PROVE  Remembered'
  <2>1. ASSUME NEW at \in Positions \ {"mark"}, Goes(k, at), UNCHANGED seen
        PROVE  Remembered'
    BY <1>1, <1>3, <2>1, CycleGoes
  <2>2. ASSUME cycle[k].batch # <<>>, NextAlert(k)
        PROVE  \A h \in Cyclers : cycle'[h].at = "mark" => cycle'[h] = cycle[h]
    <3>1. Moves(k, "next", Tail(cycle[k].batch), 0)
      BY <2>2, CycleTakesNext
    <3>2. QED
      BY <1>3, <3>1 DEF Positions
  <2>3. CASE EndCycle(k)
    BY <2>1, <2>3 DEF EndCycle, Positions
  <2>4. CASE Deduplicate(k)
    BY <1>1, <2>1, <2>2, <2>4 DEF Deduplicate, Positions
  <2>5. CASE FindOpenChange(k)
    <3>1. ASSUME NEW i \in Refs, cycle' = [cycle EXCEPT ![k].at = "attach", ![k].of = i]
          PROVE  \A h \in Cyclers : cycle'[h].at = "mark" => cycle'[h] = cycle[h]
      <4>1. Moves(k, "attach", cycle[k].batch, i)
        BY <3>1, CycleGoesFor DEF Positions
      <4>2. QED
        BY <1>3, <4>1 DEF Positions
    <3>2. UNCHANGED seen /\ OpenChanges(InHand(k).service) \subseteq Refs
      BY <2>5 DEF FindOpenChange, OpenChanges
    <3>3. CASE Goes(k, "file")
      BY <2>1, <3>2, <3>3 DEF Positions
    <3>4. CASE ~Goes(k, "file")
      BY <1>1, <2>5, <3>1, <3>2, <3>4 DEF FindOpenChange
    <3>5. QED
      BY <3>3, <3>4
  <2>6. CASE Attach(k)
    <3> DEFINE mem == [changes.mem EXCEPT ![cycle[k].of] = Attached(@, InHand(k).id)]
    <3>1. /\ cycle[k].batch # <<>> /\ cycle[k].of \in Refs /\ InHand(k).id \in Ids /\ UNCHANGED seen
          /\ changes.mem \in [Refs -> Records]
      BY <2>6, HandHeld DEF Attach, Typed
    <3>2. mem[cycle[k].of] = Attached(changes.mem[cycle[k].of], InHand(k).id)
      BY <3>1
    <3>3. InHand(k).id \in mem[cycle[k].of].related
      BY <3>1, <3>2, AttachedGrows
    <3>4. \/ Writes(mem) /\ cycle' = [cycle EXCEPT ![k].at = "mark", ![k].of = 0]
          \/ WriteRefused(mem) /\ NextAlert(k)
      BY <2>6 DEF Attach
    <3> HIDE DEF mem
    <3>5. CASE Writes(mem) /\ cycle' = [cycle EXCEPT ![k].at = "mark", ![k].of = 0]
      <4>1. Moves(k, "mark", cycle[k].batch, 0)
        BY <3>5, CycleGoesFor DEF Positions
      <4>2. Carried(changes'.file, InHand(k).id)
        BY <3>1, <3>3, <3>5 DEF Writes, Carried
      <4>3. QED
        BY <1>2, <3>1, <4>1, <4>2
    <3>6. CASE NextAlert(k)
      BY <1>1, <2>2, <3>1, <3>6
    <3>7. QED
      BY <3>4, <3>5, <3>6
  <2>7. CASE Mark(k)
    <3>1. /\ cycle[k].at = "mark" /\ cycle[k].batch # <<>> /\ UNCHANGED <<lock, changes>> /\ NextAlert(k)
          /\ seen'.mem \union seen'.file \subseteq seen.mem \union seen.file \union {InHand(k).id}
      BY <2>7 DEF Mark, Typed
    <3>2. \A id \in seen'.mem \union seen'.file : Carried(changes'.file, id)
      BY <1>i, <1>s, <3>1
    <3>3. \A h \in Cyclers : cycle'[h].at = "mark" => Carried(changes'.file, InHand(h)'.id)
      BY <1>i, <1>c, <2>2, <3>1 DEF InHand
    <3>4. QED
      BY <3>2, <3>3 DEF Remembered, Carried
  <2>8. CASE FileIncident(k)
    BY <1>1, <2>1, <2>2, <2>8 DEF FileIncident, Typed, Positions
  <2>9. CASE CreateChange(k)
    <3>1. cycle[k].batch # <<>> /\ UNCHANGED seen /\ changes.mem \in [Refs -> Records]
      BY <2>9 DEF CreateChange, Typed
    <3>2. PICK i \in Refs :
              LET mem == [changes.mem EXCEPT ![i] = Opened(InHand(k).service, InHand(k).id)] IN
              \/ Writes(mem) /\ Goes(k, "mark")
              \/ WriteRefused(mem) /\ NextAlert(k)
      BY <2>9 DEF CreateChange
    <3> DEFINE mem == [changes.mem EXCEPT ![i] = Opened(InHand(k).service, InHand(k).id)]
    <3>3. mem[i].first = InHand(k).id
      BY <3>1 DEF Opened
    <3>4. CASE Writes(mem) /\ Goes(k, "mark")
      <4>1. Moves(k, "mark", cycle[k].batch, cycle[k].of)
        BY <3>4, CycleGoes DEF Positions
      <4>2. changes'.file = mem
        BY <3>4 DEF Writes
      <4>3. Carried(changes'.file, InHand(k).id)
        BY <3>3, <4>2 DEF Carried
      <4>4. QED
        BY <1>2, <3>1, <4>1, <4>3
    <3>5. CASE NextAlert(k)
      BY <1>1, <2>2, <3>1, <3>5
    <3>6. QED
      BY <3>2, <3>4, <3>5
  <2>10. QED
    BY <1>5, <2>3, <2>4, <2>5, <2>6, <2>7, <2>8, <2>9 DEF Handle
<1>6. CASE Restart
  <2>1. seen'.mem = seen.file /\ seen'.file = seen.file /\ \A k \in Cyclers : cycle'[k].at = "idle"
    BY <1>6 DEF Restart, Idle, Typed
  <2>2. QED
    BY <1>1, <2>1
<1>7. ASSUME UNCHANGED <<seen, cycle>>
      PROVE  Remembered'
  BY <1>1, <1>7
<1>8. QED
  BY <1>4, <1>5, <1>6, <1>7 DEF Next, Post, PersonEnds, WindowPasses, vars

-----------------------------------------------------------------------------
(* One open change per service. *)

\* A write that opens no change of the scheduler's: what is open, or could be again, was so before.
Quiet(old, new) ==
    \A i \in Refs :
        /\ Open(new[i]) => Open(old[i]) /\ new[i].service = old[i].service
        /\ new[i].first # None /\ new[i].st = "pending_approval" =>
              old[i].first # None /\ old[i].st = "pending_approval" /\ new[i].service = old[i].service

Scheduled == OnePerService /\ StillSo

LEMMA QuietKeepsOne ==
    ASSUME OnePerService, Quiet(changes.mem, changes'.mem)
    PROVE  OnePerService'
  BY DEF OnePerService, Quiet

\* A quiet write by whoever, while the cycles stay where they are.
LEMMA QuietWrite ==
    ASSUME Typed, Scheduled, Quiet(changes.mem, changes'.mem), UNCHANGED <<cycle, lock>>
    PROVE  Scheduled'
<1>1. OnePerService'
  BY QuietKeepsOne DEF Scheduled
<1>2. ASSUME NEW k \in Cyclers
      PROVE  /\ cycle'[k].at # "idle" => lock' = k
             /\ Window /\ cycle'[k].at \in {"file", "create"} =>
                   \A i \in Refs : Open(changes'.mem[i]) => changes'.mem[i].service # InHand(k)'.service
             /\ cycle'[k].at = "attach" =>
                   LET found == changes'.mem[cycle'[k].of] IN
                   found.first # None /\ found.st = "pending_approval" =>
                       \A j \in Refs : Open(changes'.mem[j]) /\ changes'.mem[j].service = found.service
                                       => j = cycle'[k].of
  <2>1. InHand(k)' = InHand(k) /\ cycle'[k] = cycle[k]
    BY DEF InHand
  <2>2. cycle[k].at = "attach" => cycle[k].of \in Refs
    BY DEF Typed
  <2>3. QED
    BY <2>1, <2>2 DEF Scheduled, StillSo, Quiet
<1>3. QED
  BY <1>1, <1>2 DEF Scheduled, StillSo, Open

\* A cycle that holds the lock moves to a position that promises nothing.
LEMMA PlainMove ==
    ASSUME Typed, Scheduled, OnePerService', NEW k \in Cyclers,
           NEW at \in Positions \ {"file", "create", "attach"}, NEW batch, NEW of, Moves(k, at, batch, of),
           \A h \in Cyclers : h # k => cycle[h].at = "idle",
           at # "idle" => lock' = k
    PROVE  Scheduled'
<1>1. \A h \in Cyclers : cycle'[h].at \notin {"file", "create", "attach"} /\ (cycle'[h].at # "idle" => lock' = h)
  BY DEF Moves
<1>2. QED
  BY <1>1 DEF Scheduled, StillSo

LEMMA ScheduleStep ==
    ASSUME Typed, FileBehind, Scheduled, [Next]_vars
    PROVE  Scheduled'
<1>t. changes.mem \in [Refs -> Records] /\ changes.file \in [Refs -> Records]
  BY DEF Typed
<1>q. ASSUME UNCHANGED changes PROVE Quiet(changes.mem, changes'.mem) /\ OnePerService'
  BY <1>q, QuietKeepsOne DEF Quiet, Scheduled
<1>1. ASSUME NEW k \in Cyclers, NEW answer \in Answers, Fetch(k, answer)
      PROVE  Scheduled'
  <2>1. Moves(k, "next", Batch(answer), cycle[k].of) /\ UNCHANGED changes /\ lock' = k /\ lock = None
    BY <1>1, FetchedBatch, CycleStarts DEF Fetch
  <2>2. \A h \in Cyclers : cycle[h].at = "idle"
    BY <2>1, IntakeAssumption DEF Scheduled, StillSo
  <2>3. QED
    BY <1>q, <2>1, <2>2, PlainMove DEF Positions
<1>2. ASSUME NEW k \in Cyclers, Handle(k)
      PROVE  Scheduled'
  <2>l. lock = k /\ \A h \in Cyclers : h # k => cycle[h].at = "idle"
    BY <1>2 DEF Handle, EndCycle, Deduplicate, FindOpenChange, Attach, Mark, FileIncident, CreateChange,
                Scheduled, StillSo
  <2>1. ASSUME NEW at \in Positions \ {"file", "create", "attach"}, Goes(k, at), OnePerService',
               at # "idle" => lock' = k
        PROVE  Scheduled'
    BY <2>1, <2>l, CycleGoes, PlainMove
  <2>2. ASSUME cycle[k].batch # <<>>, NextAlert(k), OnePerService', lock' = k
        PROVE  Scheduled'
    BY <2>2, <2>l, CycleTakesNext, PlainMove DEF Positions
  <2>3. CASE EndCycle(k)
    BY <1>q, <2>1, <2>3 DEF EndCycle, Positions
  <2>4. CASE Deduplicate(k)
    BY <1>q, <2>1, <2>2, <2>4, <2>l DEF Deduplicate, Positions
  <2>5. CASE FindOpenChange(k)
    <3>1. cycle[k].at = "correlate" /\ UNCHANGED <<lock, changes>> /\ OnePerService'
      BY <1>q, <2>5 DEF FindOpenChange
    <3>2. CASE OpenChanges(InHand(k).service) = {} /\ Goes(k, "file")
      <4>1. Moves(k, "file", cycle[k].batch, cycle[k].of)
        BY <3>2, CycleGoes DEF Positions
      <4>2. Window => \A i \in Refs : Open(changes.mem[i]) => changes.mem[i].service # InHand(k).service
        BY <3>2 DEF OpenChanges, Open
      <4>3. InHand(k)' = InHand(k) /\ cycle'[k].at = "file" /\ \A h \in Cyclers : h # k => cycle'[h].at = "idle"
        BY <2>l, <4>1 DEF Moves, InHand
      <4>4. QED
        BY <2>l, <3>1, <4>2, <4>3 DEF Scheduled, StillSo, Open
    <3>3. ASSUME NEW i \in OpenChanges(InHand(k).service),
                 cycle' = [cycle EXCEPT ![k].at = "attach", ![k].of = i]
          PROVE  Scheduled'
      <4>1. i \in Refs /\ Window /\ changes.mem[i].fresh /\ changes.mem[i].st = "pending_approval"
        BY DEF OpenChanges
      <4>2. Moves(k, "attach", cycle[k].batch, i)
        BY <3>3, <4>1, CycleGoesFor DEF Positions
      <4>3. changes.mem[i].first # None =>
                \A j \in Refs : Open(changes.mem[j]) /\ changes.mem[j].service = changes.mem[i].service => j = i
        BY <4>1 DEF Scheduled, OnePerService, Open
      <4>4. cycle'[k].at = "attach" /\ cycle'[k].of = i /\ \A h \in Cyclers : h # k => cycle'[h].at = "idle"
        BY <2>l, <4>2 DEF Moves
      <4>5. QED
        BY <2>l, <3>1, <4>3, <4>4 DEF Scheduled, StillSo, Open
    <3>4. QED
      BY <2>5, <3>2, <3>3 DEF FindOpenChange
  <2>6. CASE Attach(k)
    <3> DEFINE i == cycle[k].of
               mem == [changes.mem EXCEPT ![i] = Attached(@, InHand(k).id)]
    <3>1. /\ cycle[k].at = "attach" /\ cycle[k].batch # <<>> /\ i \in Refs /\ InHand(k).id \in Ids /\ UNCHANGED lock
      BY <2>6, HandHeld DEF Attach, Typed
    <3>2. /\ mem[i] = Attached(changes.mem[i], InHand(k).id)
          /\ \A j \in Refs : j # i => mem[j] = changes.mem[j]
      BY <1>t, <3>1
    <3>3. mem[i].st = changes.mem[i].st /\ mem[i].service = changes.mem[i].service /\ mem[i].first = changes.mem[i].first
      BY <1>t, <3>1, <3>2, AttachedGrows
    <3>4. \/ Writes(mem) /\ cycle' = [cycle EXCEPT ![k].at = "mark", ![k].of = 0]
          \/ WriteRefused(mem) /\ NextAlert(k)
      BY <2>6 DEF Attach
    <3>5. /\ changes.mem[i].first # None /\ changes.mem[i].st = "pending_approval" =>
                \A j \in Refs : Open(changes.mem[j]) /\ changes.mem[j].service = changes.mem[i].service => j = i
      BY <3>1 DEF Scheduled, StillSo
    <3> HIDE DEF mem
    <3>6. changes'.mem = mem
      BY <3>4 DEF Writes, WriteRefused, Typed
    <3>7. OnePerService'
      <4>1. ASSUME Window, NEW a \in Refs, NEW b \in Refs, Open(mem[a]), Open(mem[b]), mem[a].service = mem[b].service
            PROVE  a = b
        <5>1. CASE a = i /\ b # i
          BY <3>2, <3>3, <3>5, <4>1, <5>1 DEF Open
        <5>2. CASE a # i /\ b = i
          BY <3>2, <3>3, <3>5, <4>1, <5>2 DEF Open
        <5>3. CASE a # i /\ b # i
          BY <3>2, <4>1, <5>3 DEF Scheduled, OnePerService
        <5>4. QED
          BY <5>1, <5>2, <5>3
      <4>2. QED
        BY <3>6, <4>1 DEF OnePerService, Open
    <3>8. CASE cycle' = [cycle EXCEPT ![k].at = "mark", ![k].of = 0]
      <4>1. Moves(k, "mark", cycle[k].batch, 0)
        BY <3>8, CycleGoesFor DEF Positions
      <4>2. QED
        BY <2>l, <3>1, <3>7, <4>1, PlainMove DEF Positions
    <3>9. QED
      BY <2>2, <2>l, <3>1, <3>4, <3>7, <3>8
  <2>7. CASE Mark(k)
    <3>1. cycle[k].batch # <<>> /\ UNCHANGED <<lock, changes>> /\ NextAlert(k)
      BY <2>7 DEF Mark, Typed
    <3>2. QED
      BY <1>q, <2>2, <2>l, <3>1
  <2>8. CASE FileIncident(k)
    <3>1. cycle[k].at = "file" /\ cycle[k].batch # <<>> /\ UNCHANGED <<lock, changes>> /\ OnePerService'
      BY <1>q, <2>8 DEF FileIncident, Typed
    <3>2. CASE Goes(k, "create")
      <4>1. Moves(k, "create", cycle[k].batch, cycle[k].of)
        BY <3>2, CycleGoes DEF Positions
      <4>2. Window => \A i \in Refs : Open(changes.mem[i]) => changes.mem[i].service # InHand(k).service
        BY <3>1 DEF Scheduled, StillSo
      <4>3. InHand(k)' = InHand(k) /\ cycle'[k].at = "create" /\ \A h \in Cyclers : h # k => cycle'[h].at = "idle"
        BY <2>l, <4>1 DEF Moves, InHand
      <4>4. QED
        BY <2>l, <3>1, <4>2, <4>3 DEF Scheduled, StillSo, Open
    <3>3. QED
      BY <2>2, <2>8, <2>l, <3>1, <3>2 DEF FileIncident
  <2>9. CASE CreateChange(k)
    <3>1. cycle[k].at = "create" /\ cycle[k].batch # <<>> /\ UNCHANGED lock
      BY <2>9 DEF CreateChange, Typed
    <3>2. PICK i \in Refs :
              LET mem == [changes.mem EXCEPT ![i] = Opened(InHand(k).service, InHand(k).id)] IN
              \/ Writes(mem) /\ Goes(k, "mark")
              \/ WriteRefused(mem) /\ NextAlert(k)
      BY <2>9 DEF CreateChange
    <3> DEFINE mem == [changes.mem EXCEPT ![i] = Opened(InHand(k).service, InHand(k).id)]
    <3>3. /\ mem[i].service = InHand(k).service
          /\ \A j \in Refs : j # i => mem[j] = changes.mem[j]
      BY <1>t DEF Opened
    <3>4. changes'.mem = mem
      BY <3>2 DEF Writes, WriteRefused, Typed
    <3>5. Window => \A j \in Refs : Open(changes.mem[j]) => changes.mem[j].service # InHand(k).service
      BY <3>1 DEF Scheduled, StillSo
    <3> HIDE DEF mem
    <3>6. OnePerService'
      <4>1. ASSUME Window, NEW a \in Refs, NEW b \in Refs, Open(mem[a]), Open(mem[b]), mem[a].service = mem[b].service
            PROVE  a = b
        <5>1. CASE a = i \/ b = i
          BY <3>3, <3>5, <4>1, <5>1
        <5>2. CASE a # i /\ b # i
          BY <3>3, <4>1, <5>2 DEF Scheduled, OnePerService
        <5>3. QED
          BY <5>1, <5>2
      <4>2. QED
        BY <3>4, <4>1 DEF OnePerService, Open
    <3>7. QED
      BY <2>1, <2>2, <2>l, <3>1, <3>2, <3>6 DEF Positions
  <2>10. QED
    BY <1>2, <2>3, <2>4, <2>5, <2>6, <2>7, <2>8, <2>9 DEF Handle
<1>3. ASSUME NEW service \in Services, Post(service)
      PROVE  Scheduled'
  <2>1. PICK i \in Refs : LET mem == [changes.mem EXCEPT ![i] = Opened(service, None)] IN
                          Writes(mem) \/ WriteRefused(mem)
    BY <1>3 DEF Post
  <2>2. changes'.mem = [changes.mem EXCEPT ![i] = Opened(service, None)]
    BY <2>1 DEF Writes, WriteRefused, Typed
  <2>3. changes'.mem[i].first = None /\ \A j \in Refs : j # i => changes'.mem[j] = changes.mem[j]
    BY <1>t, <2>2 DEF Opened
  <2>4. Quiet(changes.mem, changes'.mem)
    BY <2>3 DEF Quiet, Open
  <2>5. QED
    BY <1>3, <2>4, QuietWrite DEF Post
<1>4. ASSUME NEW i \in Refs, NEW to \in ClosedStates, PersonEnds(i, to)
      PROVE  Scheduled'
  <2>1. changes'.mem = [changes.mem EXCEPT ![i].st = to] /\ to # "pending_approval"
    BY <1>4 DEF PersonEnds, Writes, ClosedStates
  <2>2. changes'.mem[i].st # "pending_approval" /\ \A j \in Refs : j # i => changes'.mem[j] = changes.mem[j]
    BY <1>t, <2>1, Closed DEF States
  <2>3. Quiet(changes.mem, changes'.mem)
    BY <2>2 DEF Quiet, Open
  <2>4. QED
    BY <1>4, <2>3, QuietWrite DEF PersonEnds
<1>5. ASSUME NEW i \in Refs, WindowPasses(i)
      PROVE  Scheduled'
  <2>1. changes'.mem = [changes.mem EXCEPT ![i].fresh = FALSE]
    BY <1>5 DEF WindowPasses
  <2>2. Quiet(changes.mem, changes'.mem)
    BY <1>t, <2>1, Stale DEF Quiet, Open
  <2>3. QED
    BY <1>5, <2>2, QuietWrite DEF WindowPasses
<1>6. CASE Restart
  <2>1. changes'.mem = changes.file /\ \A k \in Cyclers : cycle'[k].at = "idle"
    BY <1>6 DEF Restart, Idle, Typed
  <2>2. Quiet(changes.mem, changes'.mem)
    BY <2>1 DEF FileBehind, Behind, NoChange, Quiet, Open
  <2>3. QED
    BY <2>1, <2>2, QuietKeepsOne DEF Scheduled, StillSo
<1>7. CASE UNCHANGED vars
  BY <1>q, <1>7, QuietWrite DEF vars
<1>8. QED
  BY <1>1, <1>2, <1>3, <1>4, <1>5, <1>6, <1>7 DEF Next

-----------------------------------------------------------------------------
(* The invariant and the theorems. *)
Intake == Typed /\ FileBehind /\ Remembered /\ Scheduled

LEMMA Started == Init => Intake
<1> SUFFICES ASSUME Init PROVE Intake
  OBVIOUS
<1>1. NoChange \in Records /\ Idle \in Cycles
  BY EmptyBatch DEF NoChange, Records, States
<1>2. Typed
  BY <1>1, IntakeAssumption DEF Init, Typed, Idle
<1>3. FileBehind /\ Remembered /\ Scheduled
  BY DEF Init, FileBehind, Behind, Remembered, Scheduled, OnePerService, StillSo, Open, NoChange, Idle
<1>4. QED
  BY <1>2, <1>3 DEF Intake

\* The inductive invariant holds in every state.
THEOREM IntakeIsInvariant == Spec => []Intake
<1>1. Init => Intake
  BY Started
<1>2. Intake /\ [Next]_vars => Intake'
  BY TypedStep, FileStep, RememberedStep, ScheduleStep DEF Intake
<1>3. QED
  BY <1>1, <1>2, PTL DEF Spec

\* The shape of the state: every cycle holds alerts of the source, at a position of the scheduler's loop.
THEOREM TypeCorrect == Spec => []TypeOK
<1>1. Typed => TypeOK
  BY DEF Typed, TypeOK, Cycles, Batches, Positions, Records, States
<1>2. QED
  BY <1>1, IntakeIsInvariant, PTL DEF Intake

\* Only what a change on file carries is remembered as handled (scheduler.py marks an alert after the
\* pipeline returned): no write that fails and no restart loses an alert.
THEOREM NoAlertIsLost == Spec => []MarkedIsOnFile
<1>1. Intake => MarkedIsOnFile
  BY DEF Intake, Remembered, Carried, MarkedIsOnFile
<1>2. QED
  BY <1>1, IntakeIsInvariant, PTL

\* Alerts of a service are "folded into one open change" (README.md:398): the scheduler has one open
\* change of a service inside the window, whoever runs its cycles and whatever fails in them.
THEOREM OneChangeAtATime == Spec => []OneOpenChangePerService
<1>1. Intake => OneOpenChangePerService
  BY DEF Intake, Scheduled, OnePerService, Open, OneOpenChangePerService, IsInjective
<1>2. QED
  BY <1>1, IntakeIsInvariant, PTL

=============================================================================
