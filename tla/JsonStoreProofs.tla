--------------------------- MODULE JsonStoreProofs ---------------------------
(***************************************************************************)
(* Theorems about JsonStore, for any number of changes and requests:       *)
(* memory runs ahead of the file and never beside it, and the lock keeps   *)
(* what is between them to one request.                                    *)
(***************************************************************************)
EXTENDS JsonStore, SequenceTheorems, TLAPS

\* The inductive invariant.  Memory has what the file has, and more after a write the disk refused;
\* the request that holds the lock has got as far as its next step says; and no answer, audit
\* entry or event is ahead of the file.
Ahead == \A c \in Changes : IsPrefix(file[c], memory[c])

HolderIsThere ==
    /\ holder.step = "write" => holder.req \in Written(memory)
    /\ holder.step \in {"audit", "publish"} => holder.req \in Written(file)

Durable == TypeOK /\ Ahead /\ HolderIsThere /\ DoneIsDurable /\ RecordedIsDurable

-----------------------------------------------------------------------------
(* Prefixes. *)
LEMMA PrefixElements ==
    ASSUME NEW S, NEW s \in Seq(S), NEW t \in Seq(S)
    PROVE  IsPrefix(s, t) <=> Len(s) <= Len(t) /\ \A i \in 1 .. Len(s) : s[i] = t[i]
<1>1. Len(s) \in Nat /\ Len(t) \in Nat
  BY LenProperties
<1>2. CASE Len(s) <= Len(t)
  <2>1. /\ SubSeq(s, 1, Len(s)) \in Seq(S) /\ Len(SubSeq(s, 1, Len(s))) = Len(s)
        /\ \A i \in 1 .. Len(s) : SubSeq(s, 1, Len(s))[i] = s[i]
    BY <1>1, SubSeqProperties
  <2>2. /\ SubSeq(t, 1, Len(s)) \in Seq(S) /\ Len(SubSeq(t, 1, Len(s))) = Len(s)
        /\ \A i \in 1 .. Len(s) : SubSeq(t, 1, Len(s))[i] = t[i]
    BY <1>1, <1>2, SubSeqProperties
  <2>3. (\A i \in 1 .. Len(s) : s[i] = t[i]) => SubSeq(s, 1, Len(s)) = SubSeq(t, 1, Len(s))
    BY <2>1, <2>2, SeqEqual
  <2>4. QED
    BY <1>2, <2>1, <2>2, <2>3 DEF IsPrefix
<1>3. CASE ~(Len(s) <= Len(t))
  BY <1>3 DEF IsPrefix
<1>4. QED
  BY <1>2, <1>3

LEMMA PrefixReflexive ==
    ASSUME NEW S, NEW s \in Seq(S)
    PROVE  IsPrefix(s, s)
  BY LenProperties, PrefixElements

LEMMA PrefixOfAppend ==
    ASSUME NEW S, NEW s \in Seq(S), NEW t \in Seq(S), NEW e \in S, IsPrefix(s, t)
    PROVE  IsPrefix(s, Append(t, e))
<1>1. /\ Append(t, e) \in Seq(S) /\ Len(Append(t, e)) = Len(t) + 1
      /\ \A i \in 1 .. Len(t) : Append(t, e)[i] = t[i]
  BY AppendProperties
<1>2. Len(s) \in Nat /\ Len(t) \in Nat /\ Len(s) <= Len(t) /\ \A i \in 1 .. Len(s) : s[i] = t[i]
  BY LenProperties, PrefixElements
<1>3. Len(s) <= Len(Append(t, e)) /\ \A i \in 1 .. Len(s) : s[i] = Append(t, e)[i]
  BY <1>1, <1>2
<1>4. QED
  BY ONLY <1>1, <1>3, s \in Seq(S), PrefixElements

-----------------------------------------------------------------------------
(* What a copy of the records holds. *)
LEMMA WrittenBy ==
    ASSUME NEW records \in [Changes -> Seq(Writes)], NEW r
    PROVE  r \in Written(records) <=>
              \E c \in Changes : \E i \in 1 .. Len(records[c]) : records[c][i].req = r
  BY LenProperties DEF Written, ToSet

\* A copy that extends another holds all it holds.
LEMMA WrittenGrows ==
    ASSUME NEW old \in [Changes -> Seq(Writes)], NEW new \in [Changes -> Seq(Writes)],
           \A c \in Changes : IsPrefix(old[c], new[c])
    PROVE  Written(old) \subseteq Written(new)
<1> SUFFICES ASSUME NEW r \in Written(old) PROVE r \in Written(new)
  OBVIOUS
<1>1. PICK c \in Changes : \E i \in 1 .. Len(old[c]) : old[c][i].req = r
  BY WrittenBy
<1>2. PICK i \in 1 .. Len(old[c]) : old[c][i].req = r
  BY <1>1
<1>3. /\ Len(old[c]) \in Nat /\ Len(new[c]) \in Nat
      /\ Len(old[c]) <= Len(new[c]) /\ old[c][i] = new[c][i]
  BY PrefixElements, LenProperties
<1>4. i \in 1 .. Len(new[c]) /\ new[c][i].req = r
  BY <1>2, <1>3
<1>5. QED
  BY <1>4, WrittenBy

-----------------------------------------------------------------------------
(* The steps. *)
LEMMA Started == Init => Durable
<1> SUFFICES ASSUME Init PROVE Durable
  OBVIOUS
<1>1. <<>> \in Seq(Writes)
  BY EmptySeq
<1>2. TypeOK
  BY <1>1, JsonAssumption DEF Init, TypeOK, Free
<1>3. Ahead
  BY <1>1, PrefixReflexive DEF Init, Ahead
<1>4. HolderIsThere /\ DoneIsDurable /\ RecordedIsDurable
  BY DEF Init, HolderIsThere, Free, DoneIsDurable, RecordedIsDurable
<1>5. QED
  BY <1>2, <1>3, <1>4 DEF Durable

\* The lock is free, or its holder is busy.
LEMMA Held ==
    ASSUME TypeOK, holder.step # "idle"
    PROVE  /\ holder \in [req : Requests, step : {"write", "audit", "publish"}]
           /\ answer[holder.req] = "busy" /\ holder.req # None
           /\ \A r \in Requests : answer[r] = "busy" => r = holder.req
<1>1. holder \in [req : Requests, step : {"write", "audit", "publish"}]
  BY DEF TypeOK, Free
<1>2. holder.req \in Requests /\ holder.req # None
  BY <1>1, JsonAssumption
<1>3. {r \in Requests : answer[r] = "busy"} = {holder.req}
  BY <1>2 DEF TypeOK
<1>4. QED
  BY <1>1, <1>2, <1>3

LEMMA Step ==
    ASSUME Durable, [Next]_vars
    PROVE  Durable' /\ \A c \in Changes : IsPrefix(file[c], file'[c])
<1> USE DEF Durable
<1>t. /\ memory \in [Changes -> Seq(Writes)] /\ file \in [Changes -> Seq(Writes)]
      /\ \A c \in Changes : IsPrefix(file[c], file[c])
  BY PrefixReflexive DEF TypeOK
<1>1. ASSUME NEW r \in Requests, NEW c \in Changes,
             NEW to \in Targets \union {"awaiting_dev_execution"}, Change(r, c, to)
      PROVE  Durable' /\ UNCHANGED file
  <2>1. [req |-> r, to |-> to] \in Writes
    BY JsonAssumption DEF Writes, DeploymentStates, PRE_APPROVAL_STATES
  <2>2. /\ memory' \in [Changes -> Seq(Writes)]
        /\ memory'[c] = Append(memory[c], [req |-> r, to |-> to])
        /\ \A d \in Changes : d # c => memory'[d] = memory[d]
    BY <1>1, <1>t, <2>1, AppendProperties DEF Change
  <2>3. /\ UNCHANGED <<file, audit, events, restarts>>
        /\ holder' = [req |-> r, step |-> "write"]
        /\ answer' = [answer EXCEPT ![r] = "busy"] /\ answer[r] = "none" /\ holder = Free
    BY <1>1 DEF Change
  <2>4. TypeOK'
    <3>1. \A s \in Requests : answer[s] # "busy"
      BY <2>3 DEF TypeOK, Free
    <3>2. answer' \in [Requests -> {"none", "busy", "done", "refused", "failed"}]
          /\ {s \in Requests : answer'[s] = "busy"} = {holder'.req} \ {None}
      BY <2>3, <3>1, JsonAssumption DEF TypeOK
    <3>3. QED
      BY <2>2, <2>3, <3>2 DEF TypeOK
  <2>5. Ahead'
    <3>1. IsPrefix(file[c], memory'[c])
      BY <1>t, <2>1, <2>2, PrefixOfAppend DEF Ahead
    <3>2. QED
      BY <2>2, <2>3, <3>1 DEF Ahead
  <2>6. HolderIsThere'
    <3>1. Len(memory'[c]) \in 1 .. Len(memory'[c]) /\ memory'[c][Len(memory'[c])] = [req |-> r, to |-> to]
      BY <1>t, <2>1, <2>2, AppendProperties, LenProperties
    <3>2. r \in Written(memory')
      BY <2>2, <3>1, WrittenBy
    <3>3. QED
      BY <2>3, <3>2 DEF HolderIsThere
  <2>7. DoneIsDurable' /\ RecordedIsDurable'
    BY <2>3 DEF DoneIsDurable, RecordedIsDurable, TypeOK
  <2>8. QED
    BY <2>3, <2>4, <2>5, <2>6, <2>7
<1>2. ASSUME NEW r \in Requests, NEW c \in Changes,
             NEW to \in Targets \union {"awaiting_dev_execution"}, Refuse(r, c, to)
      PROVE  Durable' /\ UNCHANGED file
  <2>1. /\ UNCHANGED <<memory, file, audit, events, holder, restarts>>
        /\ answer' = [answer EXCEPT ![r] = "refused"] /\ answer[r] = "none"
    BY <1>2 DEF Refuse
  <2>2. TypeOK'
    BY <2>1 DEF TypeOK
  <2>3. QED
    BY <2>1, <2>2 DEF Ahead, HolderIsThere, DoneIsDurable, RecordedIsDurable, TypeOK
<1>3. CASE WriteFile
  <2>1. /\ file' = memory /\ UNCHANGED <<memory, audit, events, answer, restarts>>
        /\ holder.step = "write" /\ holder' = [holder EXCEPT !.step = "audit"]
    BY <1>3 DEF WriteFile, Then
  <2>2. holder' = [req |-> holder.req, step |-> "audit"] /\ holder.req \in Requests
    BY <2>1, Held
  <2>3. Written(file) \subseteq Written(file')
    BY <1>t, <2>1, WrittenGrows DEF Ahead
  <2>4. TypeOK'
    BY <2>1, <2>2 DEF TypeOK
  <2>5. Ahead' /\ \A c \in Changes : IsPrefix(file[c], file'[c])
    BY <1>t, <2>1, PrefixReflexive DEF Ahead
  <2>6. HolderIsThere'
    BY <2>1, <2>2 DEF HolderIsThere
  <2>7. DoneIsDurable' /\ RecordedIsDurable'
    BY <2>1, <2>3 DEF DoneIsDurable, RecordedIsDurable
  <2>8. QED
    BY <2>4, <2>5, <2>6, <2>7
<1>4. ASSUME NEW a \in {"done", "failed"}, holder.step # "idle", Release(a),
             a = "done" => holder.req \in Written(file),
             UNCHANGED <<memory, file, audit, restarts>>, events' \subseteq events \union {holder.req},
             events' \subseteq Written(file)
      PROVE  Durable' /\ UNCHANGED file
  <2>1. /\ holder' = Free /\ answer' = [answer EXCEPT ![holder.req] = a]
        /\ holder.req \in Requests /\ \A r \in Requests : answer[r] = "busy" => r = holder.req
    BY <1>4, Held DEF Release
  <2>2. TypeOK'
    <3>1. {r \in Requests : answer'[r] = "busy"} = {}
      BY <2>1 DEF TypeOK
    <3>2. QED
      BY <1>4, <2>1, <3>1 DEF TypeOK, Free
  <2>3. HolderIsThere'
    BY <2>1 DEF HolderIsThere, Free
  <2>4. DoneIsDurable'
    BY <1>4, <2>1 DEF DoneIsDurable, TypeOK
  <2>5. QED
    BY <1>4, <2>2, <2>3, <2>4 DEF Ahead, RecordedIsDurable
<1>5. CASE WriteFails
  <2>1. /\ holder.step # "idle" /\ Release("failed") /\ UNCHANGED <<memory, file, audit, events, restarts>>
        /\ events' \subseteq events \union {holder.req} /\ events' \subseteq Written(file)
    BY <1>5 DEF WriteFails, RecordedIsDurable
  <2>2. QED
    BY <1>t, <1>4, <2>1
<1>6. CASE Record
  <2>1. /\ UNCHANGED <<memory, file, events, answer, restarts>> /\ audit' \subseteq audit \union {holder.req}
        /\ holder.step = "audit" /\ holder' = [holder EXCEPT !.step = "publish"]
    BY <1>6 DEF Record, Then
  <2>2. holder' = [req |-> holder.req, step |-> "publish"] /\ holder.req \in Requests
    BY <2>1, Held
  <2>3. holder.req \in Written(file)
    BY <2>1 DEF HolderIsThere
  <2>4. TypeOK'
    BY <2>1, <2>2 DEF TypeOK
  <2>5. QED
    BY <1>t, <2>1, <2>2, <2>3, <2>4 DEF Ahead, HolderIsThere, DoneIsDurable, RecordedIsDurable
<1>7. CASE Publish
  <2>1. holder.req \in Written(file) /\ holder.step # "idle"
    BY <1>7 DEF Publish, HolderIsThere
  <2>2. QED
    BY <1>t, <1>4, <1>7, <2>1 DEF Publish, RecordedIsDurable
<1>8. CASE Restart
  <2>1. /\ memory' = file /\ holder' = Free /\ UNCHANGED <<file, audit, events>>
        /\ answer' = [r \in Requests |-> IF answer[r] = "busy" THEN "failed" ELSE answer[r]]
        /\ restarts' \in 0 .. MaxRestarts
    BY <1>8, JsonAssumption DEF Restart, TypeOK
  <2>2. TypeOK'
    BY <2>1 DEF TypeOK, Free
  <2>3. Ahead' /\ HolderIsThere'
    BY <1>t, <2>1 DEF Ahead, HolderIsThere, Free
  <2>4. DoneIsDurable' /\ RecordedIsDurable'
    BY <2>1 DEF DoneIsDurable, RecordedIsDurable
  <2>5. QED
    BY <1>t, <2>1, <2>2, <2>3, <2>4
<1>9. CASE UNCHANGED vars
  BY <1>t, <1>9 DEF vars, TypeOK, Ahead, HolderIsThere, DoneIsDurable, RecordedIsDurable
<1>10. QED
  BY <1>t, <1>1, <1>2, <1>3, <1>5, <1>6, <1>7, <1>8, <1>9 DEF Next

-----------------------------------------------------------------------------
\* The invariant holds in every state.
THEOREM MemoryIsAhead == Spec => []Durable
<1>1. Init => Durable
  BY Started
<1>2. Durable /\ [Next]_vars => Durable'
  BY Step
<1>3. QED
  BY <1>1, <1>2, PTL DEF Spec

\* The shape of the state, and one request at a time under the lock.
THEOREM TypeCorrect == Spec => []TypeOK
<1>1. Durable => TypeOK
  BY DEF Durable
<1>2. QED
  BY <1>1, MemoryIsAhead, PTL

\* What a caller was told is done stays done: on any number of writes, refused writes and
\* restarts, it is in the file (change_control.py, _mutate on the JSON backend).
THEOREM DoneSurvives == Spec => []DoneIsDurable
<1>1. Durable => DoneIsDurable
  BY DEF Durable
<1>2. QED
  BY <1>1, MemoryIsAhead, PTL

\* What the audit log and the bus tell of is in the file.
THEOREM RecordedSurvives == Spec => []RecordedIsDurable
<1>1. Durable => RecordedIsDurable
  BY DEF Durable
<1>2. QED
  BY <1>1, MemoryIsAhead, PTL

\* The file of every change only ever gains writes at its end.
THEOREM FileGrows == Spec => FileOnlyGrows
<1>1. Durable /\ [Next]_vars => [\A c \in Changes : IsPrefix(file[c], file'[c])]_vars
  BY Step
<1>2. QED
  BY <1>1, MemoryIsAhead, PTL DEF Spec, FileOnlyGrows

=============================================================================
