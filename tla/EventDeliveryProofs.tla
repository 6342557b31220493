------------------------- MODULE EventDeliveryProofs -------------------------
(***************************************************************************)
(* Theorems about EventDelivery, for any number of changes, events,        *)
(* faults, writers and relays, any capacity and any poll limit: what the   *)
(* relays and the learner may pass over, and that incident memory is right *)
(* and final.                                                              *)
(***************************************************************************)
EXTENDS EventDelivery, SequenceTheorems, FiniteSetTheorems, WellFoundedInduction, TLAPS

-----------------------------------------------------------------------------
(* The inductive invariant of delivery. *)
Events == [of : Changes, to : States]
Loops == [at : {"idle", "handle", "commit"}, batch : Seq(Nat)]
Buses == [events : Seq(Events), dropped : Nat, offset : [learning : Nat, relay : Nat]]
Consumers == [committed : Nat, next : Nat \ {0}, pending : Nat, position : [Numbers -> Nat]]

Shaped ==
    /\ transport \in Transports /\ emitting \subseteq Events /\ handled \subseteq Numbers
    /\ bus \in Buses
    /\ log \in Seq(Nat)
    /\ kafka \in Consumers
    /\ relay \in [Relays -> Loops]

\* A loop at work has events of the bus in hand, no more than one poll gives it.
HasInHand(loop) ==
    /\ loop \in Loops /\ Len(loop.batch) <= PollLimit
    /\ loop.at # "idle" => loop.batch # <<>>
    /\ \A i \in 1 .. Len(loop.batch) : loop.batch[i] \in 1 .. Published

Drawn == open \union visible

Bounded ==
    /\ Published <= MaxEvents /\ bus.dropped <= Published
    /\ bus.offset.learning <= Published /\ bus.offset.relay <= Published
    /\ Drawn \subseteq 1 .. Published /\ open \intersect visible = {} /\ overtaken \subseteq 1 .. Published
    /\ transport = "inprocess" => open = {} /\ overtaken = {}
    /\ emitting # {} => transport = "inprocess" /\ Published < MaxEvents /\ \E e : emitting = {e}
    /\ \A p \in 1 .. Len(log) : log[p] <= Published
    /\ kafka.committed <= Len(log) /\ kafka.next <= Len(log) + 1 /\ kafka.pending <= Len(log) + 1
    /\ HasInHand(learner) /\ \A r \in Relays : HasInHand(relay[r])
    /\ learner.at = "commit" => learner.batch[1] \in handled
    /\ transport # "kafka" => log = <<>> /\ \A r \in Relays : relay[r] = Loop

\* Of a group that drains the bus: whatever its offset is past, the bus not having dropped it, is done.
Passed(offset, drawn, dropped, done) == \A n \in drawn : dropped < n /\ n <= offset => n \in done

\* Of one of its loops: whatever it will be past with its batch is done, or is in the batch.
Holds(loop, drawn, dropped, done) ==
    loop.at # "idle" =>
        /\ \A i, j \in 1 .. Len(loop.batch) : i < j => loop.batch[i] < loop.batch[j]
        /\ \A n \in drawn : \A i \in 1 .. Len(loop.batch) :
              dropped < n /\ n <= loop.batch[i] => n \in done \/ \E j \in 1 .. Len(loop.batch) : loop.batch[j] = n
        /\ loop.at = "commit" => loop.batch[1] \in done

\* Numbers of open transactions count too: those a poll read past are overtaken.
FromBus ==
    transport # "kafka" =>
        /\ Passed(bus.offset.learning, Drawn, bus.dropped, handled \union overtaken)
        /\ Holds(learner, Drawn, bus.dropped, handled \union overtaken)

\* What a relay is done with.
Forwarded == {n \in Nat : OnTopic(n)} \union overtaken

FromOutbox ==
    transport = "kafka" =>
        /\ bus.dropped = 0
        /\ Passed(bus.offset.relay, Drawn, bus.dropped, Forwarded)
        /\ \A r \in Relays : Holds(relay[r], Drawn, bus.dropped, Forwarded)

\* What the consumer may be past on the topic.
Gone(p) == log[p] = 0 \/ log[p] \in handled \/ Straddled(p)

PassedOver ==
    /\ \A p \in 1 .. kafka.committed : Gone(p)
    /\ \A p \in 1 .. SeekPending - 1 : Gone(p)

\* A position is that of a copy of the event.
PositionsAreRight ==
    \A n \in Numbers : kafka.position[n] # 0 => kafka.position[n] \in 1 .. Len(log) /\ log[kafka.position[n]] = n

\* The learner's batch is what was read at some positions, one after the other, and what was read and
\* is not gone is among them.
BatchIsAt(at) ==
    /\ \A i \in 1 .. Len(learner.batch) : learner.batch[i] = log[at[i]]
    /\ \A i, j \in 1 .. Len(learner.batch) : i < j => at[i] < at[j]
    /\ \A p \in 1 .. kafka.next - 1 : Gone(p) \/ \E i \in 1 .. Len(learner.batch) : at[i] = p
    /\ \A i \in 1 .. Len(learner.batch) : kafka.position[learner.batch[i]] < kafka.next

BatchIsOpen ==
    learner.at # "idle" => \E at \in [1 .. Len(learner.batch) -> 1 .. kafka.next - 1] : BatchIsAt(at)

FromTopic == transport = "kafka" => PassedOver /\ PositionsAreRight /\ BatchIsOpen

Delivered == Shaped /\ Bounded /\ FromBus /\ FromOutbox /\ FromTopic

-----------------------------------------------------------------------------
(* Lemmas about numbers, sets and loops. *)

LEMMA MinOfTwo ==
    \A m, n \in Int : Min({m, n}) \in {m, n} /\ Min({m, n}) <= m /\ Min({m, n}) <= n
<1> SUFFICES ASSUME NEW m \in Int, NEW n \in Int
             PROVE  Min({m, n}) \in {m, n} /\ Min({m, n}) <= m /\ Min({m, n}) <= n
  OBVIOUS
<1>1. \E x \in {m, n} : \A y \in {m, n} : x <= y
  <2>1. CASE m <= n
    BY <2>1
  <2>2. CASE n <= m
    BY <2>2
  <2>3. QED
    BY <2>1, <2>2
<1>2. Min({m, n}) \in {m, n} /\ \A y \in {m, n} : Min({m, n}) <= y
  BY <1>1 DEF Min
<1>3. QED
  BY <1>2

LEMMA MaxOfTwo ==
    \A m, n \in Int : Max({m, n}) \in {m, n} /\ m <= Max({m, n}) /\ n <= Max({m, n})
<1> SUFFICES ASSUME NEW m \in Int, NEW n \in Int
             PROVE  Max({m, n}) \in {m, n} /\ m <= Max({m, n}) /\ n <= Max({m, n})
  OBVIOUS
<1>1. \E x \in {m, n} : \A y \in {m, n} : x >= y
  <2>1. CASE m <= n
    BY <2>1
  <2>2. CASE n <= m
    BY <2>2
  <2>3. QED
    BY <2>1, <2>2
<1>2. Max({m, n}) \in {m, n} /\ \A y \in {m, n} : Max({m, n}) >= y
  BY <1>1 DEF Max
<1>3. QED
  BY <1>2

\* Numbers can be put in order, and whichever way that is done none is left out.
LEMMA InOrderProperties ==
    ASSUME NEW read, IsFiniteSet(read), read \subseteq Nat, NEW at \in InOrder(read)
    PROVE  /\ Cardinality(read) \in Nat /\ DOMAIN at = 1 .. Cardinality(read)
           /\ \A i \in 1 .. Cardinality(read) : at[i] \in read
           /\ \A p \in read : \E i \in 1 .. Cardinality(read) : at[i] = p
           /\ \A i, j \in 1 .. Cardinality(read) : i < j => at[i] < at[j]
<1> DEFINE n == Cardinality(read)
<1>1. n \in Nat
  BY FS_CardinalityType
<1>2. at \in [1 .. n -> read] /\ \A i, j \in 1 .. n : i < j => at[i] < at[j]
  BY DEF InOrder
<1>3. \A i, j \in 1 .. n : at[i] = at[j] => i = j
  <2>1. SUFFICES ASSUME NEW i \in 1 .. n, NEW j \in 1 .. n, at[i] = at[j], i # j PROVE FALSE
    OBVIOUS
  <2>2. at[i] \in Nat
    BY <1>2
  <2>3. CASE i < j
    BY <1>2, <2>1, <2>2, <2>3
  <2>4. CASE j < i
    BY <1>2, <2>1, <2>2, <2>4
  <2>5. i < j \/ j < i
    BY <1>1, <2>1
  <2>6. QED
    BY <2>3, <2>4, <2>5
<1>4. at \in Injection(1 .. n, read)
  BY <1>2, <1>3 DEF Injection, IsInjective
<1>5. IsFiniteSet(1 .. n) /\ Cardinality(1 .. n) = n
  BY <1>1, FS_Interval
<1>6. at \in Surjection(1 .. n, read)
  BY <1>4, <1>5, FS_Injection
<1>7. \A p \in read : \E i \in 1 .. n : at[i] = p
  BY <1>6 DEF Surjection
<1>8. QED
  BY <1>1, <1>2, <1>7

\* A set of numbers that is not empty has a least one, and a greatest one if it is bounded.
LEMMA LeastOf ==
    ASSUME NEW S, S \subseteq Nat, S # {}
    PROVE  Min(S) \in S /\ \A p \in S : Min(S) <= p
<1>1. IsWellFoundedOn(OpToRel(<, Nat), Nat)
  BY NatLessThanWellFounded
<1>2. PICK least \in S : \A p \in S : ~ (<<p, least>> \in OpToRel(<, Nat))
  BY <1>1, WFMin
<1>3. \A p \in S : ~(p < least)
  BY <1>2 DEF OpToRel
<1>4. \E x \in S : \A p \in S : x <= p
  BY <1>3
<1>5. QED
  BY <1>4 DEF Min

LEMMA GreatestOf ==
    ASSUME NEW S, S \subseteq Nat, S # {}, NEW bound \in Nat, \A p \in S : p <= bound
    PROVE  Max(S) \in S /\ \A p \in S : p <= Max(S)
<1> DEFINE T == {bound - p : p \in S}
<1>1. T \subseteq Nat /\ T # {}
  <2>1. \A p \in S : p \in Nat /\ p <= bound /\ bound - p \in Nat
    OBVIOUS
  <2>2. PICK p \in S : TRUE
    OBVIOUS
  <2>3. bound - p \in T
    OBVIOUS
  <2>4. QED
    BY <2>1, <2>3
<1>2. Min(T) \in T /\ \A d \in T : Min(T) <= d
  BY <1>1, LeastOf
<1>3. PICK most \in S : Min(T) = bound - most
  BY <1>2
<1>4. \A p \in S : bound - most <= bound - p
  BY <1>2, <1>3
<1>5. \E x \in S : \A p \in S : x >= p
  BY <1>4
<1>6. QED
  BY <1>5 DEF Max

LEMMA ShapesOf ==
    ASSUME Shaped
    PROVE  /\ bus.events \in Seq(Events) /\ Published \in Nat /\ bus.dropped \in Nat
           /\ bus.offset \in [learning : Nat, relay : Nat] /\ bus \in Buses /\ kafka \in Consumers
           /\ bus.offset.learning \in Nat /\ bus.offset.relay \in Nat
           /\ bus = [events |-> bus.events, dropped |-> bus.dropped, offset |-> bus.offset]
           /\ log \in Seq(Nat) /\ Len(log) \in Nat /\ \A p \in 1 .. Len(log) : log[p] \in Nat
           /\ kafka.committed \in Nat /\ kafka.next \in Nat \ {0} /\ kafka.pending \in Nat
           /\ kafka.position \in [Numbers -> Nat]
           /\ MaxEvents \in Nat \ {0} /\ PollLimit \in Nat \ {0} /\ BusCapacity \in Nat \ {0}
<1>1. /\ bus.events \in Seq(Events) /\ bus.dropped \in Nat /\ bus.offset \in [learning : Nat, relay : Nat]
      /\ bus = [events |-> bus.events, dropped |-> bus.dropped, offset |-> bus.offset]
  BY DEF Shaped, Buses
<1>2. Published \in Nat /\ log \in Seq(Nat) /\ Len(log) \in Nat /\ \A p \in 1 .. Len(log) : log[p] \in Nat
  BY <1>1, LenProperties, ElementOfSeq DEF Shaped, Published
<1>3. /\ kafka.committed \in Nat /\ kafka.next \in Nat \ {0} /\ kafka.pending \in Nat
      /\ kafka.position \in [Numbers -> Nat]
  BY DEF Shaped, Consumers
<1>4. QED
  BY <1>1, <1>2, <1>3, DeliveryAssumption DEF DeliveryAssumption, Shaped

LEMMA HandsOf ==
    ASSUME NEW loop, HasInHand(loop), Published \in Nat
    PROVE  /\ loop.at \in {"idle", "handle", "commit"} /\ loop.batch \in Seq(Nat) /\ Len(loop.batch) \in Nat
           /\ loop = [at |-> loop.at, batch |-> loop.batch]
           /\ \A i \in 1 .. Len(loop.batch) : loop.batch[i] \in Nat
           /\ loop.at # "idle" => /\ Len(loop.batch) > 0 /\ Head(loop.batch) = loop.batch[1]
                                  /\ loop.batch[1] \in 1 .. Published
<1>1. /\ loop.at \in {"idle", "handle", "commit"} /\ loop.batch \in Seq(Nat)
      /\ loop = [at |-> loop.at, batch |-> loop.batch]
  BY DEF HasInHand, Loops
<1>2. Len(loop.batch) \in Nat /\ \A i \in 1 .. Len(loop.batch) : loop.batch[i] \in Nat
  BY <1>1, LenProperties, ElementOfSeq
<1>3. ASSUME loop.at # "idle"
      PROVE  Len(loop.batch) > 0 /\ Head(loop.batch) = loop.batch[1] /\ loop.batch[1] \in 1 .. Published
  <2>1. loop.batch # <<>>
    BY <1>3 DEF HasInHand
  <2>2. Len(loop.batch) > 0 /\ Head(loop.batch) = loop.batch[1]
    BY <1>1, <1>2, <2>1, EmptySeq, HeadTailProperties
  <2>3. QED
    BY <1>2, <2>2 DEF HasInHand
<1>4. QED
  BY <1>1, <1>2, <1>3

LEMMA IdleHasNothing == HasInHand(Loop)
<1>1. <<>> \in Seq(Nat) /\ Len(<<>>) = 0 /\ PollLimit \in Nat
  BY EmptySeq, DeliveryAssumption DEF DeliveryAssumption
<1>2. QED
  BY <1>1 DEF HasInHand, Loop, Loops

\* A commit leaves the loop the rest of what it had in hand.
LEMMA AfterCommitProperties ==
    ASSUME NEW loop, HasInHand(loop), Published \in Nat, loop.at # "idle"
    PROVE  /\ HasInHand(AfterCommit(loop)) /\ AfterCommit(loop).at \in {"idle", "handle"}
           /\ AfterCommit(loop).batch = Tail(loop.batch)
           /\ Len(Tail(loop.batch)) = Len(loop.batch) - 1
           /\ \A i \in 1 .. Len(loop.batch) - 1 : Tail(loop.batch)[i] = loop.batch[i + 1]
<1> DEFINE b == loop.batch
<1>1. b \in Seq(Nat) /\ Len(b) \in Nat /\ Len(b) > 0 /\ b # <<>>
  BY HandsOf, EmptySeq
<1>2. /\ Tail(b) \in Seq(Nat) /\ Len(Tail(b)) = Len(b) - 1
      /\ \A i \in 1 .. Len(Tail(b)) : Tail(b)[i] = b[i + 1]
  BY <1>1, HeadTailProperties
<1>3. /\ AfterCommit(loop).batch = Tail(b) /\ AfterCommit(loop).at \in {"idle", "handle"}
      /\ AfterCommit(loop).at # "idle" => Tail(b) # <<>>
      /\ AfterCommit(loop) = [at |-> AfterCommit(loop).at, batch |-> Tail(b)]
  BY DEF AfterCommit
<1>4. AfterCommit(loop) \in Loops
  BY <1>2, <1>3 DEF Loops
<1>5. Len(Tail(b)) <= PollLimit
  BY <1>1, <1>2, DeliveryAssumption DEF HasInHand, DeliveryAssumption
<1>6. \A i \in 1 .. Len(Tail(b)) : Tail(b)[i] \in 1 .. Published
  BY <1>1, <1>2 DEF HasInHand
<1>7. HasInHand(AfterCommit(loop))
  BY <1>3, <1>4, <1>5, <1>6 DEF HasInHand
<1>8. QED
  BY <1>2, <1>3, <1>7

\* An event more; the bus may drop some of those it had.
LEMMA StoredProperties ==
    ASSUME Shaped, Bounded, NEW e \in Events, Stored(e)
    PROVE  /\ bus' \in Buses
           /\ Published' = Published + 1 /\ bus'.offset = bus.offset
           /\ bus.dropped <= bus'.dropped /\ bus'.dropped <= Published'
<1> DEFINE dropped == IF transport = "inprocess" /\ Published + 1 - BusCapacity > bus.dropped
                      THEN Published + 1 - BusCapacity ELSE bus.dropped
<1>t. /\ bus.events \in Seq(Events) /\ Published \in Nat /\ bus.dropped \in Nat /\ BusCapacity \in Nat \ {0}
      /\ bus.offset \in [learning : Nat, relay : Nat] /\ bus.dropped <= Published
      /\ bus = [events |-> bus.events, dropped |-> bus.dropped, offset |-> bus.offset]
  BY ShapesOf DEF Bounded
<1>1. bus' = [events |-> Append(bus.events, e), dropped |-> dropped, offset |-> bus.offset]
  BY <1>t DEF Stored
<1>2. dropped \in Nat /\ bus.dropped <= dropped /\ dropped <= Published + 1
  BY <1>t
<1>3. Append(bus.events, e) \in Seq(Events) /\ Len(Append(bus.events, e)) = Published + 1
  BY <1>t, AppendProperties DEF Published
<1> HIDE DEF dropped
<1>4. QED
  BY <1>t, <1>1, <1>2, <1>3 DEF Published, Buses

\* A commit moves the offset of its group only, and never back.
LEMMA AdvanceProperties ==
    ASSUME Shaped, Bounded, NEW group \in {"learning", "relay"}, NEW n \in 1 .. Published, Advance(group, n)
    PROVE  /\ bus' \in Buses
           /\ Published' = Published /\ bus'.dropped = bus.dropped
           /\ bus'.offset[group] = IF n > bus.offset[group] THEN n ELSE bus.offset[group]
           /\ \A other \in {"learning", "relay"} \ {group} : bus'.offset[other] = bus.offset[other]
<1>t. /\ bus.events \in Seq(Events) /\ Published \in Nat /\ bus.dropped \in Nat
      /\ bus.offset \in [learning : Nat, relay : Nat]
      /\ bus = [events |-> bus.events, dropped |-> bus.dropped, offset |-> bus.offset]
  BY ShapesOf
<1> DEFINE at == IF n > bus.offset[group] THEN n ELSE bus.offset[group]
           offset == [bus.offset EXCEPT ![group] = at]
<1>1. at \in Nat
  BY <1>t
<1>2. /\ offset \in [learning : Nat, relay : Nat] /\ offset[group] = at
      /\ \A other \in {"learning", "relay"} \ {group} : offset[other] = bus.offset[other]
  BY <1>t, <1>1
<1>3. bus' = [events |-> bus.events, dropped |-> bus.dropped, offset |-> offset]
  BY <1>t DEF Advance
<1> HIDE DEF offset
<1>4. QED
  BY <1>t, <1>2, <1>3 DEF Published, Buses

\* What a poll of a bus returns is numbers it may see, in order, and there is none below the last of
\* them that it leaves out.
LEMMA PollProperties ==
    ASSUME Shaped, Bounded, NEW group \in {"learning", "relay"}, Uncommitted(group) # {},
           NEW batch \in Polls(group)
    PROVE  /\ HasInHand([at |-> "handle", batch |-> batch])
           /\ \A i \in 1 .. Len(batch) : batch[i] \in visible
           /\ \A i, j \in 1 .. Len(batch) : i < j => batch[i] < batch[j]
           /\ \A n \in visible : \A i \in 1 .. Len(batch) :
                 bus.dropped < n /\ bus.offset[group] < n /\ n <= batch[i] => \E j \in 1 .. Len(batch) : batch[j] = n
<1> DEFINE all == Uncommitted(group)
           from == Max({bus.offset[group], bus.dropped})
<1>t. bus.offset[group] \in Nat /\ bus.dropped \in Nat /\ Published \in Nat /\ PollLimit \in Nat \ {0}
  BY ShapesOf
<1>f. /\ from \in Nat
      /\ \A n \in Nat : bus.dropped < n /\ bus.offset[group] < n => n > from
  <2> DEFINE a == bus.offset[group]
             b == bus.dropped
  <2>1. a \in Nat /\ b \in Nat /\ a \in Int /\ b \in Int
    BY <1>t
  <2> HIDE DEF a, b
  <2>2. Max({a, b}) \in {a, b}
    BY <2>1, MaxOfTwo
  <2>3. Max({a, b}) \in Nat /\ \A n \in Nat : b < n /\ a < n => n > Max({a, b})
    BY <2>1, <2>2
  <2>4. QED
    BY <2>3 DEF a, b
<1>1. all = {n \in visible : n > from}
  BY DEF Uncommitted
<1>2. visible \subseteq 1 .. Published
  BY DEF Bounded, Drawn
<1> HIDE DEF from
<1>3. all \subseteq 1 .. Published /\ IsFiniteSet(all) /\ Cardinality(all) \in Nat \ {0}
  <2>1. all \subseteq 1 .. Published /\ all # {}
    BY <1>1, <1>2
  <2>2. IsFiniteSet(1 .. Published)
    BY <1>t, FS_Interval
  <2>3. IsFiniteSet(all)
    BY <2>1, <2>2, FS_Subset
  <2>4. Cardinality(all) \in Nat /\ Cardinality(all) # 0
    BY <2>1, <2>3, FS_CardinalityType, FS_EmptySet
  <2>5. QED
    BY <2>1, <2>3, <2>4
<1>4. PICK read \in SUBSET all :
          /\ Cardinality(read) = Min({Cardinality(all), PollLimit})
          /\ \A n \in read, m \in all \ read : n < m
          /\ batch \in InOrder(read)
  <2> DEFINE firsts == {first \in SUBSET all :
                          /\ Cardinality(first) = Min({Cardinality(all), PollLimit})
                          /\ \A n \in first, m \in all \ first : n < m}
  <2>1. batch \in UNION {InOrder(read) : read \in firsts}
    BY DEF Polls
  <2>2. PICK read \in firsts : batch \in InOrder(read)
    BY <2>1
  <2>3. QED
    BY <2>2
<1> HIDE DEF all
<1>5. IsFiniteSet(read) /\ read \subseteq Nat /\ read \subseteq 1 .. Published /\ read \subseteq visible
  <2>1. read \subseteq all /\ all \subseteq visible
    BY <1>1, <1>4
  <2>2. IsFiniteSet(read)
    BY <1>3, <2>1, FS_Subset
  <2>3. QED
    BY <1>3, <1>t, <2>1, <2>2
<1> DEFINE k == Cardinality(read)
<1>6. k \in Nat \ {0} /\ k <= PollLimit
  <2> DEFINE a == Cardinality(all)
  <2>1. a \in Int /\ PollLimit \in Int /\ a \in Nat \ {0}
    BY <1>t, <1>3
  <2> HIDE DEF a
  <2>2. Min({a, PollLimit}) \in {a, PollLimit} /\ Min({a, PollLimit}) <= PollLimit
    BY <2>1, MinOfTwo
  <2>3. Min({a, PollLimit}) \in Nat \ {0} /\ Min({a, PollLimit}) <= PollLimit
    BY <1>t, <2>1, <2>2
  <2>4. QED
    BY <1>4, <2>3 DEF a
<1>7. /\ DOMAIN batch = 1 .. k
      /\ \A i \in 1 .. k : batch[i] \in read
      /\ \A p \in read : \E i \in 1 .. k : batch[i] = p
      /\ \A i, j \in 1 .. k : i < j => batch[i] < batch[j]
  BY <1>4, <1>5, InOrderProperties
<1>8. batch \in [1 .. k -> read]
  BY <1>4 DEF InOrder
<1> HIDE DEF k
<1>9. batch \in Seq(Nat) /\ Len(batch) = k
  <2>1. batch \in [1 .. k -> Nat]
    BY <1>5, <1>8
  <2>2. batch \in Seq(Nat)
    BY <1>6, <2>1
  <2>3. QED
    BY <1>6, <1>7, <2>2, LenProperties
<1>10. HasInHand([at |-> "handle", batch |-> batch])
  <2>1. batch # <<>>
    BY <1>6, <1>9, EmptySeq
  <2>2. \A i \in 1 .. Len(batch) : batch[i] \in 1 .. Published
    BY <1>5, <1>7, <1>9
  <2>3. QED
    BY <1>6, <1>9, <2>1, <2>2 DEF HasInHand, Loops
<1>11. ASSUME NEW n \in visible, NEW i \in 1 .. Len(batch), bus.dropped < n, bus.offset[group] < n, n <= batch[i]
       PROVE  \E j \in 1 .. Len(batch) : batch[j] = n
  <2>1. n \in Nat /\ n \in all
    BY <1>1, <1>2, <1>f, <1>11
  <2>2. batch[i] \in read /\ batch[i] \in Nat
    BY <1>5, <1>7, <1>9
  <2>3. n \in read
    BY <1>4, <1>11, <2>1, <2>2
  <2>4. QED
    BY <1>7, <1>9, <2>3
<1>12. QED
  BY <1>5, <1>7, <1>9, <1>10, <1>11

\* Numbers above everything drawn so far, numbers rolled back, and events done since change nothing.
LEMMA PassedStays ==
    ASSUME Published \in Nat, NEW offset \in Nat, offset <= Published,
           NEW drawn, NEW drawn2, drawn2 \subseteq Nat, \A n \in drawn2 : n \in drawn \/ n > Published,
           NEW dropped \in Nat, NEW dropped2 \in Nat, dropped <= dropped2,
           NEW done, NEW done2, done \subseteq done2,
           Passed(offset, drawn, dropped, done)
    PROVE  Passed(offset, drawn2, dropped2, done2)
  BY DEF Passed

LEMMA HoldsStays ==
    ASSUME Published \in Nat, NEW loop, HasInHand(loop),
           NEW drawn, NEW drawn2, drawn2 \subseteq Nat, \A n \in drawn2 : n \in drawn \/ n > Published,
           NEW dropped \in Nat, NEW dropped2 \in Nat, dropped <= dropped2,
           NEW done, NEW done2, done \subseteq done2,
           Holds(loop, drawn, dropped, done)
    PROVE  Holds(loop, drawn2, dropped2, done2)
<1> SUFFICES ASSUME loop.at # "idle" PROVE Holds(loop, drawn2, dropped2, done2)
  BY DEF Holds
<1>1. \A i \in 1 .. Len(loop.batch) : loop.batch[i] \in Nat /\ loop.batch[i] <= Published
  BY DEF HasInHand
<1>2. ASSUME NEW n \in drawn2, NEW i \in 1 .. Len(loop.batch), dropped2 < n, n <= loop.batch[i]
      PROVE  n \in done2 \/ \E j \in 1 .. Len(loop.batch) : loop.batch[j] = n
  <2>1. n \in drawn /\ dropped < n /\ n \in Nat
    BY <1>1, <1>2
  <2>2. n \in done \/ \E j \in 1 .. Len(loop.batch) : loop.batch[j] = n
    BY <1>2, <2>1 DEF Holds
  <2>3. QED
    BY <2>1, <2>2
<1>3. loop.at = "commit" => loop.batch[1] \in done2
  BY DEF Holds
<1>4. QED
  BY <1>2, <1>3 DEF Holds

LEMMA IdleHolds == \A drawn, dropped, done : Holds(Loop, drawn, dropped, done)
  BY DEF Holds, Loop

\* After a poll: what the offset is not past yet and the poll could not see is overtaken.
LEMMA PollHolds ==
    ASSUME Shaped, Bounded, NEW group \in {"learning", "relay"}, Uncommitted(group) # {},
           NEW batch \in Polls(group), Overtake(batch), NEW done, NEW done2,
           Passed(bus.offset[group], Drawn, bus.dropped, done), done \subseteq done2,
           overtaken' \subseteq done2
    PROVE  Holds([at |-> "handle", batch |-> batch], Drawn, bus.dropped, done2)
<1>1. /\ \A i \in 1 .. Len(batch) : batch[i] \in visible
      /\ \A i, j \in 1 .. Len(batch) : i < j => batch[i] < batch[j]
      /\ \A n \in visible : \A i \in 1 .. Len(batch) :
            bus.dropped < n /\ bus.offset[group] < n /\ n <= batch[i] => \E j \in 1 .. Len(batch) : batch[j] = n
      /\ batch \in Seq(Nat)
  BY PollProperties DEF HasInHand, Loops
<1>t. /\ bus.offset[group] \in Nat /\ bus.dropped \in Nat /\ Published \in Nat
      /\ Drawn \subseteq 1 .. Published /\ open \intersect visible = {} /\ DOMAIN batch = 1 .. Len(batch)
  BY <1>1, ShapesOf, LenProperties DEF Bounded
<1>2. ASSUME NEW n \in Drawn, NEW i \in 1 .. Len(batch), bus.dropped < n, n <= batch[i]
      PROVE  n \in done2 \/ \E j \in 1 .. Len(batch) : batch[j] = n
  <2>1. n \in Nat /\ batch[i] \in visible /\ batch[i] \in Nat
    BY <1>1, <1>t DEF Drawn
  <2>2. CASE n <= bus.offset[group]
    BY <1>2, <2>2 DEF Passed
  <2>3. CASE bus.offset[group] < n /\ n \in visible
    BY <1>1, <1>2, <2>3
  <2>4. CASE n \in open
    <3>1. n < batch[i]
      BY <1>2, <1>t, <2>1, <2>4
    <3>2. n \in overtaken'
      BY <1>t, <2>4, <3>1 DEF Overtake
    <3>3. QED
      BY <3>2
  <2>5. QED
    BY <1>t, <2>1, <2>2, <2>3, <2>4 DEF Drawn
<1>3. QED
  BY <1>1, <1>2 DEF Holds

\* The first of a batch is done.
LEMMA DoneHolds ==
    ASSUME NEW loop, loop.at = "handle", NEW drawn, NEW dropped, NEW done, NEW done2,
           Holds(loop, drawn, dropped, done), done \subseteq done2, loop.batch[1] \in done2
    PROVE  Holds([at |-> "commit", batch |-> loop.batch], drawn, dropped, done2)
  BY DEF Holds

\* A commit moves the offset to the first of the batch, if it moves it.
LEMMA CommitPasses ==
    ASSUME NEW loop, HasInHand(loop), Published \in Nat, loop.at = "commit",
           NEW drawn, drawn \subseteq Nat, NEW dropped \in Nat, NEW done,
           NEW offset \in Nat, NEW offset2 \in {offset, loop.batch[1]},
           Passed(offset, drawn, dropped, done), Holds(loop, drawn, dropped, done)
    PROVE  Passed(offset2, drawn, dropped, done) /\ Holds(AfterCommit(loop), drawn, dropped, done)
<1> DEFINE b == loop.batch
<1>1. /\ Len(b) \in Nat /\ Len(b) > 0 /\ \A i \in 1 .. Len(b) : b[i] \in Nat
      /\ b[1] \in Nat
  BY HandsOf
<1>2. /\ AfterCommit(loop).at \in {"idle", "handle"} /\ AfterCommit(loop).batch = Tail(b)
      /\ Len(Tail(b)) = Len(b) - 1
      /\ \A i \in 1 .. Len(b) - 1 : Tail(b)[i] = b[i + 1]
  BY AfterCommitProperties
<1>3. /\ \A i, j \in 1 .. Len(b) : i < j => b[i] < b[j]
      /\ \A n \in drawn : \A i \in 1 .. Len(b) :
            dropped < n /\ n <= b[i] => n \in done \/ \E j \in 1 .. Len(b) : b[j] = n
      /\ b[1] \in done
  BY DEF Holds
<1> HIDE DEF b
<1>4. ASSUME NEW n \in drawn, dropped < n, n <= b[1] PROVE n \in done
  <2>1. n \in Nat /\ 1 \in 1 .. Len(b)
    BY <1>1
  <2>2. n \in done \/ \E j \in 1 .. Len(b) : b[j] = n
    BY <1>3, <1>4, <2>1
  <2>3. ASSUME NEW j \in 1 .. Len(b), b[j] = n PROVE j = 1
    <3>1. SUFFICES ASSUME j # 1 PROVE FALSE
      OBVIOUS
    <3>2. 1 < j
      BY <1>1, <3>1
    <3>3. b[1] < b[j]
      BY <1>3, <2>1, <3>2
    <3>4. QED
      BY <1>1, <1>4, <2>1, <2>3, <3>3
  <2>4. QED
    BY <1>3, <2>2, <2>3
<1>5. Passed(offset2, drawn, dropped, done)
  BY <1>4 DEF Passed, b
<1>6. \A i \in 1 .. Len(Tail(b)) : i + 1 \in 1 .. Len(b) /\ Tail(b)[i] = b[i + 1]
  BY <1>1, <1>2
<1>7. \A i, j \in 1 .. Len(Tail(b)) : i < j => Tail(b)[i] < Tail(b)[j]
  <2> SUFFICES ASSUME NEW i \in 1 .. Len(Tail(b)), NEW j \in 1 .. Len(Tail(b)), i < j PROVE Tail(b)[i] < Tail(b)[j]
    OBVIOUS
  <2>1. i + 1 < j + 1
    BY <1>1, <1>2
  <2>2. QED
    BY <1>3, <1>6, <2>1
<1>8. ASSUME NEW n \in drawn, NEW i \in 1 .. Len(Tail(b)), dropped < n, n <= Tail(b)[i]
      PROVE  n \in done \/ \E j \in 1 .. Len(Tail(b)) : Tail(b)[j] = n
  <2>1. n \in done \/ \E j \in 1 .. Len(b) : b[j] = n
    BY <1>3, <1>6, <1>8
  <2>2. ASSUME NEW j \in 1 .. Len(b), b[j] = n PROVE n \in done \/ \E m \in 1 .. Len(Tail(b)) : Tail(b)[m] = n
    <3>1. CASE j = 1
      BY <1>3, <2>2, <3>1
    <3>2. CASE j # 1
      <4>1. j - 1 \in 1 .. Len(Tail(b)) /\ (j - 1) + 1 = j
        BY <1>1, <1>2, <3>2
      <4>2. Tail(b)[j - 1] = b[j]
        BY <1>6, <4>1
      <4>3. QED
        BY <2>2, <4>1, <4>2
    <3>3. QED
      BY <3>1, <3>2
  <2>3. QED
    BY <2>1, <2>2
<1>9. QED
  BY <1>2, <1>5, <1>7, <1>8 DEF Holds

\* What a poll of the topic does: it reads on from where it goes back to, puts what are events in
\* hand in order, notes where they are, and marks the first of them to go back to.
LEMMA KafkaPollProperties ==
    ASSUME Delivered, KafkaPoll
    PROVE  /\ transport = "kafka" /\ learner.at = "idle"
           /\ UNCHANGED <<transport, emitting, rows, log, relay, handled, overtaken>>
           /\ kafka' \in Consumers
           /\ \E upto \in 1 .. Len(log) :
                 LET read == {p \in SeekPending .. upto : log[p] # 0} IN
                 /\ SeekPending \in Nat \ {0} /\ SeekPending <= upto
                 /\ kafka'.committed = kafka.committed /\ kafka'.next = upto + 1
                 /\ \A n \in Numbers : \/ kafka'.position[n] = kafka.position[n] /\ \A p \in read : log[p] # n
                                       \/ kafka'.position[n] \in read /\ log[kafka'.position[n]] = n
                 /\ \/ read = {} /\ learner' = Loop /\ kafka'.pending = kafka.pending
                    \/ /\ kafka'.pending \in SeekPending .. upto
                       /\ \A p \in read : kafka'.pending <= p
                       /\ HasInHand(learner') /\ learner'.at = "handle"
                       /\ \E at \in [1 .. Len(learner'.batch) -> read] :
                             /\ \A i \in 1 .. Len(learner'.batch) : learner'.batch[i] = log[at[i]]
                             /\ \A i, j \in 1 .. Len(learner'.batch) : i < j => at[i] < at[j]
                             /\ \A p \in read : \E i \in 1 .. Len(learner'.batch) : at[i] = p
<1> DEFINE from == SeekPending
           upto == Min({Len(log), from + PollLimit - 1})
           read == {p \in from .. upto : log[p] # 0}
<1>t. /\ Len(log) \in Nat /\ \A p \in 1 .. Len(log) : log[p] \in Nat
      /\ kafka.committed \in Nat /\ kafka.next \in Nat \ {0} /\ kafka.pending \in Nat
      /\ kafka.position \in [Numbers -> Nat] /\ PollLimit \in Nat \ {0} /\ Published \in Nat
      /\ kafka = [committed |-> kafka.committed, next |-> kafka.next, pending |-> kafka.pending,
                   position |-> kafka.position]
  BY ShapesOf DEF Delivered, Shaped, Consumers
<1>f. from \in Nat \ {0}
  BY <1>t DEF SeekPending
<1>u. /\ transport = "kafka" /\ learner.at = "idle" /\ from <= upto
      /\ UNCHANGED <<transport, emitting, rows, log, relay, handled, overtaken>>
  BY DEF KafkaPoll, Reads
<1>k. kafka' = [kafka EXCEPT
              !.next = upto + 1,
              !.pending = IF read = {} THEN @ ELSE Min(read \union ({@} \ {0})),
              !.position = [n \in Numbers |->
                  LET copies == {p \in read : log[p] = n} IN IF copies = {} THEN @[n] ELSE Max(copies)]]
  BY DEF KafkaPoll, Reads
<1>b. PICK at \in InOrder(read) :
          learner' = IF read = {} THEN Loop ELSE [at |-> "handle", batch |-> [i \in DOMAIN at |-> log[at[i]]]]
  BY DEF KafkaPoll, Reads
<1>1. upto \in Int /\ upto <= Len(log) /\ upto <= from + PollLimit - 1
  <2> DEFINE a == Len(log)
             b == from + PollLimit - 1
  <2>1. a \in Int /\ b \in Int
    BY <1>t, <1>f
  <2> HIDE DEF a, b
  <2>2. Min({a, b}) \in {a, b} /\ Min({a, b}) <= a /\ Min({a, b}) <= b
    BY <2>1, MinOfTwo
  <2>3. Min({a, b}) \in Int
    BY <2>1, <2>2
  <2>4. QED
    BY <2>2, <2>3 DEF a, b
<1> HIDE DEF from, upto
<1>2. upto \in 1 .. Len(log) /\ read \subseteq 1 .. Len(log) /\ read \subseteq from .. upto
  BY <1>t, <1>f, <1>u, <1>1
<1>3. \A p \in read : p \in Nat /\ p <= upto /\ log[p] \in 1 .. Published
  BY <1>t, <1>2 DEF Delivered, Bounded
<1>4. IsFiniteSet(read) /\ Cardinality(read) <= PollLimit
  <2>1. IsFiniteSet(from .. upto) /\ Cardinality(from .. upto) = upto - from + 1
    BY <1>f, <1>u, <1>1, FS_Interval
  <2>2. IsFiniteSet(read) /\ Cardinality(read) <= Cardinality(from .. upto)
    BY <2>1, FS_Subset
  <2>3. Cardinality(read) \in Nat
    BY <2>2, FS_CardinalityType
  <2>4. QED
    BY <1>t, <1>f, <1>1, <2>1, <2>2, <2>3
<1>p. \A n \in Numbers :
          LET copies == {p \in read : log[p] = n} IN
          copies # {} => Max(copies) \in copies
  <2> SUFFICES ASSUME NEW n \in Numbers, {p \in read : log[p] = n} # {}
               PROVE  Max({p \in read : log[p] = n}) \in {p \in read : log[p] = n}
    OBVIOUS
  <2> DEFINE copies == {p \in read : log[p] = n}
  <2>1. copies \subseteq Nat /\ upto \in Nat /\ \A p \in copies : p <= upto
    BY <1>2, <1>3
  <2> HIDE DEF copies
  <2>2. copies # {} => Max(copies) \in copies
    BY <2>1, GreatestOf
  <2>3. QED
    BY <2>2 DEF copies
<1>q. /\ kafka'.committed = kafka.committed /\ kafka'.next = upto + 1
      /\ kafka'.pending = IF read = {} THEN kafka.pending ELSE Min(read \union ({kafka.pending} \ {0}))
      /\ kafka'.position = [n \in Numbers |->
             IF {p \in read : log[p] = n} = {} THEN kafka.position[n] ELSE Max({p \in read : log[p] = n})]
      /\ kafka' = [committed |-> kafka'.committed, next |-> kafka'.next, pending |-> kafka'.pending,
                   position |-> kafka'.position]
  BY <1>t, <1>k
<1> HIDE DEF read
<1>5. ASSUME NEW n \in Numbers
      PROVE  \/ kafka'.position[n] = kafka.position[n] /\ \A p \in read : log[p] # n
             \/ kafka'.position[n] \in read /\ log[kafka'.position[n]] = n
  BY <1>p, <1>q
<1>6. kafka'.position \in [Numbers -> Nat]
  <2>1. \A n \in Numbers : kafka'.position[n] \in Nat
    BY <1>t, <1>3, <1>5
  <2>2. DOMAIN kafka'.position = Numbers /\ kafka'.position = [n \in Numbers |-> kafka'.position[n]]
    BY <1>q
  <2>3. QED
    BY <2>1, <2>2
<1>7. read # {} => kafka'.pending \in from .. upto /\ \A p \in read : kafka'.pending <= p
  <2> SUFFICES ASSUME read # {} PROVE kafka'.pending \in from .. upto /\ \A p \in read : kafka'.pending <= p
    OBVIOUS
  <2> DEFINE S == read \union ({kafka.pending} \ {0})
  <2>1. S \subseteq Nat /\ S # {}
    BY <1>t, <1>3
  <2>2. \A p \in S : p \in from .. upto
    <3>1. kafka.pending # 0 => kafka.pending = from
      BY DEF SeekPending, from
    <3>2. QED
      BY <1>2, <1>f, <1>u, <1>1, <3>1
  <2>3. kafka'.pending = Min(S)
    BY <1>q
  <2> HIDE DEF S
  <2>4. Min(S) \in S /\ \A p \in S : Min(S) <= p
    BY <2>1, LeastOf
  <2>5. QED
    BY <2>2, <2>3, <2>4 DEF S
<1>8. kafka'.pending \in Nat
  BY <1>t, <1>f, <1>q, <1>7
<1>9. kafka' \in Consumers
  <2>1. kafka'.committed \in Nat /\ kafka'.next \in Nat \ {0}
    BY <1>t, <1>2, <1>q
  <2>2. kafka' = [committed |-> kafka'.committed, next |-> kafka'.next, pending |-> kafka'.pending,
                  position |-> kafka'.position]
    BY <1>q
  <2>3. QED
    BY <1>6, <1>8, <2>1, <2>2 DEF Consumers
<1>10. ASSUME read # {}
       PROVE  /\ HasInHand(learner') /\ learner'.at = "handle"
              /\ \E a \in [1 .. Len(learner'.batch) -> read] :
                    /\ \A i \in 1 .. Len(learner'.batch) : learner'.batch[i] = log[a[i]]
                    /\ \A i, j \in 1 .. Len(learner'.batch) : i < j => a[i] < a[j]
                    /\ \A p \in read : \E i \in 1 .. Len(learner'.batch) : a[i] = p
  <2> DEFINE n == Cardinality(read)
             b == [i \in DOMAIN at |-> log[at[i]]]
  <2>1. /\ n \in Nat /\ DOMAIN at = 1 .. n
        /\ \A i \in 1 .. n : at[i] \in read
        /\ \A p \in read : \E i \in 1 .. n : at[i] = p
        /\ \A i, j \in 1 .. n : i < j => at[i] < at[j]
    BY <1>3, <1>4, InOrderProperties
  <2>2. at \in [1 .. n -> read]
    BY DEF InOrder
  <2>3. b \in [1 .. n -> Nat] /\ \A i \in 1 .. n : b[i] = log[at[i]] /\ b[i] \in 1 .. Published
    BY <1>t, <1>3, <2>1
  <2>4. learner'.at = "handle" /\ learner'.batch = b /\ learner' = [at |-> "handle", batch |-> b]
    BY <1>b, <1>10
  <2> HIDE DEF b
  <2>5. b \in Seq(Nat) /\ Len(b) = n
    <3>1. b \in Seq(Nat) /\ DOMAIN b = 1 .. n
      BY <2>1, <2>3
    <3>2. QED
      BY <2>1, <3>1, LenProperties
  <2>6. b # <<>>
    BY <1>10, <2>1, <2>5, EmptySeq
  <2>7. HasInHand([at |-> "handle", batch |-> b])
    BY <1>4, <2>3, <2>5, <2>6 DEF HasInHand, Loops
  <2>8. HasInHand(learner') /\ learner'.at = "handle"
    BY <2>4, <2>7
  <2>9. /\ at \in [1 .. Len(b) -> read]
        /\ \A i \in 1 .. Len(b) : b[i] = log[at[i]]
        /\ \A i, j \in 1 .. Len(b) : i < j => at[i] < at[j]
        /\ \A p \in read : \E i \in 1 .. Len(b) : at[i] = p
    BY <2>1, <2>2, <2>3, <2>5
  <2>10. \E a \in [1 .. Len(b) -> read] :
            /\ \A i \in 1 .. Len(b) : b[i] = log[a[i]]
            /\ \A i, j \in 1 .. Len(b) : i < j => a[i] < a[j]
            /\ \A p \in read : \E i \in 1 .. Len(b) : a[i] = p
    BY <2>9
  <2>11. learner'.batch = b
    BY <2>4
  <2>12. QED
    BY <2>8, <2>10, <2>11
<1>11. /\ from \in Nat \ {0} /\ from <= upto
       /\ \/ read = {} /\ learner' = Loop /\ kafka'.pending = kafka.pending
          \/ /\ kafka'.pending \in from .. upto
             /\ \A p \in read : kafka'.pending <= p
             /\ HasInHand(learner') /\ learner'.at = "handle"
             /\ \E a \in [1 .. Len(learner'.batch) -> read] :
                   /\ \A i \in 1 .. Len(learner'.batch) : learner'.batch[i] = log[a[i]]
                   /\ \A i, j \in 1 .. Len(learner'.batch) : i < j => a[i] < a[j]
                   /\ \A p \in read : \E i \in 1 .. Len(learner'.batch) : a[i] = p
  BY <1>f, <1>u, <1>b, <1>q, <1>7, <1>10
<1>12. QED
  BY <1>2, <1>5, <1>9, <1>11, <1>q, <1>u DEF read, from

-----------------------------------------------------------------------------
(* Delivery, step by step. *)

LEMMA FromTopicStays ==
    ASSUME FromTopic, UNCHANGED <<transport, log, kafka, learner, handled>> PROVE FromTopic'
  BY DEF FromTopic, PassedOver, Gone, Straddled, SeekPending, PositionsAreRight, BatchIsOpen, BatchIsAt

\* Writes to the bus and to its rows leave loops and topic where they are: what they add has a number
\* above all that was drawn, and what they take away or make visible was drawn.
LEMMA WritingKeepsDelivered ==
    ASSUME Delivered,
           UNCHANGED <<transport, log, kafka, relay, learner, handled, overtaken>>,
           bus' \in Buses, bus'.offset = bus.offset,
           Published <= Published', Published' <= MaxEvents,
           bus.dropped <= bus'.dropped, bus'.dropped <= Published',
           transport = "kafka" => bus'.dropped = bus.dropped,
           Drawn' \subseteq 1 .. Published', \A n \in Drawn' : n \in Drawn \/ n > Published,
           open' \intersect visible' = {}, transport = "inprocess" => open' = {},
           emitting' \subseteq Events,
           emitting' # {} => transport = "inprocess" /\ Published' < MaxEvents /\ \E e : emitting' = {e}
    PROVE  Delivered'
<1>t. /\ Published \in Nat /\ Published' \in Nat /\ \A p \in 1 .. Len(log) : log[p] \in Nat
      /\ bus.dropped \in Nat /\ bus'.dropped \in Nat
      /\ bus.offset.learning \in Nat /\ bus.offset.relay \in Nat
  BY ShapesOf, LenProperties DEF Delivered, Buses, Published
<1>b. /\ HasInHand(learner) /\ \A r \in Relays : HasInHand(relay[r])
      /\ overtaken \subseteq 1 .. Published
      /\ bus.offset.learning <= Published /\ bus.offset.relay <= Published
      /\ \A p \in 1 .. Len(log) : log[p] <= Published
  BY DEF Delivered, Bounded
<1>1. Shaped'
  BY DEF Delivered, Shaped
<1>2. ASSUME NEW loop, HasInHand(loop)
      PROVE  /\ loop.batch \in Seq(Nat)
             /\ \A i \in 1 .. Len(loop.batch) : loop.batch[i] <= Published /\ loop.batch[i] \in 1 .. Published'
  BY <1>t, <1>2 DEF HasInHand, Loops
<1>3. HasInHand(learner)' /\ \A r \in Relays : HasInHand(relay[r])'
  BY <1>b, <1>2 DEF HasInHand
<1>4. Bounded'
  <2>1. overtaken \subseteq 1 .. Published' /\ \A p \in 1 .. Len(log) : log[p] <= Published'
    BY <1>t, <1>b
  <2>2. bus'.offset.learning <= Published' /\ bus'.offset.relay <= Published'
    BY <1>t, <1>b
  <2>3. QED
    BY <1>3, <2>1, <2>2 DEF Delivered, Bounded
<1>5. Drawn' \subseteq Nat
  BY <1>t
<1>6. FromBus'
  <2>1. SUFFICES ASSUME transport # "kafka"
                 PROVE  /\ Passed(bus.offset.learning, Drawn', bus'.dropped, handled \union overtaken)
                        /\ Holds(learner, Drawn', bus'.dropped, handled \union overtaken)
    BY DEF FromBus
  <2>2. /\ Passed(bus.offset.learning, Drawn, bus.dropped, handled \union overtaken)
        /\ Holds(learner, Drawn, bus.dropped, handled \union overtaken)
    BY <2>1 DEF Delivered, FromBus
  <2>3. Passed(bus.offset.learning, Drawn', bus'.dropped, handled \union overtaken)
    BY <1>t, <1>b, <1>5, <2>2, PassedStays
  <2>4. Holds(learner, Drawn', bus'.dropped, handled \union overtaken)
    BY <1>t, <1>b, <1>2, <1>5, <2>2, HoldsStays
  <2>5. QED
    BY <2>3, <2>4
<1>7. FromOutbox'
  <2>1. SUFFICES ASSUME transport = "kafka"
                 PROVE  /\ bus'.dropped = 0 /\ Passed(bus.offset.relay, Drawn', bus'.dropped, Forwarded)
                        /\ \A r \in Relays : Holds(relay[r], Drawn', bus'.dropped, Forwarded)
    BY DEF FromOutbox, Forwarded, OnTopic
  <2>2. /\ bus.dropped = 0 /\ Passed(bus.offset.relay, Drawn, bus.dropped, Forwarded)
        /\ \A r \in Relays : Holds(relay[r], Drawn, bus.dropped, Forwarded)
    BY <2>1 DEF Delivered, FromOutbox
  <2>3. Passed(bus.offset.relay, Drawn', bus'.dropped, Forwarded)
    BY <1>t, <1>b, <1>5, <2>2, PassedStays
  <2>4. ASSUME NEW r \in Relays PROVE Holds(relay[r], Drawn', bus'.dropped, Forwarded)
    BY <1>t, <1>b, <1>2, <1>5, <2>2, HoldsStays
  <2>5. QED
    BY <2>1, <2>2, <2>3, <2>4
<1>8. FromTopic'
  BY FromTopicStays DEF Delivered
<1>9. QED
  BY <1>1, <1>4, <1>6, <1>7, <1>8 DEF Delivered

LEMMA WritingDelivers ==
    ASSUME Delivered,
           \/ \E i \in Changes, to \in States : Save(i, to) \/ Begin(i, to)
           \/ \E n \in open : Commit(n) \/ Rollback(n)
           \/ EmitStep
           \/ UNCHANGED vars
    PROVE  Delivered'
<1>t. /\ Published \in Nat /\ bus \in Buses /\ bus.dropped \in Nat /\ MaxEvents \in Nat
      /\ Published <= MaxEvents /\ bus.dropped <= Published
      /\ Drawn \subseteq 1 .. Published /\ open \intersect visible = {}
      /\ emitting \subseteq Events
      /\ transport = "inprocess" => open = {}
      /\ emitting # {} => transport = "inprocess" /\ Published < MaxEvents /\ \E e : emitting = {e}
  BY ShapesOf DEF Delivered, Shaped, Bounded
<1>1. ASSUME UNCHANGED <<transport, bus, log, kafka, relay, learner, handled, overtaken>>,
             open' \subseteq open, visible' \subseteq Drawn, open' \intersect visible' = {},
             emitting' \subseteq Events,
             emitting' # {} => transport = "inprocess" /\ Published < MaxEvents /\ \E e : emitting' = {e}
      PROVE  Delivered'
  <2>1. UNCHANGED Published
    BY <1>1 DEF Published
  <2>2. Drawn' \subseteq Drawn
    BY <1>1 DEF Drawn
  <2>3. Published <= Published' /\ Published' <= MaxEvents /\ bus.dropped <= bus'.dropped /\ bus'.dropped <= Published'
    BY <1>t, <1>1, <2>1
  <2>4. Drawn' \subseteq 1 .. Published' /\ \A n \in Drawn' : n \in Drawn \/ n > Published
    BY <1>t, <2>1, <2>2
  <2>5. QED
    BY <1>t, <1>1, <2>1, <2>3, <2>4, WritingKeepsDelivered
<1>2. ASSUME NEW e \in Events, Stored(e), emitting' = {}, Published < MaxEvents,
             UNCHANGED <<transport, log, kafka, relay, learner, handled, overtaken>>,
             \/ transport = "inprocess" /\ UNCHANGED open /\ visible' = visible \union {Published + 1}
             \/ transport # "inprocess" /\ UNCHANGED visible /\ open' = open \union {Published + 1}
      PROVE  Delivered'
  <2>1. /\ bus' \in Buses /\ Published' = Published + 1 /\ bus'.offset = bus.offset
        /\ bus.dropped <= bus'.dropped /\ bus'.dropped <= Published'
    BY <1>2, StoredProperties DEF Delivered
  <2>2. transport = "kafka" => bus'.dropped = bus.dropped
    BY <1>t, <1>2 DEF Stored, Buses
  <2>3. Published <= Published' /\ Published' <= MaxEvents
    BY <1>t, <1>2, <2>1
  <2>4. Drawn' = Drawn \union {Published + 1} /\ Published + 1 \notin Drawn
    BY <1>t, <1>2 DEF Drawn
  <2>5. Drawn' \subseteq 1 .. Published' /\ \A n \in Drawn' : n \in Drawn \/ n > Published
    BY <1>t, <2>1, <2>4
  <2>6. open' \intersect visible' = {} /\ (transport = "inprocess" => open' = {})
    BY <1>t, <1>2, <2>4 DEF Drawn
  <2>7. QED
    BY <1>t, <1>2, <2>1, <2>2, <2>3, <2>5, <2>6, WritingKeepsDelivered
<1>3. ASSUME NEW i \in Changes, NEW to \in States, Save(i, to) PROVE Delivered'
  <2> DEFINE e == [of |-> i, to |-> to]
  <2>1. e \in Events
    BY DEF Events
  <2>2. /\ transport = "inprocess" /\ Published < MaxEvents /\ emitting' = {e}
        /\ UNCHANGED <<transport, rows, log, kafka, relay, learner, handled, overtaken>>
    BY <1>3 DEF Save
  <2> HIDE DEF e
  <2>3. QED
    BY <1>t, <1>1, <2>1, <2>2 DEF rows, Drawn
<1>4. ASSUME NEW i \in Changes, NEW to \in States, Begin(i, to) PROVE Delivered'
  <2> DEFINE e == [of |-> i, to |-> to]
  <2>1. e \in Events
    BY DEF Events
  <2>2. /\ transport # "inprocess" /\ Published < MaxEvents /\ Stored(e) /\ open' = open \union {Published + 1}
        /\ UNCHANGED <<transport, emitting, visible, log, kafka, relay, learner, handled, overtaken>>
    BY <1>4 DEF Begin
  <2> HIDE DEF e
  <2>3. QED
    BY <1>t, <1>2, <2>1, <2>2
<1>5. ASSUME NEW n \in open, Commit(n) \/ Rollback(n) PROVE Delivered'
  <2>1. /\ UNCHANGED <<transport, emitting, bus, log, kafka, relay, learner, handled, overtaken>>
        /\ open' = open \ {n} /\ visible' \in {visible, visible \union {n}}
    BY <1>5 DEF Commit, Rollback
  <2>2. open' \subseteq open /\ visible' \subseteq Drawn /\ open' \intersect visible' = {}
    BY <1>t, <2>1 DEF Drawn
  <2>3. QED
    BY <1>t, <1>1, <2>1, <2>2
<1>6. ASSUME NEW e \in emitting, Emit(e) PROVE Delivered'
  <2>1. e \in Events /\ emitting = {e} /\ Published < MaxEvents /\ transport = "inprocess"
    BY <1>t, <1>6
  <2>2. /\ Stored(e) /\ emitting' = {} /\ visible' = visible \union {Published + 1}
        /\ UNCHANGED <<transport, open, log, kafka, relay, learner, handled, overtaken>>
    BY <1>6, <2>1 DEF Emit
  <2>3. QED
    BY <1>2, <2>1, <2>2
<1>7. CASE UNCHANGED vars
  BY <1>t, <1>1, <1>7 DEF vars, rows, Drawn
<1>8. QED
  BY <1>3, <1>4, <1>5, <1>6, <1>7 DEF EmitStep

\* A message more on the topic.
LEMMA TopicGrows ==
    ASSUME Delivered, transport = "kafka", NEW m \in Nat, log' = Append(log, m),
           UNCHANGED <<transport, kafka, learner, handled>>
    PROVE  /\ log' \in Seq(Nat) /\ Len(log') = Len(log) + 1
           /\ \A p \in 1 .. Len(log') : log'[p] = m \/ \E q \in 1 .. Len(log) : log'[p] = log[q]
           /\ \A n : OnTopic(n) => OnTopic(n)'
           /\ OnTopic(m)'
           /\ FromTopic'
<1>t. /\ log \in Seq(Nat) /\ Len(log) \in Nat
      /\ kafka.committed \in Nat /\ kafka.next \in Nat \ {0} /\ kafka.pending \in Nat
      /\ kafka.position \in [Numbers -> Nat]
      /\ kafka.committed <= Len(log) /\ kafka.next <= Len(log) + 1 /\ kafka.pending <= Len(log) + 1
  BY ShapesOf DEF Delivered, Bounded
<1>a. /\ log' \in Seq(Nat) /\ Len(log') = Len(log) + 1
      /\ \A p \in 1 .. Len(log) : log'[p] = log[p]
      /\ log'[Len(log) + 1] = m
      /\ DOMAIN log = 1 .. Len(log) /\ DOMAIN log' = 1 .. Len(log) + 1
  BY <1>t, AppendProperties, LenProperties
<1>1. (\A n : OnTopic(n) => OnTopic(n)') /\ OnTopic(m)'
  <2>1. Len(log) + 1 \in DOMAIN log' /\ \A p \in DOMAIN log : p \in DOMAIN log' /\ log'[p] = log[p]
    BY <1>t, <1>a
  <2>2. OnTopic(m)'
    BY <1>a, <2>1 DEF OnTopic
  <2>3. ASSUME NEW n, OnTopic(n) PROVE OnTopic(n)'
    BY <2>1, <2>3 DEF OnTopic
  <2>4. QED
    BY <2>2, <2>3
<1>2. \A p \in 1 .. Len(log') : log'[p] = m \/ \E q \in 1 .. Len(log) : log'[p] = log[q]
  <2> SUFFICES ASSUME NEW p \in 1 .. Len(log') PROVE log'[p] = m \/ \E q \in 1 .. Len(log) : log'[p] = log[q]
    OBVIOUS
  <2>1. p \in 1 .. Len(log) \/ p = Len(log) + 1
    BY <1>t, <1>a
  <2>2. QED
    BY <1>a, <2>1
<1>i. PassedOver /\ PositionsAreRight /\ BatchIsOpen
  BY DEF Delivered, FromTopic
<1>3. ASSUME NEW p \in 1 .. Len(log), Gone(p) PROVE Gone(p)'
  <2>1. ASSUME Straddled(p) PROVE Straddled(p)'
    BY <1>a, <1>3, <2>1, <1>t DEF Straddled
  <2>2. QED
    BY <1>a, <1>3, <2>1 DEF Gone
<1>4. PassedOver'
  <2>1. SeekPending \in Nat /\ SeekPending - 1 <= Len(log) /\ SeekPending' = SeekPending
    BY <1>t DEF SeekPending
  <2>2. \A p \in 1 .. kafka.committed : Gone(p)'
    BY <1>t, <1>i, <1>3 DEF PassedOver
  <2>3. \A p \in 1 .. SeekPending - 1 : Gone(p)'
    BY <1>t, <1>i, <1>3, <2>1 DEF PassedOver
  <2>4. QED
    BY <2>1, <2>2, <2>3 DEF PassedOver
<1>5. PositionsAreRight'
  BY <1>t, <1>a, <1>i DEF PositionsAreRight
<1>6. BatchIsOpen'
  <2> SUFFICES ASSUME learner.at # "idle"
               PROVE  \E at \in [1 .. Len(learner.batch) -> 1 .. kafka.next - 1] : BatchIsAt(at)'
    BY DEF BatchIsOpen
  <2>1. PICK at \in [1 .. Len(learner.batch) -> 1 .. kafka.next - 1] : BatchIsAt(at)
    BY <1>i DEF BatchIsOpen
  <2>2. \A p \in 1 .. kafka.next - 1 : p \in 1 .. Len(log)
    BY <1>t
  <2>3. BatchIsAt(at)'
    BY <1>a, <1>3, <2>1, <2>2 DEF BatchIsAt
  <2>4. QED
    BY <2>3
<1>7. QED
  BY <1>a, <1>1, <1>2, <1>4, <1>5, <1>6 DEF FromTopic

\* What a step of a relay leaves alone, and what is left to show of it.
LEMMA RelayingKeepsDelivered ==
    ASSUME Delivered, transport = "kafka",
           UNCHANGED <<transport, emitting, open, visible, kafka, learner, handled>>,
           bus' \in Buses, UNCHANGED Published, bus'.dropped = bus.dropped,
           bus'.offset.learning = bus.offset.learning, bus'.offset.relay <= Published,
           log' \in Seq(Nat), Len(log) <= Len(log'), \A p \in 1 .. Len(log') : log'[p] <= Published,
           overtaken' \subseteq 1 .. Published, relay' \in [Relays -> Loops],
           \A r \in Relays :
               relay'[r] = relay[r] \/ (HasInHand(relay'[r]) /\ Holds(relay'[r], Drawn, bus.dropped, Forwarded')),
           Passed(bus'.offset.relay, Drawn, bus.dropped, Forwarded'), Forwarded \subseteq Forwarded',
           FromTopic'
    PROVE  Delivered'
<1>t. /\ Published \in Nat /\ bus.dropped \in Nat /\ Len(log) \in Nat /\ Len(log') \in Nat
      /\ kafka.committed \in Nat /\ kafka.next \in Nat /\ kafka.pending \in Nat
      /\ kafka.committed <= Len(log) /\ kafka.next <= Len(log) + 1 /\ kafka.pending <= Len(log) + 1
      /\ HasInHand(learner) /\ \A r \in Relays : HasInHand(relay[r])
      /\ Drawn \subseteq 1 .. Published
  BY ShapesOf, LenProperties DEF Delivered, Bounded, Shaped
<1>1. \A r \in Relays : HasInHand(relay'[r])
  BY <1>t
<1>2. \A r \in Relays : HasInHand(relay[r])'
  BY <1>1 DEF HasInHand
<1>3. Shaped'
  BY DEF Delivered, Shaped
<1>4. Bounded'
  <2>1. HasInHand(learner)'
    BY <1>t DEF HasInHand
  <2>2. kafka.committed <= Len(log') /\ kafka.next <= Len(log') + 1 /\ kafka.pending <= Len(log') + 1
    BY <1>t
  <2>3. UNCHANGED Drawn
    BY DEF Drawn
  <2>4. QED
    BY <1>2, <2>1, <2>2, <2>3 DEF Delivered, Bounded
<1>5. FromOutbox'
  <2>1. ASSUME NEW r \in Relays PROVE Holds(relay'[r], Drawn, bus.dropped, Forwarded')
    <3>1. Holds(relay[r], Drawn, bus.dropped, Forwarded)
      BY DEF Delivered, FromOutbox
    <3>2. HasInHand(relay[r]) /\ Drawn \subseteq Nat
      BY <1>t
    <3>3. Holds(relay[r], Drawn, bus.dropped, Forwarded')
      BY <3>1 DEF Holds
    <3>4. QED
      BY <3>3
  <2>2. UNCHANGED Drawn
    BY DEF Drawn
  <2>3. bus'.dropped = 0 /\ bus.dropped = 0
    BY DEF Delivered, FromOutbox
  <2>4. QED
    BY <2>1, <2>2, <2>3 DEF FromOutbox
<1>6. FromBus'
  BY DEF FromBus
<1>7. QED
  BY <1>3, <1>4, <1>5, <1>6 DEF Delivered

LEMMA RelayingDelivers ==
    ASSUME Delivered, (\E r \in Relays : RelayStep(r)) \/ Unreadable PROVE Delivered'
<1>t. /\ Published \in Nat /\ bus.offset.relay \in Nat /\ bus.offset.relay <= Published
      /\ bus.dropped \in Nat /\ bus \in Buses /\ log \in Seq(Nat) /\ Len(log) \in Nat /\ relay \in [Relays -> Loops]
      /\ Drawn \subseteq 1 .. Published /\ Drawn \subseteq Nat /\ overtaken \subseteq 1 .. Published
      /\ \A p \in 1 .. Len(log) : log[p] <= Published
      /\ \A r \in Relays : HasInHand(relay[r])
      /\ transport # "kafka" => \A r \in Relays : relay[r].at = "idle"
  BY ShapesOf DEF Delivered, Shaped, Bounded, Loop
<1>k. ASSUME transport = "kafka"
      PROVE  /\ Passed(bus.offset.relay, Drawn, bus.dropped, Forwarded)
             /\ \A r \in Relays : Holds(relay[r], Drawn, bus.dropped, Forwarded)
  BY <1>k DEF Delivered, FromOutbox
\* A relay goes on with another loop.
<1>e. ASSUME NEW r \in Relays, NEW loop, HasInHand(loop), relay' = [relay EXCEPT ![r] = loop],
             Holds(loop, Drawn, bus.dropped, Forwarded')
      PROVE  /\ relay' \in [Relays -> Loops]
             /\ \A s \in Relays :
                   relay'[s] = relay[s] \/ (HasInHand(relay'[s]) /\ Holds(relay'[s], Drawn, bus.dropped, Forwarded'))
  <2>1. \A s \in Relays : relay'[s] = IF s = r THEN loop ELSE relay[s]
    BY <1>t, <1>e
  <2>2. relay' \in [Relays -> Loops]
    BY <1>t, <1>e DEF HasInHand
  <2>3. QED
    BY <1>e, <2>1, <2>2
\* The topic has a message more, or not, and the rest is as it was.
<1>m. ASSUME transport = "kafka", UNCHANGED <<transport, emitting, rows, kafka, learner, handled, overtaken>>,
             UNCHANGED log \/ \E m \in 0 .. Published : log' = Append(log, m),
             relay' \in [Relays -> Loops],
             \A s \in Relays :
                 relay'[s] = relay[s] \/ (HasInHand(relay'[s]) /\ Holds(relay'[s], Drawn, bus.dropped, Forwarded'))
      PROVE  Delivered'
  <2>1. /\ log' \in Seq(Nat) /\ Len(log) <= Len(log') /\ \A p \in 1 .. Len(log') : log'[p] <= Published
        /\ (\A n : OnTopic(n) => OnTopic(n)') /\ FromTopic'
    <3>1. CASE UNCHANGED log
      BY <1>t, <1>m, <3>1, FromTopicStays DEF OnTopic, Delivered
    <3>2. ASSUME NEW m \in 0 .. Published, log' = Append(log, m)
          PROVE  /\ log' \in Seq(Nat) /\ Len(log) <= Len(log') /\ \A p \in 1 .. Len(log') : log'[p] <= Published
                 /\ (\A n : OnTopic(n) => OnTopic(n)') /\ FromTopic'
      <4>1. m \in Nat /\ m <= Published
        BY <1>t
      <4>2. /\ log' \in Seq(Nat) /\ Len(log') = Len(log) + 1
            /\ \A p \in 1 .. Len(log') : log'[p] = m \/ \E q \in 1 .. Len(log) : log'[p] = log[q]
            /\ (\A n : OnTopic(n) => OnTopic(n)') /\ FromTopic'
        BY <1>m, <3>2, <4>1, TopicGrows
      <4>3. Len(log) <= Len(log') /\ \A p \in 1 .. Len(log') : log'[p] <= Published
        BY <1>t, <4>1, <4>2
      <4>4. QED
        BY <4>2, <4>3
    <3>3. QED
      BY <1>m, <3>1, <3>2
  <2>2. Forwarded \subseteq Forwarded'
    BY <1>m, <2>1 DEF Forwarded
  <2>3. Passed(bus.offset.relay, Drawn, bus.dropped, Forwarded')
    BY <1>k, <1>m, <2>2 DEF Passed
  <2>4. /\ bus' \in Buses /\ UNCHANGED Published /\ bus'.dropped = bus.dropped /\ bus'.offset = bus.offset
        /\ bus'.offset.relay <= Published /\ overtaken' \subseteq 1 .. Published
        /\ UNCHANGED <<transport, emitting, open, visible, kafka, learner, handled>>
    BY <1>t, <1>m DEF rows, Published
  <2>5. QED
    BY <1>m, <2>1, <2>2, <2>3, <2>4, RelayingKeepsDelivered
<1>1. ASSUME NEW r \in Relays, RelayPoll(r) PROVE Delivered'
  <2>1. PICK batch \in Polls("relay") : relay' = [relay EXCEPT ![r] = [at |-> "handle", batch |-> batch]] /\ Overtake(batch)
    BY <1>1 DEF RelayPoll
  <2>2. /\ transport = "kafka" /\ Uncommitted("relay") # {}
        /\ UNCHANGED <<transport, emitting, rows, log, kafka, learner, handled>>
    BY <1>1 DEF RelayPoll
  <2>3. HasInHand([at |-> "handle", batch |-> batch])
    BY <2>1, <2>2, PollProperties DEF Delivered
  <2>4. overtaken \subseteq overtaken' /\ overtaken' \subseteq 1 .. Published
    BY <1>t, <2>1 DEF Overtake, Drawn
  <2>5. Forwarded \subseteq Forwarded' /\ overtaken' \subseteq Forwarded'
    BY <2>2, <2>4 DEF Forwarded, OnTopic
  <2>6. Holds([at |-> "handle", batch |-> batch], Drawn, bus.dropped, Forwarded')
    BY <1>k, <2>1, <2>2, <2>5, PollHolds DEF Delivered
  <2>7. Passed(bus.offset.relay, Drawn, bus.dropped, Forwarded')
    BY <1>k, <2>2, <2>5 DEF Passed
  <2>8. FromTopic'
    BY <2>2, FromTopicStays DEF Delivered
  <2>9. /\ bus' \in Buses /\ UNCHANGED Published /\ bus'.dropped = bus.dropped /\ bus'.offset = bus.offset
        /\ bus'.offset.relay <= Published /\ log' \in Seq(Nat) /\ Len(log) <= Len(log')
        /\ UNCHANGED <<transport, emitting, open, visible, kafka, learner, handled>>
        /\ \A p \in 1 .. Len(log') : log'[p] <= Published
    BY <1>t, <2>2 DEF rows, Published
  <2>10. /\ relay' \in [Relays -> Loops]
         /\ \A s \in Relays :
               relay'[s] = relay[s] \/ (HasInHand(relay'[s]) /\ Holds(relay'[s], Drawn, bus.dropped, Forwarded'))
    BY <1>e, <2>1, <2>3, <2>6
  <2>11. QED
    BY <2>2, <2>4, <2>5, <2>7, <2>8, <2>9, <2>10, RelayingKeepsDelivered
<1>2. ASSUME NEW r \in Relays, RelayPublish(r) PROVE Delivered'
  <2>0. PICK m : m = Head(relay[r].batch)
    OBVIOUS
  <2> DEFINE done == [at |-> "commit", batch |-> relay[r].batch]
  <2>1. /\ relay[r].at = "handle" /\ HasInHand(relay[r])
        /\ UNCHANGED <<transport, emitting, rows, kafka, learner, handled, overtaken>>
        /\ \/ log' = Append(log, m) /\ relay' = [relay EXCEPT ![r] = [relay[r] EXCEPT !.at = "commit"]]
           \/ relay' = [relay EXCEPT ![r] = Loop] /\ (UNCHANGED log \/ log' = Append(log, m))
    BY <1>t, <1>2, <2>0 DEF RelayPublish
  <2>2. transport = "kafka"
    BY <1>t, <2>1
  <2>3. m = relay[r].batch[1] /\ m \in 0 .. Published /\ relay[r] = [at |-> relay[r].at, batch |-> relay[r].batch]
    BY <1>t, <2>0, <2>1, HandsOf
  <2>4. [relay[r] EXCEPT !.at = "commit"] = done
    <3> DEFINE at == relay[r].at
               batch == relay[r].batch
    <3>1. relay[r] = [at |-> at, batch |-> batch]
      BY <2>3
    <3> HIDE DEF at
    <3>2. [[at |-> at, batch |-> batch] EXCEPT !.at = "commit"] = [at |-> "commit", batch |-> batch]
      OBVIOUS
    <3>3. QED
      BY <3>1, <3>2
  <2>5. CASE relay' = [relay EXCEPT ![r] = Loop] /\ (UNCHANGED log \/ log' = Append(log, m))
    <3>1. HasInHand(Loop) /\ Holds(Loop, Drawn, bus.dropped, Forwarded')
      BY IdleHasNothing, IdleHolds
    <3>2. QED
      BY <1>e, <1>m, <2>1, <2>2, <2>3, <2>5, <3>1
  <2>6. CASE log' = Append(log, m) /\ relay' = [relay EXCEPT ![r] = [relay[r] EXCEPT !.at = "commit"]]
    <3>1. HasInHand(done)
      BY <2>1 DEF HasInHand, Loops
    <3>2. m \in Nat
      BY <1>t, <2>3
    <3>3. (\A n : OnTopic(n) => OnTopic(n)') /\ OnTopic(m)'
      BY <2>1, <2>2, <2>6, <3>2, TopicGrows
    <3>4. Forwarded \subseteq Forwarded' /\ m \in Forwarded'
      <4>1. Forwarded' = {n \in Nat : OnTopic(n)'} \union overtaken
        BY <2>1 DEF Forwarded
      <4>2. Forwarded = {n \in Nat : OnTopic(n)} \union overtaken
        BY DEF Forwarded
      <4>3. QED
        BY <3>2, <3>3, <4>1, <4>2
    <3>5. Holds(relay[r], Drawn, bus.dropped, Forwarded)
      BY <1>k, <2>2
    <3>6. Holds(done, Drawn, bus.dropped, Forwarded')
      BY <2>1, <2>3, <3>4, <3>5, DoneHolds
    <3> HIDE DEF done
    <3>7. relay' = [relay EXCEPT ![r] = done]
      BY <2>4, <2>6
    <3>8. QED
      BY <1>e, <1>m, <2>1, <2>2, <2>3, <2>6, <3>1, <3>6, <3>7
  <2>7. QED
    BY <2>1, <2>5, <2>6
<1>3. ASSUME NEW r \in Relays, RelayCommit(r) PROVE Delivered'
  <2> DEFINE n == relay[r].batch[1]
  <2>1. /\ relay[r].at = "commit" /\ Advance("relay", Head(relay[r].batch)) /\ HasInHand(relay[r])
        /\ relay' = [relay EXCEPT ![r] = AfterCommit(relay[r])]
        /\ UNCHANGED <<transport, emitting, open, visible, log, kafka, learner, handled, overtaken>>
    BY <1>3, <1>t DEF RelayCommit
  <2>2. transport = "kafka" /\ n \in 1 .. Published /\ Advance("relay", n)
    BY <1>t, <2>1, HandsOf
  <2>3. HasInHand(AfterCommit(relay[r]))
    BY <1>t, <2>1, AfterCommitProperties
  <2> HIDE DEF n
  <2>4. /\ bus' \in Buses /\ Published' = Published /\ bus'.dropped = bus.dropped
        /\ bus'.offset["relay"] = IF n > bus.offset["relay"] THEN n ELSE bus.offset["relay"]
        /\ \A other \in {"learning", "relay"} \ {"relay"} : bus'.offset[other] = bus.offset[other]
    BY <2>2, AdvanceProperties DEF Delivered
  <2>5. /\ bus'.offset.relay \in {bus.offset.relay, relay[r].batch[1]} /\ bus'.offset.relay <= Published
        /\ bus'.offset.learning = bus.offset.learning
    BY <1>t, <2>2, <2>4 DEF n
  <2>6. Passed(bus.offset.relay, Drawn, bus.dropped, Forwarded) /\ Holds(relay[r], Drawn, bus.dropped, Forwarded)
    BY <1>k, <2>2
  <2>7. /\ Passed(bus'.offset.relay, Drawn, bus.dropped, Forwarded)
        /\ Holds(AfterCommit(relay[r]), Drawn, bus.dropped, Forwarded)
    BY <1>t, <2>1, <2>5, <2>6, CommitPasses
  <2>8. Forwarded' = Forwarded
    BY <2>1 DEF Forwarded, OnTopic
  <2>9. FromTopic'
    BY <2>1, FromTopicStays DEF Delivered
  <2>10. /\ relay' \in [Relays -> Loops]
         /\ \A s \in Relays :
               relay'[s] = relay[s] \/ (HasInHand(relay'[s]) /\ Holds(relay'[s], Drawn, bus.dropped, Forwarded'))
    BY <1>e, <2>1, <2>3, <2>7, <2>8
  <2>11. /\ log' \in Seq(Nat) /\ Len(log) <= Len(log') /\ \A p \in 1 .. Len(log') : log'[p] <= Published
         /\ overtaken' \subseteq 1 .. Published
    BY <1>t, <2>1
  <2>12. QED
    BY <2>1, <2>2, <2>4, <2>5, <2>7, <2>8, <2>9, <2>10, <2>11, RelayingKeepsDelivered
<1>4. CASE Unreadable
  <2>1. /\ transport = "kafka" /\ log' = Append(log, 0)
        /\ UNCHANGED <<transport, emitting, rows, kafka, relay, learner, handled, overtaken>>
    BY <1>4 DEF Unreadable
  <2>2. 0 \in 0 .. Published
    BY <1>t
  <2>3. \E m \in 0 .. Published : log' = Append(log, m)
    BY <2>1, <2>2
  <2>4. relay' \in [Relays -> Loops] /\ \A s \in Relays : relay'[s] = relay[s]
    BY <1>t, <2>1
  <2>5. QED
    BY <1>m, <2>1, <2>3, <2>4
<1>5. QED
  BY <1>1, <1>2, <1>3, <1>4 DEF RelayStep

\* What every step of the learner leaves alone, and what is left to show of it.
LEMMA LearningKeepsDelivered ==
    ASSUME Delivered,
           UNCHANGED <<transport, emitting, open, visible, log, relay>>,
           bus' \in Buses, UNCHANGED Published, bus'.dropped = bus.dropped,
           bus'.offset.relay = bus.offset.relay, bus'.offset.learning <= Published,
           kafka' \in Consumers,
           kafka'.committed <= Len(log), kafka'.next <= Len(log) + 1, kafka'.pending <= Len(log) + 1,
           handled' \subseteq Numbers, overtaken' \subseteq 1 .. Published,
           transport = "inprocess" => overtaken' = {}, transport = "kafka" => overtaken' = overtaken,
           HasInHand(learner'), learner'.at = "commit" => learner'.batch[1] \in handled',
           FromBus', transport = "kafka" => (PassedOver /\ PositionsAreRight /\ BatchIsOpen)'
    PROVE  Delivered'
<1>1. Shaped'
  BY DEF Delivered, Shaped
<1>2. HasInHand(learner)' /\ \A r \in Relays : HasInHand(relay[r])'
  BY DEF Delivered, Bounded, HasInHand
<1>3. Bounded'
  <2>1. UNCHANGED Drawn
    BY DEF Drawn
  <2>2. QED
    BY <1>2, <2>1 DEF Delivered, Bounded
<1>4. FromOutbox'
  <2>1. SUFFICES ASSUME transport = "kafka" PROVE FromOutbox'
    BY DEF FromOutbox
  <2>2. UNCHANGED Drawn /\ UNCHANGED Forwarded
    BY <2>1 DEF Drawn, Forwarded, OnTopic
  <2>3. QED
    BY <2>1, <2>2 DEF Delivered, FromOutbox
<1>5. FromTopic'
  BY DEF FromTopic
<1>6. QED
  BY <1>1, <1>3, <1>4, <1>5 DEF Delivered

LEMMA BusPollDelivers ==
    ASSUME Delivered, BusPoll PROVE Delivered'
<1>t. /\ Published \in Nat /\ bus \in Buses /\ bus.offset.learning <= Published /\ kafka \in Consumers
      /\ kafka.committed <= Len(log) /\ kafka.next <= Len(log) + 1 /\ kafka.pending <= Len(log) + 1
      /\ handled \subseteq Numbers /\ overtaken \subseteq 1 .. Published /\ Drawn \subseteq 1 .. Published
      /\ transport = "inprocess" => open = {} /\ overtaken = {}
  BY ShapesOf DEF Delivered, Shaped, Bounded
<1>1. /\ transport # "kafka" /\ Uncommitted("learning") # {}
      /\ UNCHANGED <<transport, emitting, rows, log, kafka, relay, handled>>
  BY DEF BusPoll
<1>2. PICK batch \in Polls("learning") : learner' = [at |-> "handle", batch |-> batch] /\ Overtake(batch)
  BY DEF BusPoll
<1>3. HasInHand([at |-> "handle", batch |-> batch])
  BY <1>1, <1>2, PollProperties DEF Delivered
<1>4. HasInHand(learner') /\ learner'.at # "commit"
  BY <1>2, <1>3
<1>5. /\ overtaken \subseteq overtaken' /\ overtaken' \subseteq 1 .. Published
      /\ transport = "inprocess" => overtaken' = {}
  BY <1>t, <1>2 DEF Overtake, Drawn
<1>6. UNCHANGED <<bus, open, visible>> /\ UNCHANGED Published /\ UNCHANGED Drawn
  BY <1>1 DEF rows, Published, Drawn
<1>7. Passed(bus.offset.learning, Drawn, bus.dropped, handled \union overtaken)
  BY <1>1 DEF Delivered, FromBus
<1>8. Holds([at |-> "handle", batch |-> batch], Drawn, bus.dropped, handled \union overtaken')
  <2>1. bus.offset.learning = bus.offset["learning"]
    OBVIOUS
  <2>2. QED
    BY <1>1, <1>2, <1>5, <1>7, PollHolds DEF Delivered
<1>9. FromBus'
  <2>1. Passed(bus.offset.learning, Drawn, bus.dropped, handled \union overtaken')
    BY <1>5, <1>7 DEF Passed
  <2>2. QED
    BY <1>1, <1>2, <1>6, <1>8, <2>1 DEF FromBus
<1>10. QED
  BY <1>t, <1>1, <1>4, <1>5, <1>6, <1>9, LearningKeepsDelivered

LEMMA BusCommitDelivers ==
    ASSUME Delivered, BusCommit PROVE Delivered'
<1> DEFINE n == learner.batch[1]
<1>t. /\ Published \in Nat /\ bus.offset.learning \in Nat /\ bus.offset.learning <= Published /\ kafka \in Consumers
      /\ bus.dropped \in Nat /\ HasInHand(learner)
      /\ kafka.committed <= Len(log) /\ kafka.next <= Len(log) + 1 /\ kafka.pending <= Len(log) + 1
      /\ handled \subseteq Numbers /\ overtaken \subseteq 1 .. Published
      /\ Drawn \subseteq 1 .. Published /\ Drawn \subseteq Nat
      /\ transport = "inprocess" => overtaken = {}
  BY ShapesOf DEF Delivered, Shaped, Bounded
<1>1. /\ transport # "kafka" /\ learner.at = "commit" /\ Advance("learning", Head(learner.batch))
      /\ learner' = AfterCommit(learner)
      /\ UNCHANGED <<transport, emitting, open, visible, log, kafka, relay, handled, overtaken>>
  BY DEF BusCommit
<1>2. n \in 1 .. Published /\ Advance("learning", n)
  BY <1>t, <1>1, HandsOf
<1>3. HasInHand(learner') /\ learner'.at # "commit"
  BY <1>t, <1>1, AfterCommitProperties
<1> HIDE DEF n
<1>4. /\ bus' \in Buses /\ Published' = Published /\ bus'.dropped = bus.dropped
      /\ bus'.offset["learning"] = IF n > bus.offset["learning"] THEN n ELSE bus.offset["learning"]
      /\ \A other \in {"learning", "relay"} \ {"learning"} : bus'.offset[other] = bus.offset[other]
  BY <1>2, AdvanceProperties DEF Delivered
<1>5. /\ bus'.offset.learning \in {bus.offset.learning, learner.batch[1]} /\ bus'.offset.learning <= Published
      /\ bus'.offset.relay = bus.offset.relay
  BY <1>t, <1>2, <1>4 DEF n
<1>6. /\ Passed(bus.offset.learning, Drawn, bus.dropped, handled \union overtaken)
      /\ Holds(learner, Drawn, bus.dropped, handled \union overtaken)
  BY <1>1 DEF Delivered, FromBus
<1>7. /\ Passed(bus'.offset.learning, Drawn, bus.dropped, handled \union overtaken)
      /\ Holds(AfterCommit(learner), Drawn, bus.dropped, handled \union overtaken)
  BY <1>t, <1>1, <1>5, <1>6, CommitPasses
<1>8. FromBus'
  <2>1. UNCHANGED Drawn
    BY <1>1 DEF Drawn
  <2>2. QED
    BY <1>1, <1>4, <1>7, <2>1 DEF FromBus
<1>9. QED
  BY <1>t, <1>1, <1>3, <1>4, <1>5, <1>8, LearningKeepsDelivered

\* The handler returns, and its event is handled; or raises, and the loop polls again.
LEMMA HandleDelivers ==
    ASSUME Delivered, Handle PROVE Delivered'
<1> DEFINE done == [at |-> "commit", batch |-> learner.batch]
<1>t. /\ Published \in Nat /\ Published <= MaxEvents /\ MaxEvents \in Nat /\ HasInHand(learner)
      /\ bus \in Buses /\ bus.offset.learning <= Published /\ kafka \in Consumers
      /\ kafka.committed <= Len(log) /\ kafka.next <= Len(log) + 1 /\ kafka.pending <= Len(log) + 1
      /\ handled \subseteq Numbers /\ overtaken \subseteq 1 .. Published
      /\ transport = "inprocess" => overtaken = {}
  BY ShapesOf DEF Delivered, Shaped, Bounded
<1>1. /\ learner.at = "handle" /\ UNCHANGED <<transport, emitting, rows, log, kafka, relay, overtaken>>
      /\ \/ learner' = [learner EXCEPT !.at = "commit"] /\ handled' = handled \union {Head(learner.batch)}
         \/ learner' = Loop /\ UNCHANGED handled
  BY ZenonT(60) DEF Handle, Returns
<1>2. /\ Head(learner.batch) = learner.batch[1] /\ learner.batch[1] \in 1 .. Published
      /\ learner = [at |-> learner.at, batch |-> learner.batch]
  BY <1>1, <1>t, HandsOf
<1>3. handled \subseteq handled' /\ handled' \subseteq Numbers
  BY <1>1, <1>t, <1>2 DEF Numbers
<1>4. \/ learner' = done /\ learner.batch[1] \in handled'
      \/ learner' = Loop
  BY <1>1, <1>2
<1>5. HasInHand(done)
  BY <1>1, <1>t DEF HasInHand, Loops
<1>6. /\ HasInHand(learner') /\ learner'.at \in {"idle", "commit"}
      /\ learner'.at = "commit" => learner'.batch[1] \in handled'
      /\ learner'.at # "idle" => learner'.batch = learner.batch
  BY <1>4, <1>5, IdleHasNothing DEF Loop
<1>7. UNCHANGED <<bus, open, visible>> /\ UNCHANGED Published /\ UNCHANGED Drawn
  BY <1>1 DEF rows, Published, Drawn
<1>8. FromBus'
  <2>1. SUFFICES ASSUME transport # "kafka"
                 PROVE  /\ Passed(bus.offset.learning, Drawn, bus.dropped, handled' \union overtaken)
                        /\ Holds(learner', Drawn, bus.dropped, handled' \union overtaken)
    BY <1>1, <1>7 DEF FromBus
  <2>2. /\ Passed(bus.offset.learning, Drawn, bus.dropped, handled \union overtaken)
        /\ Holds(learner, Drawn, bus.dropped, handled \union overtaken)
        /\ handled \union overtaken \subseteq handled' \union overtaken
    BY <1>3, <2>1 DEF Delivered, FromBus
  <2>3. Passed(bus.offset.learning, Drawn, bus.dropped, handled' \union overtaken)
    BY <2>2 DEF Passed
  <2>4. Holds(learner', Drawn, bus.dropped, handled' \union overtaken)
    <3>1. CASE learner' = Loop
      BY <3>1, IdleHolds
    <3>2. CASE learner' = done /\ learner.batch[1] \in handled'
      <4>1. learner.batch[1] \in handled' \union overtaken
        BY <3>2
      <4>2. QED
        BY <1>1, <2>2, <3>2, <4>1, DoneHolds
    <3>3. QED
      BY <1>4, <3>1, <3>2
  <2>5. QED
    BY <2>3, <2>4
<1>9. \A p : Gone(p) => Gone(p)'
  BY <1>1, <1>3 DEF Gone, Straddled
<1>10. ASSUME transport = "kafka" PROVE (PassedOver /\ PositionsAreRight /\ BatchIsOpen)'
  <2>1. PassedOver /\ PositionsAreRight /\ BatchIsOpen
    BY <1>10 DEF Delivered, FromTopic
  <2>2. PassedOver'
    BY <1>1, <1>9, <2>1 DEF PassedOver, SeekPending
  <2>3. BatchIsOpen'
    <3> SUFFICES ASSUME learner'.at # "idle"
                 PROVE  \E at \in [1 .. Len(learner'.batch) -> 1 .. kafka'.next - 1] : BatchIsAt(at)'
      BY DEF BatchIsOpen
    <3>1. PICK at \in [1 .. Len(learner.batch) -> 1 .. kafka.next - 1] : BatchIsAt(at)
      BY <1>1, <2>1 DEF BatchIsOpen
    <3>2. BatchIsAt(at)'
      BY <1>1, <1>6, <1>9, <3>1 DEF BatchIsAt
    <3>3. QED
      BY <1>1, <1>6, <3>1, <3>2
  <2>4. QED
    BY <1>1, <2>1, <2>2, <2>3 DEF PositionsAreRight
<1>11. QED
  BY <1>t, <1>1, <1>3, <1>6, <1>7, <1>8, <1>10, LearningKeepsDelivered

\* What a poll of the topic reads goes into the learner's hand, and what it leaves out is no event.
LEMMA KafkaPollDelivers ==
    ASSUME Delivered, KafkaPoll PROVE Delivered'
<1>1. /\ transport = "kafka" /\ learner.at = "idle"
      /\ UNCHANGED <<transport, emitting, rows, log, relay, handled, overtaken>>
      /\ kafka' \in Consumers
  BY KafkaPollProperties
<1>2. PICK upto \in 1 .. Len(log) :
          LET read == {p \in SeekPending .. upto : log[p] # 0} IN
          /\ SeekPending \in Nat \ {0} /\ SeekPending <= upto
          /\ kafka'.committed = kafka.committed /\ kafka'.next = upto + 1
          /\ \A n \in Numbers : \/ kafka'.position[n] = kafka.position[n] /\ \A p \in read : log[p] # n
                                \/ kafka'.position[n] \in read /\ log[kafka'.position[n]] = n
          /\ \/ read = {} /\ learner' = Loop /\ kafka'.pending = kafka.pending
             \/ /\ kafka'.pending \in SeekPending .. upto
                /\ \A p \in read : kafka'.pending <= p
                /\ HasInHand(learner') /\ learner'.at = "handle"
                /\ \E at \in [1 .. Len(learner'.batch) -> read] :
                      /\ \A i \in 1 .. Len(learner'.batch) : learner'.batch[i] = log[at[i]]
                      /\ \A i, j \in 1 .. Len(learner'.batch) : i < j => at[i] < at[j]
                      /\ \A p \in read : \E i \in 1 .. Len(learner'.batch) : at[i] = p
  BY KafkaPollProperties
<1> DEFINE from == SeekPending
           read == {p \in from .. upto : log[p] # 0}
<1>3. /\ from \in Nat \ {0} /\ from <= upto
      /\ kafka'.committed = kafka.committed /\ kafka'.next = upto + 1
      /\ \A n \in Numbers : \/ kafka'.position[n] = kafka.position[n] /\ \A p \in read : log[p] # n
                            \/ kafka'.position[n] \in read /\ log[kafka'.position[n]] = n
  BY <1>2
<1>4. \/ read = {} /\ learner' = Loop /\ kafka'.pending = kafka.pending
      \/ /\ kafka'.pending \in from .. upto
         /\ \A p \in read : kafka'.pending <= p
         /\ HasInHand(learner') /\ learner'.at = "handle"
         /\ \E at \in [1 .. Len(learner'.batch) -> read] :
               /\ \A i \in 1 .. Len(learner'.batch) : learner'.batch[i] = log[at[i]]
               /\ \A i, j \in 1 .. Len(learner'.batch) : i < j => at[i] < at[j]
               /\ \A p \in read : \E i \in 1 .. Len(learner'.batch) : at[i] = p
  BY <1>2
<1>t. /\ Len(log) \in Nat /\ \A p \in 1 .. Len(log) : log[p] \in Nat
      /\ kafka.committed \in Nat /\ kafka.next \in Nat \ {0} /\ kafka.pending \in Nat
      /\ kafka.committed <= Len(log) /\ kafka.pending <= Len(log) + 1
      /\ Published \in Nat /\ Published <= MaxEvents
  BY ShapesOf DEF Delivered, Bounded
<1>i. PassedOver /\ PositionsAreRight /\ BatchIsOpen
  BY <1>1 DEF Delivered, FromTopic
<1>5. read \subseteq 1 .. Len(log) /\ \A p \in from .. upto : p \in read \/ log[p] = 0
  BY <1>t, <1>3
<1>6. \A p \in 1 .. from - 1 : Gone(p)
  BY <1>i DEF PassedOver
<1>7. \A p : Gone(p) <=> Gone(p)'
  BY <1>1 DEF Gone, Straddled
<1>f. from = IF kafka.pending # 0 THEN kafka.pending ELSE kafka.next
  BY DEF SeekPending
<1>g. SeekPending' = IF kafka'.pending # 0 THEN kafka'.pending ELSE kafka'.next
  BY DEF SeekPending
<1>u. upto \in Nat /\ upto <= Len(log)
  BY <1>t
<1> HIDE DEF from, read
<1>8. PassedOver'
  <2>1. \A p \in 1 .. SeekPending' - 1 : Gone(p)
    <3>1. CASE read = {} /\ learner' = Loop /\ kafka'.pending = kafka.pending
      <4>1. \A p \in 1 .. upto : Gone(p)
        BY <1>3, <1>5, <1>6, <1>u, <3>1 DEF Gone
      <4>2. SeekPending' = from \/ SeekPending' = upto + 1
        BY <1>3, <1>f, <1>g, <3>1
      <4>3. QED
        BY <1>3, <1>6, <1>u, <4>1, <4>2
    <3>2. CASE kafka'.pending \in from .. upto /\ \A p \in read : kafka'.pending <= p
      <4>1. SeekPending' = kafka'.pending
        BY <1>3, <1>g, <1>u, <3>2
      <4>2. \A p \in from .. kafka'.pending - 1 : log[p] = 0
        BY <1>3, <1>5, <1>u, <3>2
      <4>3. QED
        BY <1>3, <1>6, <1>u, <3>2, <4>1, <4>2 DEF Gone
    <3>3. QED
      BY <1>4, <3>1, <3>2
  <2>2. \A p \in 1 .. kafka'.committed : Gone(p)
    BY <1>3, <1>i DEF PassedOver
  <2>3. QED
    BY <1>7, <2>1, <2>2 DEF PassedOver
<1>9. PositionsAreRight'
  <2>1. \A n \in Numbers : kafka'.position[n] # 0 =>
            kafka'.position[n] \in 1 .. Len(log) /\ log[kafka'.position[n]] = n
    BY <1>3, <1>5, <1>i DEF PositionsAreRight
  <2>2. QED
    BY <1>1, <2>1 DEF PositionsAreRight
<1>10. BatchIsOpen'
  <2>1. CASE learner' = Loop
    BY <2>1 DEF BatchIsOpen, Loop
  <2> DEFINE b == learner'.batch
  <2>2. ASSUME HasInHand(learner'),
               NEW at \in [1 .. Len(b) -> read],
               \A i \in 1 .. Len(b) : b[i] = log[at[i]],
               \A i, j \in 1 .. Len(b) : i < j => at[i] < at[j],
               \A p \in read : \E i \in 1 .. Len(b) : at[i] = p
        PROVE  BatchIsOpen'
    <3>1. at \in [1 .. Len(b) -> 1 .. kafka'.next - 1]
      BY <1>3, <1>5, <1>u, <2>2 DEF read
    <3>2. ASSUME NEW p \in 1 .. upto PROVE Gone(p) \/ \E i \in 1 .. Len(b) : at[i] = p
      <4>1. CASE p \in 1 .. from - 1
        BY <1>6, <4>1
      <4>2. CASE p \in read
        BY <2>2, <4>2
      <4>3. CASE log[p] = 0
        BY <4>3 DEF Gone
      <4>4. QED
        BY <1>3, <1>5, <1>u, <4>1, <4>2, <4>3
    <3>3. ASSUME NEW i \in 1 .. Len(b) PROVE kafka'.position[b[i]] < upto + 1
      <4>1. b[i] \in 1 .. Published /\ at[i] \in read /\ log[at[i]] = b[i]
        BY <2>2 DEF HasInHand
      <4>2. b[i] \in Numbers
        BY <1>t, <4>1, DeliveryAssumption DEF Numbers, DeliveryAssumption
      <4>3. kafka'.position[b[i]] \in read
        BY <1>3, <4>1, <4>2
      <4>4. \A p \in read : p < upto + 1
        BY <1>u, <1>3 DEF read
      <4>5. QED
        BY <4>3, <4>4
    <3>4. \A p \in 1 .. kafka'.next - 1 : Gone(p)' \/ \E i \in 1 .. Len(b) : at[i] = p
      BY <1>3, <1>7, <1>u, <3>2
    <3>5. \A i \in 1 .. Len(b) : kafka'.position[b[i]] < kafka'.next
      BY <1>3, <3>3
    <3>6. BatchIsAt(at)'
      BY <1>1, <2>2, <3>4, <3>5 DEF BatchIsAt
    <3>7. QED
      BY <3>1, <3>6 DEF BatchIsOpen
  <2>3. QED
    BY <1>4, <2>1, <2>2
<1>11. FromBus'
  BY <1>1 DEF FromBus
<1>12. HasInHand(learner') /\ learner'.at # "commit"
  BY <1>4, IdleHasNothing DEF Loop
<1>13. kafka'.next <= Len(log) + 1 /\ kafka'.pending <= Len(log) + 1 /\ kafka'.committed <= Len(log)
  BY <1>t, <1>3, <1>4, <1>u
<1>14. /\ bus \in Buses /\ bus.offset.learning <= Published
       /\ handled \subseteq Numbers /\ overtaken \subseteq 1 .. Published
  BY ShapesOf DEF Delivered, Shaped, Bounded
<1>15. UNCHANGED <<bus, open, visible>> /\ UNCHANGED Published
  BY <1>1 DEF rows, Published
<1>16. QED
  BY <1>1, <1>8, <1>9, <1>10, <1>11, <1>12, <1>13, <1>14, <1>15, LearningKeepsDelivered

\* A commit is that of everything on the topic up to there.  What of it is in hand still lies between
\* the copy that was handled and the one that is committed.
LEMMA KafkaCommitDelivers ==
    ASSUME Delivered, KafkaCommit PROVE Delivered'
<1> DEFINE b == learner.batch
           n == b[1]
           p == kafka.position[n]
<1>t. /\ Len(log) \in Nat /\ \A q \in 1 .. Len(log) : log[q] \in Nat
      /\ kafka.committed \in Nat /\ kafka.next \in Nat \ {0} /\ kafka.pending \in Nat
      /\ kafka.committed <= Len(log) /\ kafka.pending <= Len(log) + 1 /\ kafka.next <= Len(log) + 1
      /\ kafka.position \in [Numbers -> Nat]
      /\ Published \in Nat /\ Published <= MaxEvents /\ MaxEvents \in Nat /\ HasInHand(learner)
  BY ShapesOf DEF Delivered, Bounded
<1>1. /\ transport = "kafka" /\ learner.at = "commit"
      /\ UNCHANGED <<transport, emitting, rows, log, relay, handled, overtaken>>
  BY DEF KafkaCommit
<1>2. Head(b) = n /\ n \in 1 .. Published /\ Len(b) \in Nat /\ Len(b) > 0 /\ n \in handled
  BY <1>1, <1>t, HandsOf DEF Delivered, Bounded
<1>3. n \in Numbers /\ p \in Nat
  BY <1>t, <1>2 DEF Numbers
<1>4. IF p = 0 THEN learner' = Loop /\ UNCHANGED kafka
      ELSE /\ kafka' = [kafka EXCEPT !.committed = p, !.position[n] = 0,
                                     !.pending = IF @ = p THEN p + 1 ELSE @]
           /\ learner' = AfterCommit(learner)
  BY <1>2 DEF KafkaCommit
<1>i. PassedOver /\ PositionsAreRight /\ BatchIsOpen
  BY <1>1 DEF Delivered, FromTopic
<1>a. PICK at \in [1 .. Len(b) -> 1 .. kafka.next - 1] : BatchIsAt(at)
  BY <1>1, <1>i DEF BatchIsOpen
<1>5. FromBus' /\ UNCHANGED Published /\ UNCHANGED <<bus, open, visible>>
  BY <1>1 DEF FromBus, Published, rows
<1>6. /\ bus \in Buses
      /\ kafka \in Consumers
      /\ bus.offset.learning <= Published /\ handled \subseteq Numbers /\ overtaken \subseteq 1 .. Published
  BY DEF Delivered, Shaped, Bounded
<1>7. CASE p = 0
  <2>1. learner' = Loop /\ UNCHANGED kafka
    BY <1>4, <1>7
  <2>2. HasInHand(learner') /\ learner'.at = "idle"
    BY <2>1, IdleHasNothing DEF Loop
  <2>3. (PassedOver /\ PositionsAreRight /\ BatchIsOpen)'
    BY <1>1, <1>i, <2>1, <2>2 DEF PassedOver, Gone, Straddled, SeekPending, PositionsAreRight, BatchIsOpen
  <2>4. QED
    BY <1>1, <1>t, <1>5, <1>6, <2>1, <2>2, <2>3, LearningKeepsDelivered
<1>8. CASE p # 0
  <2> DEFINE position == [kafka.position EXCEPT ![n] = 0]
             pending == IF kafka.pending = p THEN p + 1 ELSE kafka.pending
  <2>1. /\ kafka' = [committed |-> p, next |-> kafka.next, pending |-> pending, position |-> position]
        /\ learner' = AfterCommit(learner)
    BY <1>4, <1>6, <1>8 DEF Consumers
  <2>2. p \in 1 .. Len(log) /\ log[p] = n /\ p < kafka.next
    BY <1>2, <1>3, <1>8, <1>i, <1>a DEF PositionsAreRight, BatchIsAt
  <2> HIDE DEF p
  <2>3. position \in [Numbers -> Nat] /\ \A m \in Numbers : position[m] = IF m = n THEN 0 ELSE kafka.position[m]
    BY <1>t, <1>3
  <2>4. pending \in Nat /\ pending <= Len(log) + 1
    BY <1>t, <2>2
  <2> HIDE DEF position, pending
  <2>5. /\ kafka' \in Consumers
        /\ kafka'.committed = p /\ kafka'.next = kafka.next
        /\ kafka'.pending = pending /\ kafka'.position = position
    BY <1>3, <1>t, <2>1, <2>3, <2>4 DEF Consumers
  <2>6. ASSUME NEW q \in 1 .. p PROVE Gone(q)
    <3>1. q \in 1 .. kafka.next - 1 /\ q \in 1 .. Len(log) /\ p \in 1 .. Len(log) /\ DOMAIN log = 1 .. Len(log)
      BY <1>t, <2>2
    <3>2. ASSUME NEW i \in 1 .. Len(b), at[i] = q PROVE Gone(q)
      <4>1. CASE i = 1 \/ log[q] = n \/ log[q] = 0
        BY <1>2, <1>a, <3>2, <4>1 DEF Gone, BatchIsAt
      <4>2. CASE i # 1 /\ log[q] # n /\ log[q] # 0
        <5>1. 1 \in 1 .. Len(b) /\ 1 < i
          BY <1>2, <4>2
        <5>2. at[1] < q /\ log[at[1]] = n /\ at[1] \in 1 .. kafka.next - 1
          BY <1>a, <3>2, <5>1 DEF BatchIsAt
        <5>3. q < p
          BY <2>2, <4>2
        <5>4. at[1] \in DOMAIN log /\ p \in DOMAIN log
          BY <1>t, <3>1, <5>2
        <5>5. log[at[1]] = log[p] /\ log[at[1]] # 0 /\ log[at[1]] # log[q]
          BY <1>2, <2>2, <4>2, <5>2
        <5>6. Straddled(q)
          BY <5>2, <5>3, <5>4, <5>5 DEF Straddled
        <5>7. QED
          BY <5>6 DEF Gone
      <4>3. QED
        BY <4>1, <4>2
    <3>3. QED
      BY <1>a, <3>1, <3>2 DEF BatchIsAt
  <2>7. \A q : Gone(q) <=> Gone(q)'
    BY <1>1 DEF Gone, Straddled
  <2>8. PassedOver'
    <3>1. SeekPending' = SeekPending \/ SeekPending' = p + 1
      BY <2>2, <2>5, <1>8, <1>t DEF SeekPending, pending
    <3>2. \A q \in 1 .. SeekPending' - 1 : Gone(q)
      BY <1>i, <1>3, <2>6, <3>1 DEF PassedOver
    <3>3. QED
      BY <2>5, <2>6, <2>7, <3>2 DEF PassedOver
  <2>9. PositionsAreRight'
    BY <1>1, <1>i, <2>3, <2>5 DEF PositionsAreRight
  <2>a. /\ HasInHand(learner') /\ learner'.at \in {"idle", "handle"} /\ learner'.batch = Tail(b)
        /\ Len(Tail(b)) = Len(b) - 1
        /\ \A i \in 1 .. Len(b) - 1 : Tail(b)[i] = b[i + 1]
    BY <1>1, <1>t, <2>1, AfterCommitProperties
  <2>10. BatchIsOpen'
    <3>0. PICK rest : rest = [i \in 1 .. Len(Tail(b)) |-> at[i + 1]]
      OBVIOUS
    <3>1. \A i \in 1 .. Len(Tail(b)) : i + 1 \in 1 .. Len(b) /\ Tail(b)[i] = b[i + 1] /\ rest[i] = at[i + 1]
      BY <1>2, <2>a, <3>0
    <3>2. rest \in [1 .. Len(Tail(b)) -> 1 .. kafka.next - 1]
      BY <3>0, <3>1
    <3>3. \A i \in 1 .. Len(Tail(b)) : Tail(b)[i] = log[rest[i]]
      BY <1>a, <3>1 DEF BatchIsAt
    <3>4. ASSUME NEW i \in 1 .. Len(Tail(b)), NEW j \in 1 .. Len(Tail(b)), i < j PROVE rest[i] < rest[j]
      <4>1. i + 1 < j + 1
        BY <1>2, <2>a, <3>4
      <4>2. QED
        BY <1>a, <3>1, <4>1 DEF BatchIsAt
    <3>5. ASSUME NEW q \in 1 .. kafka.next - 1 PROVE Gone(q) \/ \E i \in 1 .. Len(Tail(b)) : rest[i] = q
      <4>1. ASSUME NEW i \in 1 .. Len(b), at[i] = q PROVE Gone(q) \/ \E j \in 1 .. Len(Tail(b)) : rest[j] = q
        <5>1. CASE i = 1
          BY <1>2, <1>a, <4>1, <5>1 DEF Gone, BatchIsAt
        <5>2. CASE i # 1
          <6>1. i - 1 \in 1 .. Len(Tail(b)) /\ i - 1 + 1 = i
            BY <1>2, <2>a, <5>2
          <6>2. rest[i - 1] = q
            BY <3>1, <4>1, <6>1
          <6>3. QED
            BY <6>1, <6>2
        <5>3. QED
          BY <5>1, <5>2
      <4>2. QED
        BY <1>a, <4>1 DEF BatchIsAt
    <3>6. ASSUME NEW i \in 1 .. Len(Tail(b)) PROVE position[Tail(b)[i]] < kafka.next
      <4>1. kafka.position[Tail(b)[i]] < kafka.next
        BY <1>a, <3>1 DEF BatchIsAt
      <4>2. Tail(b)[i] \in Numbers
        BY <1>t, <3>1 DEF HasInHand, Numbers
      <4>3. \A m \in Numbers : kafka.position[m] < kafka.next => position[m] < kafka.next
        BY <1>t, <2>3
      <4>4. QED
        BY <4>1, <4>2, <4>3
    <3>7. BatchIsAt(rest)'
      BY <1>1, <2>5, <2>7, <2>a, <3>3, <3>4, <3>5, <3>6 DEF BatchIsAt
    <3>8. QED
      BY <2>5, <2>a, <3>2, <3>7 DEF BatchIsOpen
  <2>11. kafka'.committed <= Len(log) /\ kafka'.next <= Len(log) + 1 /\ kafka'.pending <= Len(log) + 1
    BY <1>t, <2>2, <2>4, <2>5
  <2>12. HasInHand(learner') /\ learner'.at # "commit"
    BY <2>a
  <2>13. QED
    BY <1>1, <1>5, <1>6, <2>5, <2>8, <2>9, <2>10, <2>11, <2>12, LearningKeepsDelivered
<1>9. QED
  BY <1>7, <1>8

LEMMA RestartDelivers ==
    ASSUME Delivered, Restart PROVE Delivered'
<1> DEFINE empty == [events |-> <<>>, dropped |-> 0, offset |-> [learning |-> 0, relay |-> 0]]
<1>1. /\ emitting' = {} /\ learner' = Loop /\ kafka' = Subscribed(kafka.committed)
      /\ IF transport = "inprocess"
         THEN bus' = empty /\ visible' = {} /\ handled' = {}
         ELSE UNCHANGED <<bus, visible, handled>>
      /\ UNCHANGED <<transport, open, log, overtaken>>
  BY DEF Restart
<1>t. /\ Len(log) \in Nat /\ kafka.committed \in Nat /\ kafka.committed <= Len(log) /\ Published \in Nat
      /\ relay \in [Relays -> Loops] /\ \A r \in Relays : HasInHand(relay[r])
      /\ transport = "inprocess" => open = {} /\ overtaken = {}
      /\ transport # "kafka" => log = <<>> /\ \A r \in Relays : relay[r] = Loop
  BY ShapesOf DEF Delivered, Shaped, Bounded
<1>2. relay' \in [Relays -> Loops] /\ \A r \in Relays : relay'[r] \in {Loop, relay[r]}
  <2>1. PICK r \in Relays : relay' = [relay EXCEPT ![r] = Loop]
    BY DEF Restart
  <2>2. Loop \in Loops
    BY IdleHasNothing DEF HasInHand
  <2>3. QED
    BY <1>t, <2>1, <2>2
<1> DEFINE position == [n \in Numbers |-> 0]
<1>3. /\ kafka' = [committed |-> kafka.committed, next |-> kafka.committed + 1, pending |-> 0, position |-> position]
      /\ position \in [Numbers -> Nat] /\ \A n \in Numbers : position[n] = 0
  BY <1>1 DEF Subscribed
<1> HIDE DEF position
<1>4. /\ kafka' \in Consumers
      /\ kafka'.committed = kafka.committed /\ kafka'.next = kafka.committed + 1
      /\ kafka'.pending = 0 /\ kafka'.position = position
  BY <1>t, <1>3 DEF Consumers
<1>5. HasInHand(learner)' /\ learner'.at = "idle"
  <2>1. <<>> \in Seq(Nat) /\ Len(<<>>) = 0 /\ PollLimit \in Nat
    BY EmptySeq, DeliveryAssumption DEF DeliveryAssumption
  <2>2. QED
    BY <1>1, <2>1 DEF HasInHand, Loop, Loops
<1>6. CASE transport = "inprocess"
  <2>1. bus' = empty /\ handled' = {} /\ visible' = {}
    BY <1>1, <1>6
  <2>2. <<>> \in Seq(Events) /\ Len(<<>>) = 0
    BY EmptySeq
  <2>3. /\ bus' \in Buses /\ bus'.dropped = 0 /\ bus'.offset.learning = 0 /\ bus'.offset.relay = 0
        /\ Published' = 0
    BY <2>1, <2>2 DEF Published, Buses
  <2>4. log = <<>> /\ Len(log) = 0 /\ open' = {} /\ overtaken' = {} /\ Drawn' = {}
    BY <1>1, <1>t, <1>6, <2>1, EmptySeq DEF Drawn
  <2>5. \A r \in Relays : relay'[r] = Loop
    BY <1>t, <1>2, <1>6
  <2>6. Shaped'
    BY <1>1, <1>2, <1>4, <2>1, <2>3 DEF Delivered, Shaped
  <2>7. \A r \in Relays : HasInHand(relay[r])'
    <3>1. <<>> \in Seq(Nat) /\ Len(<<>>) = 0 /\ PollLimit \in Nat
      BY EmptySeq, DeliveryAssumption DEF DeliveryAssumption
    <3>2. ASSUME NEW r \in Relays PROVE HasInHand(relay[r])'
      <4>1. Loop.at = "idle" /\ Loop.batch = <<>>
        BY DEF Loop
      <4>2. Loop \in Loops
        BY IdleHasNothing DEF HasInHand
      <4>3. relay'[r].at = "idle" /\ relay'[r].batch = <<>> /\ relay'[r] \in Loops
        BY <2>5, <4>1, <4>2
      <4>4. QED
        BY <3>1, <4>3 DEF HasInHand
    <3>3. QED
      BY <3>2
  <2>8. Bounded'
    <3>1. MaxEvents \in Nat
      BY DeliveryAssumption DEF DeliveryAssumption
    <3>2. QED
      BY <1>1, <1>t, <1>4, <1>5, <1>6, <2>1, <2>3, <2>4, <2>5, <2>7, <3>1 DEF Bounded
  <2>9. FromBus' /\ FromOutbox' /\ FromTopic'
    BY <1>1, <1>5, <1>6, <2>4 DEF FromBus, FromOutbox, FromTopic, Passed, Holds
  <2>10. QED
    BY <2>6, <2>8, <2>9 DEF Delivered
<1>7. CASE transport # "inprocess"
  <2>1. UNCHANGED <<bus, visible, handled>> /\ UNCHANGED Published /\ UNCHANGED Drawn
    BY <1>1, <1>7 DEF Published, Drawn
  <2>2. Shaped'
    BY <1>1, <1>2, <1>4, <2>1 DEF Delivered, Shaped
  <2>3. \A r \in Relays : HasInHand(relay'[r])
    BY <1>t, <1>2, IdleHasNothing
  <2>4. \A r \in Relays : HasInHand(relay[r])'
    BY <2>1, <2>3 DEF HasInHand
  <2>5. Bounded'
    BY <1>1, <1>t, <1>2, <1>4, <1>5, <2>1, <2>4 DEF Delivered, Bounded
  <2>6. FromBus'
    BY <1>1, <1>5, <2>1 DEF Delivered, FromBus, Holds
  <2>7. FromOutbox'
    <3>1. SUFFICES ASSUME transport = "kafka" PROVE FromOutbox'
      BY <1>1 DEF FromOutbox
    <3>2. UNCHANGED Forwarded
      BY <1>1 DEF Forwarded, OnTopic
    <3>3. /\ bus.dropped = 0 /\ Passed(bus.offset.relay, Drawn, bus.dropped, Forwarded)
          /\ \A r \in Relays : Holds(relay[r], Drawn, bus.dropped, Forwarded)
      BY <3>1 DEF Delivered, FromOutbox
    <3>4. \A r \in Relays : Holds(relay'[r], Drawn, bus.dropped, Forwarded)
      BY <1>2, <3>3, IdleHolds
    <3>5. QED
      BY <2>1, <3>2, <3>3, <3>4 DEF FromOutbox
  <2>8. ASSUME transport = "kafka" PROVE (PassedOver /\ PositionsAreRight /\ BatchIsOpen)'
    <3>1. PassedOver
      BY <2>8 DEF Delivered, FromTopic
    <3>2. SeekPending' = kafka.committed + 1
      BY <1>4 DEF SeekPending
    <3>3. \A p \in 1 .. kafka.committed : Gone(p)'
      BY <1>1, <2>1, <3>1 DEF PassedOver, Gone, Straddled
    <3>4. PassedOver'
      <4>1. \A p \in 1 .. SeekPending' - 1 : Gone(p)'
        BY <1>t, <3>2, <3>3
      <4>2. QED
        BY <1>4, <3>3, <4>1 DEF PassedOver
    <3>5. QED
      BY <1>3, <1>4, <1>5, <3>4 DEF PositionsAreRight, BatchIsOpen
  <2>9. QED
    BY <1>1, <2>2, <2>5, <2>6, <2>7, <2>8 DEF Delivered, FromTopic
<1>8. QED
  BY <1>6, <1>7

LEMMA DeliveredInvariant == Spec => []Delivered
<1>1. Init => Delivered
  <2> SUFFICES ASSUME Init PROVE Delivered
    OBVIOUS
  <2>1. /\ transport \in Transports /\ emitting = {} /\ log = <<>> /\ handled = {} /\ learner = Loop
        /\ relay = [r \in Relays |-> Loop] /\ open = {} /\ visible = {} /\ overtaken = {}
        /\ bus = [events |-> <<>>, dropped |-> 0, offset |-> [learning |-> 0, relay |-> 0]]
        /\ kafka = Subscribed(0)
    BY DEF Init
  <2>2. <<>> \in Seq(Events) /\ <<>> \in Seq(Nat) /\ Len(<<>>) = 0
    BY EmptySeq
  <2>3. /\ bus \in Buses /\ bus.dropped = 0 /\ bus.offset.learning = 0 /\ bus.offset.relay = 0
        /\ Published = 0 /\ Drawn = {}
    BY <2>1, <2>2 DEF Published, Buses, Drawn
  <2> DEFINE position == [n \in Numbers |-> 0]
  <2>4. /\ kafka = [committed |-> 0, next |-> 1, pending |-> 0, position |-> position]
        /\ position \in [Numbers -> Nat] /\ \A n \in Numbers : position[n] = 0
    BY <2>1 DEF Subscribed
  <2> HIDE DEF position
  <2>5. /\ kafka \in Consumers
        /\ kafka.committed = 0 /\ kafka.next = 1 /\ kafka.pending = 0 /\ kafka.position = position
    BY <2>4 DEF Consumers
  <2>6. HasInHand(Loop) /\ Loop \in Loops /\ Loop.at = "idle"
    BY IdleHasNothing DEF HasInHand, Loop
  <2>7. relay \in [Relays -> Loops] /\ \A r \in Relays : relay[r] = Loop /\ HasInHand(relay[r])
    BY <2>1, <2>6
  <2>8. Shaped
    BY <2>1, <2>2, <2>3, <2>5, <2>7 DEF Shaped
  <2>9. Bounded
    <3>1. MaxEvents \in Nat
      BY DeliveryAssumption DEF DeliveryAssumption
    <3>2. QED
      BY <2>1, <2>2, <2>3, <2>5, <2>6, <2>7, <3>1 DEF Bounded
  <2>10. FromBus /\ FromOutbox
    BY <2>1, <2>3, <2>6, <2>7 DEF FromBus, FromOutbox, Passed, Holds
  <2>11. FromTopic
    <3>1. SeekPending = 1
      BY <2>5 DEF SeekPending
    <3>2. QED
      BY <2>1, <2>4, <2>5, <2>6, <3>1 DEF FromTopic, PassedOver, PositionsAreRight, BatchIsOpen
  <2>12. QED
    BY <2>8, <2>9, <2>10, <2>11 DEF Delivered
<1>2. Delivered /\ [Next]_vars => Delivered'
  <2> SUFFICES ASSUME Delivered, [Next]_vars PROVE Delivered'
    OBVIOUS
  <2>1. CASE LearnerStep
    BY <2>1, BusPollDelivers, KafkaPollDelivers, HandleDelivers, BusCommitDelivers, KafkaCommitDelivers DEF LearnerStep
  <2>2. QED
    BY <2>1, WritingDelivers, RelayingDelivers, RestartDelivers DEF Next
<1>3. QED
  BY <1>1, <1>2, PTL DEF Spec

\* "An event is committed only once Kafka has it" (kafka.py:162): with any number of relays, whatever
\* publishes fail or are not confirmed and whoever restarts, an event the relays are past is on the
\* topic, unless a relay read a higher number while its transaction was open (postgres.py:7).
THEOREM RelayLosesNothing == Spec => []RelayedBeforeCommitted
<1>1. Delivered => RelayedBeforeCommitted
  <2> SUFFICES ASSUME Delivered, transport = "kafka", NEW n \in visible \ overtaken, n <= bus.offset.relay
               PROVE  OnTopic(n)
    BY DEF RelayedBeforeCommitted
  <2>1. n \in Drawn /\ n \in Nat /\ 0 < n
    BY ShapesOf DEF Delivered, Bounded, Drawn
  <2>2. bus.dropped = 0 /\ Passed(bus.offset.relay, Drawn, bus.dropped, Forwarded)
    BY DEF Delivered, FromOutbox
  <2>3. n \in Forwarded
    BY <2>1, <2>2 DEF Passed
  <2>4. QED
    BY <2>3 DEF Forwarded
<1>2. QED
  BY <1>1, DeliveredInvariant, PTL

\* "An event is committed only after its handler succeeds" (kafka.py:5), as far as the code keeps it:
\* whatever handlers and publishes fail, however often and in whatever order events are on the topic,
\* whoever restarts, the learner passes over an event unhandled only where the bus dropped it, where it
\* read a higher number while the event's transaction was open, or where the event lies on the topic
\* between two copies of another.
THEOREM NothingElseIsPassedOver == Spec => []CommittedWasHandled
<1>1. Delivered => CommittedWasHandled
  <2> SUFFICES ASSUME Delivered PROVE CommittedWasHandled
    OBVIOUS
  <2>1. CASE transport = "kafka"
    BY <2>1 DEF Delivered, FromTopic, PassedOver, Gone, CommittedWasHandled
  <2>2. CASE transport # "kafka"
    <3>1. ASSUME NEW n \in visible \ overtaken, n \in bus.dropped + 1 .. bus.offset.learning PROVE n \in handled
      <4>1. n \in Drawn /\ bus.dropped < n /\ n <= bus.offset.learning
        BY <3>1, ShapesOf DEF Drawn, Delivered
      <4>2. n \in handled \union overtaken
        BY <2>2, <4>1 DEF Delivered, FromBus, Passed
      <4>3. QED
        BY <4>2
    <3>2. QED
      BY <2>2, <3>1 DEF CommittedWasHandled
  <2>3. QED
    BY <2>1, <2>2
<1>2. QED
  BY <1>1, DeliveredInvariant, PTL

-----------------------------------------------------------------------------
(* Incident memory. *)
Outcomes == [Changes -> {"open", "resolved", "rejected"}]

\* The types that learning rests on.  Those of the bus and the topic are not among them: an event
\* only makes the learner look, so no event can make it learn what is not so.
MemoryTyped ==
    /\ store \in [Changes -> States]
    /\ memory \in [mem : Outcomes, stored : Outcomes]

\* What an outcome says of the change it was learned from.
True(outcomes) ==
    \A i \in Changes : /\ outcomes[i] = "resolved" => store[i] = "promoted_to_prod"
                       /\ outcomes[i] = "rejected" => store[i] = "closed_rejected"

LEMMA MemoryIsTrueOfBoth == MemoryIsTrue <=> True(memory.mem) /\ True(memory.stored)
  BY DEF MemoryIsTrue, True

LEMMA LearningIsTrue ==
    ASSUME store \in [Changes -> States], NEW outcomes \in Outcomes, True(outcomes), NEW i
    PROVE  /\ Learned(outcomes, i) \in Outcomes /\ True(Learned(outcomes, i))
           /\ \A j \in Changes : outcomes[j] # "open" => Learned(outcomes, i)[j] = outcomes[j]
<1>1. OutcomeOf(store[i]) \in {"open", "resolved", "rejected"}
      /\ (OutcomeOf(store[i]) = "resolved" => store[i] = "promoted_to_prod")
      /\ (OutcomeOf(store[i]) = "rejected" => store[i] = "closed_rejected")
  BY DEF OutcomeOf
<1>2. CASE outcomes[i] = "open"
  <2>1. Learned(outcomes, i) = [outcomes EXCEPT ![i] = OutcomeOf(store[i])]
    BY <1>2 DEF Learned
  <2>2. \A j \in Changes : Learned(outcomes, i)[j] = IF j = i THEN OutcomeOf(store[i]) ELSE outcomes[j]
    BY <2>1 DEF Outcomes
  <2>3. QED
    BY <1>1, <1>2, <2>1, <2>2 DEF Outcomes, True
<1>3. CASE outcomes[i] # "open"
  BY <1>3 DEF Learned
<1>4. QED
  BY <1>2, <1>3

\* The sweep at startup: true too, and where an outcome is known already, the same.
LEMMA SweepIsTrue ==
    ASSUME store \in [Changes -> States], NEW outcomes \in Outcomes, True(outcomes)
    PROVE  /\ Reconcile(outcomes) \in Outcomes /\ True(Reconcile(outcomes))
           /\ \A known \in Outcomes : True(known) =>
                 \A i \in Changes : known[i] # "open" => Reconcile(outcomes)[i] = known[i]
<1>1. \A i \in Changes : /\ Learned(outcomes, i) \in Outcomes /\ True(Learned(outcomes, i))
                         /\ Reconcile(outcomes)[i] = Learned(outcomes, i)[i]
  BY LearningIsTrue DEF Reconcile
<1>2. Reconcile(outcomes) \in Outcomes /\ True(Reconcile(outcomes))
  BY <1>1 DEF Reconcile, Outcomes, True
<1>3. ASSUME NEW known \in Outcomes, True(known), NEW i \in Changes, known[i] # "open"
      PROVE  Reconcile(outcomes)[i] = known[i]
  <2>1. known[i] = OutcomeOf(store[i])
    BY <1>3 DEF True, Outcomes, OutcomeOf
  <2>2. CASE outcomes[i] = "open"
    <3>1. Learned(outcomes, i)[i] = OutcomeOf(store[i])
      BY <2>2 DEF Learned, Outcomes
    <3>2. QED
      BY <1>1, <2>1, <3>1
  <2>3. CASE outcomes[i] # "open"
    BY <1>1, <1>3, <2>3 DEF True, Outcomes, Learned
  <2>4. QED
    BY <2>2, <2>3
<1>4. QED
  BY <1>2, <1>3

\* Of an outcome drawn but not committed: nothing else has been written to its change, which the
\* transaction holds.
ChangesAreHeld ==
    /\ \A n \in open : bus.events[n].of \in Changes /\ bus.events[n].to \in States
    /\ \A n \in open : store[bus.events[n].of] = "pending_approval"
    /\ \A m, n \in open : bus.events[m].of = bus.events[n].of => m = n

Learnt == MemoryTyped /\ MemoryIsTrue /\ ChangesAreHeld

LEMMA MemoryStep ==
    ASSUME Learnt, Delivered, [Next]_vars
    PROVE  /\ Learnt'
           /\ \A i \in Changes : memory.mem[i] # "open" => memory.mem'[i] = memory.mem[i]
<1>t. /\ store \in [Changes -> States] /\ memory.mem \in Outcomes /\ memory.stored \in Outcomes
      /\ True(memory.mem) /\ True(memory.stored) /\ memory \in [mem : Outcomes, stored : Outcomes]
      /\ ChangesAreHeld
  BY MemoryIsTrueOfBoth DEF Learnt, MemoryTyped
<1>d. /\ bus.events \in Seq(Events) /\ Published \in Nat /\ open \subseteq 1 .. Published
      /\ Published = Len(bus.events)
      /\ transport = "inprocess" => open = {}
  BY ShapesOf DEF Delivered, Bounded, Drawn, Published
\* A change that waits for approval gets a state of its own.
<1>1. ASSUME NEW i \in Changes, NEW to \in States, store[i] = "pending_approval",
             store' = [store EXCEPT ![i] = to], UNCHANGED memory, ChangesAreHeld'
      PROVE  /\ Learnt'
             /\ \A j \in Changes : memory.mem[j] # "open" => memory.mem'[j] = memory.mem[j]
  <2>1. \A j \in Changes : store'[j] # store[j] => store[j] = "pending_approval"
    BY <1>t, <1>1
  <2>2. QED
    BY <1>t, <1>1, <2>1 DEF Learnt, MemoryTyped, MemoryIsTrue, True
<1>2. ASSUME UNCHANGED <<store, memory>>, ChangesAreHeld'
      PROVE  /\ Learnt'
             /\ \A j \in Changes : memory.mem[j] # "open" => memory.mem'[j] = memory.mem[j]
  BY <1>2 DEF Learnt, MemoryTyped, MemoryIsTrue
<1>3. ASSUME open' \subseteq open, UNCHANGED <<bus, store>> PROVE ChangesAreHeld'
  BY <1>t, <1>3 DEF ChangesAreHeld
<1>4. ASSUME NEW i \in Changes, NEW to \in States, Save(i, to)
      PROVE  /\ Learnt'
             /\ \A j \in Changes : memory.mem[j] # "open" => memory.mem'[j] = memory.mem[j]
  <2>1. store[i] = "pending_approval" /\ store' = [store EXCEPT ![i] = to] /\ UNCHANGED memory /\ open' = {}
    BY <1>4, <1>d DEF Save, rows
  <2>2. ChangesAreHeld'
    BY <2>1 DEF ChangesAreHeld
  <2>3. QED
    BY <1>1, <2>1, <2>2
<1>5. ASSUME NEW i \in Changes, NEW to \in States, Begin(i, to)
      PROVE  /\ Learnt'
             /\ \A j \in Changes : memory.mem[j] # "open" => memory.mem'[j] = memory.mem[j]
  <2> DEFINE e == [of |-> i, to |-> to]
  <2>1. /\ store[i] = "pending_approval" /\ \A n \in open : bus.events[n].of # i
        /\ Stored(e) /\ open' = open \union {Published + 1}
        /\ UNCHANGED <<store, memory>>
    BY <1>5 DEF Begin
  <2>2. bus'.events = Append(bus.events, e)
    BY <2>1, ShapesOf DEF Stored, Delivered
  <2>3. e.of = i /\ e.to = to /\ e \in Events
    BY DEF Events
  <2> HIDE DEF e
  <2>4. bus'.events[Published + 1] = e /\ \A n \in open : bus'.events[n] = bus.events[n]
    BY <1>d, <2>2, <2>3, AppendProperties
  <2>5. \A n \in open' : n \in open \/ n = Published + 1
    BY <2>1
  <2>6. ChangesAreHeld'
    BY <1>t, <2>1, <2>3, <2>4, <2>5 DEF ChangesAreHeld
  <2>7. QED
    BY <1>2, <2>1, <2>6
<1>6. ASSUME NEW n \in open, Commit(n)
      PROVE  /\ Learnt'
             /\ \A j \in Changes : memory.mem[j] # "open" => memory.mem'[j] = memory.mem[j]
  <2> DEFINE i == bus.events[n].of
             to == bus.events[n].to
  <2>1. i \in Changes /\ to \in States /\ store[i] = "pending_approval"
    BY <1>t DEF ChangesAreHeld
  <2>2. open' = open \ {n} /\ store' = [store EXCEPT ![i] = to] /\ UNCHANGED <<bus, memory>>
    BY <1>6 DEF Commit
  <2> HIDE DEF i, to
  <2>3. \A m \in open' : m \in open /\ store'[bus.events[m].of] = store[bus.events[m].of]
    BY <1>t, <2>1, <2>2 DEF ChangesAreHeld, i
  <2>4. ChangesAreHeld'
    BY <1>t, <2>2, <2>3 DEF ChangesAreHeld
  <2>5. QED
    BY <1>1, <2>1, <2>2, <2>4
<1>7. ASSUME NEW n \in open, Rollback(n)
      PROVE  /\ Learnt'
             /\ \A j \in Changes : memory.mem[j] # "open" => memory.mem'[j] = memory.mem[j]
  BY <1>2, <1>3, <1>7 DEF Rollback
<1>8. CASE Handle
  <2> DEFINE of == bus.events[Head(learner.batch)].of
  <2>1. UNCHANGED <<store, rows>>
    BY <1>8 DEF Handle
  <2>2. PICK mem \in {memory.mem, Learned(memory.mem, of)} :
            \/ memory' = [mem |-> mem, stored |-> IF mem = memory.mem THEN memory.stored ELSE mem]
            \/ UNCHANGED memory
            \/ memory' = [memory EXCEPT !.mem = mem]
    BY <1>8 DEF Handle, Returns
  <2>3. /\ mem \in Outcomes /\ True(mem)
        /\ \A j \in Changes : memory.mem[j] # "open" => mem[j] = memory.mem[j]
    BY <1>t, <2>2, LearningIsTrue
  <2>4. memory' \in [mem : {memory.mem, mem}, stored : {memory.stored, mem}]
    <3>1. CASE memory' = [mem |-> mem, stored |-> IF mem = memory.mem THEN memory.stored ELSE mem]
      BY <3>1
    <3>2. CASE UNCHANGED memory
      BY <1>t, <3>2
    <3>3. CASE memory' = [memory EXCEPT !.mem = mem]
      BY <1>t, <3>3
    <3>4. QED
      BY <2>2, <3>1, <3>2, <3>3
  <2>5. ChangesAreHeld'
    BY <1>3, <2>1 DEF rows
  <2>6. QED
    BY <1>t, <2>1, <2>3, <2>4, <2>5 DEF Learnt, MemoryTyped, MemoryIsTrue, True
<1>9. CASE Restart
  <2>1. /\ UNCHANGED <<store, open>>
        /\ memory' = [mem |-> Reconcile(memory.stored), stored |-> Reconcile(memory.stored)]
        /\ transport # "inprocess" => UNCHANGED bus
    BY <1>9 DEF Restart
  <2>2. ChangesAreHeld'
    BY <1>3, <1>d, <2>1 DEF ChangesAreHeld
  <2>3. QED
    BY <1>t, <2>1, <2>2, SweepIsTrue DEF Learnt, MemoryTyped, MemoryIsTrue, True
\* An event beside the JSON file, with no transaction open.
<1>10. ASSUME NEW e \in emitting, Emit(e)
       PROVE  /\ Learnt'
              /\ \A j \in Changes : memory.mem[j] # "open" => memory.mem'[j] = memory.mem[j]
  <2>1. open = {} /\ UNCHANGED <<open, store, memory>>
    BY <1>10 DEF Emit, Delivered, Bounded
  <2>2. QED
    BY <1>2, <2>1 DEF ChangesAreHeld
\* Offsets move, and the events stay.
<1>11. ASSUME UNCHANGED <<store, memory, open>>,
              UNCHANGED bus \/ \E group \in {"learning", "relay"}, n \in Nat : Advance(group, n)
       PROVE  /\ Learnt'
              /\ \A j \in Changes : memory.mem[j] # "open" => memory.mem'[j] = memory.mem[j]
  <2>1. bus'.events = bus.events
    BY <1>11, ShapesOf DEF Advance, Delivered
  <2>2. ChangesAreHeld'
    BY <1>t, <1>11, <2>1 DEF ChangesAreHeld
  <2>3. QED
    BY <1>2, <1>11, <2>2
<1>h. /\ \A r \in Relays : relay[r].at # "idle" => Head(relay[r].batch) \in Nat
      /\ learner.at # "idle" => Head(learner.batch) \in Nat
  BY <1>d, HandsOf DEF Delivered, Bounded
<1>12. ASSUME NEW r \in Relays, RelayStep(r)
       PROVE  UNCHANGED <<store, memory, open>> /\ (UNCHANGED bus \/ \E group \in {"learning", "relay"}, n \in Nat : Advance(group, n))
  <2>1. CASE RelayPoll(r) \/ RelayPublish(r)
    BY <2>1 DEF RelayPoll, RelayPublish, rows
  <2>2. CASE RelayCommit(r)
    BY <1>h, <2>2 DEF RelayCommit
  <2>3. QED
    BY <1>12, <2>1, <2>2 DEF RelayStep
<1>13. ASSUME BusPoll \/ KafkaPoll \/ BusCommit \/ KafkaCommit
       PROVE  UNCHANGED <<store, memory, open>> /\ (UNCHANGED bus \/ \E group \in {"learning", "relay"}, n \in Nat : Advance(group, n))
  <2>1. CASE BusPoll
    BY <2>1 DEF BusPoll, rows
  <2>2. CASE KafkaPoll
    BY <2>2 DEF KafkaPoll, rows
  <2>3. CASE KafkaCommit
    BY <2>3 DEF KafkaCommit, rows
  <2>4. CASE BusCommit
    BY <1>h, <2>4 DEF BusCommit
  <2>5. QED
    BY <1>13, <2>1, <2>2, <2>3, <2>4
<1>14. CASE Unreadable \/ UNCHANGED vars
  BY <1>11, <1>14 DEF Unreadable, vars, rows
<1>15. QED
  BY <1>4, <1>5, <1>6, <1>7, <1>8, <1>9, <1>10, <1>11, <1>12, <1>13, <1>14 DEF Next, EmitStep, LearnerStep

LEMMA MemoryInvariant == Spec => []Learnt
<1>1. Init => Learnt
  BY DEF Init, Learnt, MemoryTyped, MemoryIsTrue, ChangesAreHeld, Outcomes, States
<1>2. Learnt /\ Delivered /\ [Next]_vars => Learnt'
  BY MemoryStep
<1>3. QED
  BY <1>1, <1>2, DeliveredInvariant, PTL DEF Spec

\* "Nothing else becomes memory" (learning.py:7): what incident memory says of an incident is what
\* became of its change, on every transport, whatever is repeated, reordered, lost or restarted.
THEOREM MemoryTellsTheTruth == Spec => []MemoryIsTrue
<1>1. Learnt => MemoryIsTrue
  BY DEF Learnt
<1>2. QED
  BY <1>1, MemoryInvariant, PTL

\* "Learning the same outcome twice must change nothing" (learning.py:10): an outcome, once learned,
\* is never forgotten or learned otherwise, though storing it failed before a restart.
THEOREM LearningIsFinal == Spec => LearnedStays
<1>1. Learnt /\ Delivered /\ [Next]_vars =>
          [\A i \in Changes : memory.mem[i] # "open" => memory.mem'[i] = memory.mem[i]]_memory
  BY MemoryStep
<1>2. QED
  BY <1>1, MemoryInvariant, DeliveredInvariant, PTL DEF Spec, LearnedStays

\* The shape of the state: no offset is past what was published, no position past the topic, no loop
\* has more in hand than a poll returns, no number is both drawn and seen.
THEOREM TypeCorrect == Spec => []TypeOK
<1>1. Delivered /\ Learnt => TypeOK
  <2> SUFFICES ASSUME Delivered, Learnt PROVE TypeOK
    OBVIOUS
  <2>1. /\ bus.events \in Seq(Events) /\ Published \in Nat /\ log \in Seq(Nat) /\ Len(log) \in Nat
        /\ bus.offset.learning \in Nat /\ bus.offset.relay \in Nat
        /\ \A p \in 1 .. Len(log) : log[p] \in Nat
        /\ kafka.committed \in Nat /\ kafka.next \in Nat \ {0} /\ kafka.pending \in Nat
    BY ShapesOf DEF Delivered
  <2>2. \A n \in DOMAIN bus.events : bus.events[n] \in [of : Changes, to : States]
    BY <2>1, ElementOfSeq, LenProperties DEF Events
  <2>3. bus.offset.learning \in 0 .. Published /\ bus.offset.relay \in 0 .. Published
    BY <2>1 DEF Delivered, Bounded
  <2>4. \A p \in DOMAIN log : log[p] \in 0 .. Published
    BY <2>1, LenProperties DEF Delivered, Bounded
  <2>5. kafka.committed \in 0 .. Len(log) /\ kafka.next \in 1 .. Len(log) + 1 /\ kafka.pending \in 0 .. Len(log) + 1
    BY <2>1 DEF Delivered, Bounded
  <2>6. \A loop \in {relay[r] : r \in Relays} \union {learner} :
            loop.at \in {"idle", "handle", "commit"} /\ Len(loop.batch) <= PollLimit
    <3>1. \A r \in Relays : HasInHand(relay[r])
      BY DEF Delivered, Bounded
    <3>2. HasInHand(learner)
      BY DEF Delivered, Bounded
    <3>3. QED
      BY <3>1, <3>2 DEF HasInHand, Loops
  <2>7. open \subseteq 1 .. Published /\ visible \subseteq (1 .. Published) \ open /\ overtaken \subseteq 1 .. Published
    BY DEF Delivered, Bounded, Drawn
  <2>8. \A copy \in {memory.mem, memory.stored} : copy \in [Changes -> {"open", "resolved", "rejected"}]
    BY DEF Learnt, MemoryTyped, Outcomes
  <2>9. store \in [Changes -> States] /\ transport \in Transports /\ emitting \subseteq [of : Changes, to : States]
        /\ handled \subseteq Numbers
    BY DEF Delivered, Shaped, Events, Learnt, MemoryTyped
  <2>10. QED
    BY <2>2, <2>3, <2>4, <2>5, <2>6, <2>7, <2>8, <2>9 DEF TypeOK
<1>2. QED
  BY <1>1, DeliveredInvariant, MemoryInvariant, PTL

=============================================================================
