--------------------------- MODULE EventDelivery ----------------------------
(***************************************************************************)
(* Events of change records, from the write that causes one to the         *)
(* incident memory that learns from it: the bus contract and its drain     *)
(* (src/app/events/bus.py), the three buses (inprocess.py, postgres.py,    *)
(* kafka.py), the relay from the Postgres outbox to Kafka, the loops that  *)
(* run them (consumer.py), and the learner (learning.py, knowledge_base.py)*)
(*                                                                         *)
(* A deployment has one of three transports, chosen by its configuration:  *)
(* the in-process bus beside the JSON store, the Postgres outbox, or the   *)
(* outbox relayed to Kafka.  On Postgres several processes write, and each *)
(* may relay: an event has its number when its row is written and is seen  *)
(* when its transaction commits, so a poll may meet a higher number first. *)
(* One process learns.  A topic has one partition.  Postgres and the       *)
(* broker survive a restart.                                               *)
(***************************************************************************)
EXTENDS Integers, Sequences, FiniteSets, SequencesExt

CONSTANTS
    Changes,        \* change records, each with its incident
    Transports,     \* deployments to look at
    BusCapacity,    \* max_events_per_topic of the in-process bus
    PollLimit,      \* events a poll returns at most
    Relays,         \* processes that relay the outbox
    Writers,        \* transactions open at once, at most
    MaxEvents,      \* bound: events published
    MaxFaults       \* bound, for each transport: handlers that raise, publishes that fail or are not
                    \* confirmed, messages on the topic that are not events, restarts

ASSUME DeliveryAssumption ==
    /\ Transports \subseteq {"inprocess", "outbox", "kafka"} /\ Transports # {}
    /\ BusCapacity \in Nat \ {0} /\ PollLimit \in Nat \ {0} /\ MaxEvents \in Nat \ {0}
    /\ Relays # {} /\ Writers \in Nat \ {0}
    /\ MaxFaults \in [Transports -> Nat]

VARIABLES
    transport,  \* the deployment
    store,      \* the state of every change, on file or in Postgres
    emitting,   \* JSON store: the write whose event is not on the bus yet; it holds the store's lock
    bus,        \* the in-process bus or the outbox: every event, how many were dropped, an offset per group
    open,       \* outbox: numbers whose transaction is open
    visible,    \* numbers a poll may see
    log,        \* the Kafka topic: numbers of events, 0 where a message is not an event
    kafka,      \* the learner's consumer: committed at the broker, the rest in memory
    relay,      \* the loop of every relay
    learner,    \* the learner's loop
    memory,     \* outcome of every incident, in memory and stored
    handled,    \* events whose handler has returned
    overtaken,  \* events not visible yet when a poll read a higher number
    faults      \* faults so far (bound)

rows == <<bus, open, visible>>
vars == <<transport, store, emitting, rows, log, kafka, relay, learner, memory, handled, overtaken, faults>>

OutcomeStates == {"promoted_to_prod", "closed_rejected"}
States == {"pending_approval"} \union OutcomeStates
Numbers == 1 .. MaxEvents

Published == Len(bus.events)
Loop == [at |-> "idle", batch |-> <<>>]

\* A consumer that has read nothing yet goes on where the broker says.
Subscribed(committed) ==
    [committed |-> committed, next |-> committed + 1, pending |-> 0, position |-> [n \in Numbers |-> 0]]

\* The shape of the state.
TypeOK ==
    /\ transport \in Transports
    /\ store \in [Changes -> States]
    /\ emitting \subseteq [of : Changes, to : States]
    /\ \A n \in DOMAIN bus.events : bus.events[n] \in [of : Changes, to : States]
    /\ bus.offset.learning \in 0 .. Published /\ bus.offset.relay \in 0 .. Published
    /\ open \subseteq 1 .. Published /\ visible \subseteq (1 .. Published) \ open
    /\ overtaken \subseteq 1 .. Published
    /\ \A p \in DOMAIN log : log[p] \in 0 .. Published
    /\ kafka.committed \in 0 .. Len(log)
    /\ kafka.next \in 1 .. Len(log) + 1 /\ kafka.pending \in 0 .. Len(log) + 1
    /\ \A loop \in {relay[r] : r \in Relays} \union {learner} :
          loop.at \in {"idle", "handle", "commit"} /\ Len(loop.batch) <= PollLimit
    /\ \A copy \in {memory.mem, memory.stored} : copy \in [Changes -> {"open", "resolved", "rejected"}]
    /\ handled \subseteq Numbers

Init ==
    /\ transport \in Transports
    /\ store = [i \in Changes |-> "pending_approval"]
    /\ emitting = {}
    /\ bus = [events |-> <<>>, dropped |-> 0, offset |-> [learning |-> 0, relay |-> 0]]
    /\ open = {} /\ visible = {} /\ overtaken = {}
    /\ log = <<>>
    /\ kafka = Subscribed(0)
    /\ relay = [r \in Relays |-> Loop] /\ learner = Loop
    /\ memory = [copy \in {"mem", "stored"} |-> [i \in Changes |-> "open"]]
    /\ handled = {}
    /\ faults = 0

Fails == faults < MaxFaults[transport] /\ faults' = faults + 1

-----------------------------------------------------------------------------
(* Publishing. *)

\* The in-process bus drops its oldest events above its capacity, read or not.
Stored(e) ==
    bus' = [bus EXCEPT !.events = Append(@, e),
                       !.dropped = IF transport = "inprocess" /\ Published + 1 - BusCapacity > @
                                   THEN Published + 1 - BusCapacity ELSE @]

\* A write to a change beside the JSON file: its event is published afterwards, under the same lock.
Save(i, to) ==
    /\ transport = "inprocess"
    /\ store[i] = "pending_approval" /\ emitting = {}
    /\ Published < MaxEvents
    /\ store' = [store EXCEPT ![i] = to]
    /\ emitting' = {[of |-> i, to |-> to]}
    /\ UNCHANGED <<transport, rows, log, kafka, relay, learner, memory, handled, overtaken, faults>>

Emit(e) ==
    /\ e \in emitting
    /\ emitting' = emitting \ {e}
    /\ Stored(e) /\ visible' = visible \union {Published + 1}
    /\ UNCHANGED <<transport, store, open, log, kafka, relay, learner, memory, handled, overtaken, faults>>

\* In Postgres the event is a row of the write's transaction, which holds the row of the change.
Begin(i, to) ==
    /\ transport # "inprocess"
    /\ store[i] = "pending_approval" /\ \A n \in open : bus.events[n].of # i
    /\ Cardinality(open) < Writers /\ Published < MaxEvents
    /\ Stored([of |-> i, to |-> to])
    /\ open' = open \union {Published + 1}
    /\ UNCHANGED <<transport, store, emitting, visible, log, kafka, relay, learner, memory, handled, overtaken, faults>>

Commit(n) ==
    /\ n \in open
    /\ open' = open \ {n} /\ visible' = visible \union {n}
    /\ store' = [store EXCEPT ![bus.events[n].of] = bus.events[n].to]
    /\ UNCHANGED <<transport, emitting, bus, log, kafka, relay, learner, memory, handled, overtaken, faults>>

\* The number is not used again.
Rollback(n) ==
    /\ n \in open
    /\ open' = open \ {n}
    /\ UNCHANGED <<transport, store, emitting, bus, visible, log, kafka, relay, learner, memory, handled, overtaken, faults>>

-----------------------------------------------------------------------------
(* drain: poll, then for each event the handler and, when it returns, the commit. *)

\* Numbers, or positions on the topic, one after the other.
InOrder(read) == {at \in [1 .. Cardinality(read) -> read] : \A i, j \in DOMAIN at : i < j => at[i] < at[j]}

\* The events of a bus a group has not committed.
Uncommitted(group) == {n \in visible : n > Max({bus.offset[group], bus.dropped})}

\* What a poll returns: the first of them, as numbers, at which they are committed.
Polls(group) ==
    UNION {InOrder(read) : read \in {first \in SUBSET Uncommitted(group) :
        /\ Cardinality(first) = Min({Cardinality(Uncommitted(group)), PollLimit})
        /\ \A n \in first, m \in Uncommitted(group) \ first : n < m}}

\* Events that become visible now will not be read.
Overtake(batch) == overtaken' = overtaken \union {n \in open : \E i \in DOMAIN batch : n < batch[i]}

AfterCommit(loop) ==
    LET rest == Tail(loop.batch) IN [at |-> IF rest = <<>> THEN "idle" ELSE "handle", batch |-> rest]

\* GREATEST: an offset never goes back.
Advance(group, n) ==
    bus' = [bus EXCEPT !.offset[group] = IF n > @ THEN n ELSE @]

-----------------------------------------------------------------------------
(* The relays drain the outbox into Kafka. *)
RelayPoll(r) ==
    /\ transport = "kafka" /\ relay[r].at = "idle" /\ Uncommitted("relay") # {}
    /\ \E batch \in Polls("relay") :
          /\ relay' = [relay EXCEPT ![r] = [at |-> "handle", batch |-> batch]]
          /\ Overtake(batch)
    /\ UNCHANGED <<transport, store, emitting, rows, log, kafka, learner, memory, handled, faults>>

\* Variant for mutation testing: the offset is committed, then the event published.
CommitThenRelay(r) ==
    /\ relay[r].at = "handle"
    /\ \/ /\ log' = Append(log, Head(relay[r].batch))
          /\ relay' = [relay EXCEPT ![r].at = "commit"] /\ UNCHANGED faults
       \/ Fails /\ relay' = [relay EXCEPT ![r] = Loop] /\ UNCHANGED log
    /\ Advance("relay", Head(relay[r].batch))
    /\ UNCHANGED <<transport, store, emitting, open, visible, kafka, learner, memory, handled, overtaken>>

\* Kafka confirms; or refuses, or takes the message without confirming in time, and publish raises.
RelayPublish(r) ==
    /\ relay[r].at = "handle"
    /\ \/ /\ log' = Append(log, Head(relay[r].batch))
          /\ relay' = [relay EXCEPT ![r].at = "commit"] /\ UNCHANGED faults
       \/ Fails /\ relay' = [relay EXCEPT ![r] = Loop] /\ UNCHANGED log
       \/ Fails /\ relay' = [relay EXCEPT ![r] = Loop] /\ log' = Append(log, Head(relay[r].batch))
    /\ UNCHANGED <<transport, store, emitting, rows, kafka, learner, memory, handled, overtaken>>

RelayCommit(r) ==
    /\ relay[r].at = "commit"
    /\ Advance("relay", Head(relay[r].batch))
    /\ relay' = [relay EXCEPT ![r] = AfterCommit(@)]
    /\ UNCHANGED <<transport, store, emitting, open, visible, log, kafka, learner, memory, handled, overtaken, faults>>

\* Somebody else's message on the topic.
Unreadable ==
    /\ transport = "kafka"
    /\ log' = Append(log, 0)
    /\ Fails
    /\ UNCHANGED <<transport, store, emitting, rows, kafka, relay, learner, memory, handled, overtaken>>

-----------------------------------------------------------------------------
(* The learner drains the bus, or Kafka. *)
BusPoll ==
    /\ transport # "kafka" /\ learner.at = "idle" /\ Uncommitted("learning") # {}
    /\ \E batch \in Polls("learning") :
          /\ learner' = [at |-> "handle", batch |-> batch]
          /\ Overtake(batch)
    /\ UNCHANGED <<transport, store, emitting, rows, log, kafka, relay, memory, handled, faults>>

\* Variant for mutation testing: a Kafka consumer moves on by itself.
ReadOn == kafka.next

\* Back to what was polled and never committed.
SeekPending == IF kafka.pending # 0 THEN kafka.pending ELSE kafka.next

\* Variant for mutation testing: a poll reads the topic to its end.
ReadsAll(from) == Len(log)

\* The last position a poll reads.
Reads(from) == Min({Len(log), from + PollLimit - 1})

\* Messages that are not events are skipped, and have no position.
KafkaPoll ==
    /\ transport = "kafka" /\ learner.at = "idle"
    /\ LET from == SeekPending
           upto == Reads(from)
           read == {p \in from .. upto : log[p] # 0} IN
        /\ from <= upto
        /\ \E at \in InOrder(read) :
              learner' = IF read = {} THEN Loop ELSE [at |-> "handle", batch |-> [i \in DOMAIN at |-> log[at[i]]]]
        /\ kafka' = [kafka EXCEPT
              !.next = upto + 1,
              !.pending = IF read = {} THEN @ ELSE Min(read \union ({@} \ {0})),
              !.position = [n \in Numbers |->
                  LET copies == {p \in read : log[p] = n} IN IF copies = {} THEN @[n] ELSE Max(copies)]]
    /\ UNCHANGED <<transport, store, emitting, rows, log, relay, memory, handled, overtaken, faults>>

\* Variant for mutation testing: what is not a promotion is a rejection.
OutcomeOfAnything(state) == IF state = "promoted_to_prod" THEN "resolved" ELSE "rejected"

\* Variant for mutation testing: a rejected change teaches nothing.
OutcomeOfRelease(state) == IF state = "promoted_to_prod" THEN "resolved" ELSE "open"

OutcomeOf(state) ==
    CASE state = "promoted_to_prod" -> "resolved"
      [] state = "closed_rejected"  -> "rejected"
      [] OTHER                      -> "open"

\* Only an incident that is still open learns, and from the change as it is now.
Learned(outcomes, i) == IF outcomes[i] = "open" THEN [outcomes EXCEPT ![i] = OutcomeOf(store[i])] ELSE outcomes

Returns ==
    /\ learner' = [learner EXCEPT !.at = "commit"]
    /\ handled' = handled \union {Head(learner.batch)}

\* The handler: an event that says an outcome makes the learner look at the change, for which it
\* waits for the store's lock.  Reading the change may raise; so may storing the incident, which
\* the list in memory has by then.
Handle ==
    /\ learner.at = "handle"
    /\ bus.events[Head(learner.batch)].to \in OutcomeStates => emitting = {}
    /\ LET e == bus.events[Head(learner.batch)]
           mem == IF e.to \in OutcomeStates THEN Learned(memory.mem, e.of) ELSE memory.mem IN
       \/ /\ memory' = [mem |-> mem, stored |-> IF mem = memory.mem THEN memory.stored ELSE mem]
          /\ Returns /\ UNCHANGED faults
       \/ Fails /\ learner' = Loop /\ UNCHANGED <<memory, handled>>
       \/ /\ mem # memory.mem /\ Fails
          /\ memory' = [memory EXCEPT !.mem = mem]
          /\ learner' = Loop /\ UNCHANGED handled
    /\ UNCHANGED <<transport, store, emitting, rows, log, kafka, relay, overtaken>>

BusCommit ==
    /\ transport # "kafka" /\ learner.at = "commit"
    /\ Advance("learning", Head(learner.batch))
    /\ learner' = AfterCommit(learner)
    /\ UNCHANGED <<transport, store, emitting, open, visible, log, kafka, relay, memory, handled, overtaken, faults>>

\* By event id, at the position of the copy read last.  Without a position commit raises.
KafkaCommit ==
    /\ transport = "kafka" /\ learner.at = "commit"
    /\ LET n == Head(learner.batch)
           p == kafka.position[n] IN
       IF p = 0 THEN learner' = Loop /\ UNCHANGED kafka
       ELSE /\ kafka' = [kafka EXCEPT !.committed = p, !.position[n] = 0,
                                      !.pending = IF @ = p THEN p + 1 ELSE @]
            /\ learner' = AfterCommit(learner)
    /\ UNCHANGED <<transport, store, emitting, rows, log, relay, memory, handled, overtaken, faults>>

-----------------------------------------------------------------------------
(* The learner's process ends and starts again, with its relay. *)

\* Variant for mutation testing: no sweep at startup.
Reload(outcomes) == outcomes

\* reconcile: every outcome the store holds, since the bus may not have survived.
Reconcile(outcomes) == [i \in Changes |-> Learned(outcomes, i)[i]]

Restart ==
    /\ Fails
    /\ memory' = [mem |-> Reconcile(memory.stored), stored |-> Reconcile(memory.stored)]
    /\ emitting' = {} /\ learner' = Loop
    /\ \E r \in Relays : relay' = [relay EXCEPT ![r] = Loop]
    /\ kafka' = Subscribed(kafka.committed)
    /\ IF transport = "inprocess"
       THEN /\ bus' = [events |-> <<>>, dropped |-> 0, offset |-> [learning |-> 0, relay |-> 0]]
            /\ visible' = {} /\ handled' = {}
       ELSE UNCHANGED <<bus, visible, handled>>
    /\ UNCHANGED <<transport, store, open, log, overtaken>>

EmitStep == \E e \in emitting : Emit(e)
RelayStep(r) == RelayPoll(r) \/ RelayPublish(r) \/ RelayCommit(r)
LearnerStep == BusPoll \/ KafkaPoll \/ Handle \/ BusCommit \/ KafkaCommit

Next ==
    \/ \E i \in Changes, to \in States : Save(i, to) \/ Begin(i, to)
    \/ \E n \in open : Commit(n) \/ Rollback(n)
    \/ EmitStep
    \/ \E r \in Relays : RelayStep(r)
    \/ LearnerStep
    \/ Unreadable
    \/ Restart

\* A request that has saved a change goes on to its event; a ConsumerLoop calls run_once again after
\* every interval, and survives what it raises.  It is enough that one of them goes on while any can;
\* a transaction may stay open.
Fairness == WF_vars(EmitStep \/ (\E r \in Relays : RelayStep(r)) \/ LearnerStep)

Spec == Init /\ [][Next]_vars /\ Fairness

-----------------------------------------------------------------------------
(* What delivery and memory promise. *)

OnTopic(n) == \E p \in DOMAIN log : log[p] = n

\* kafka.py:162 "an event is committed only once Kafka has it": whatever fails, and however many
\* relays there are, every event the relay's offset is past is on the topic, unless its transaction
\* was still open when a relay read a higher number.
RelayedBeforeCommitted ==
    transport = "kafka" => \A n \in visible \ overtaken : n <= bus.offset.relay => OnTopic(n)

\* A message between two copies of another.
Straddled(p) == \E a, b \in DOMAIN log : a < p /\ p < b /\ log[a] = log[b] /\ log[a] # 0 /\ log[a] # log[p]

\* kafka.py:5 "an event is committed only after its handler succeeds": across failures, repeats and
\* restarts, the learner passes over an event whose handler has not returned in two cases only.  On
\* the outbox its transaction was open when a higher number was read (postgres.py:7); on Kafka it
\* lies between two copies of another event, at the last of which that one is committed.
CommittedWasHandled ==
    IF transport = "kafka"
    THEN \A p \in 1 .. kafka.committed : log[p] \in handled \union {0} \/ Straddled(p)
    ELSE \A n \in visible \ overtaken : n \in bus.dropped + 1 .. bus.offset.learning => n \in handled

\* learning.py:7 "Nothing else becomes memory": an incident is resolved only if its change is in
\* production and rejected only if a person closed it, however often the event came.
MemoryIsTrue ==
    \A copy \in {memory.mem, memory.stored} : \A i \in Changes :
        /\ copy[i] = "resolved" => store[i] = "promoted_to_prod"
        /\ copy[i] = "rejected" => store[i] = "closed_rejected"

\* learning.py:10 "learning the same outcome twice must change nothing": what has been learned is
\* not learned otherwise or forgotten, though storing it failed and the process restarted since.
LearnedStays ==
    [][\A i \in Changes : memory.mem[i] # "open" => memory.mem'[i] = memory.mem[i]]_memory

\* An event is on the topic twice: its publish was retried.
Repeated == \E p, q \in DOMAIN log : p # q /\ log[p] = log[q] /\ log[p] # 0

\* What can keep an outcome from memory until a restart: its event was dropped by the in-process bus
\* unread, or overtaken on the outbox, or the topic holds a message that is repeated or unreadable.
Obstructed(i) ==
    \/ \E n \in overtaken : bus.events[n] = [of |-> i, to |-> store[i]]
    \/ \E n \in 1 .. bus.dropped : bus.events[n] = [of |-> i, to |-> store[i]] /\ n \notin handled
    \/ Repeated
    \/ \E p \in DOMAIN log : log[p] = 0

\* Every outcome of a change reaches memory: by an event, whatever handlers and publishes fail on
\* the way, or after a restart by the sweep.
OutcomesAreLearned ==
    \A i \in Changes : (store[i] \in OutcomeStates) ~> (memory.mem[i] # "open" \/ Obstructed(i))

\* learning.py:9: "Delivery from the event bus is at-least-once".
DeliveredAtLeastOnce ==
    \A n \in Numbers : n \in visible ~> n \in handled

\* postgres.py:10, of the events a consumer never sees: "Kafka does not have this problem".
KafkaMissesNothing ==
    transport = "kafka" => \A n \in visible : n <= bus.offset.relay => OnTopic(n)

\* kafka.py:5: "an event is committed only after its handler succeeds".
CommittedOnlyHandled ==
    transport = "kafka" => \A p \in 1 .. kafka.committed : log[p] \in handled \union {0}

=============================================================================
