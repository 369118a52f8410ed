---------------------------- MODULE EventDelivery ----------------------------
(***************************************************************************)
(* From a committed event to the runs it wakes: the outbox publisher       *)
(* (runtime/outbox.py), the bus with its consumer groups (bus/inproc.py,   *)
(* bus/redis_backend.py) and the stream consumer (runtime/consumer.py).    *)
(*                                                                         *)
(* Publisher and consumer are two tasks of one process.  The bus is a      *)
(* stream of entries, and per group (one per subscription) a cursor and a  *)
(* list of entries delivered and not yet acknowledged.  In process, the    *)
(* bus dies with the process and an entry has one delivery counter for all *)
(* groups; in Redis it survives and each group counts for itself.          *)
(***************************************************************************)
EXTENDS Naturals, Sequences, FiniteSets, FiniteSetsExt, SequencesExt

CONSTANTS
    MaxEvents,      \* bound: events ever recorded
    Groups,         \* consumer groups: one per subscription
    Wants,          \* the <<group, event>> pairs whose pattern matches
    BatchLimit,     \* events one outbox pass takes (50)
    FetchLimit,     \* messages one reclaim or consume takes (10)
    MaxAttempts,    \* bus_max_delivery_attempts (5)
    Backend,        \* "inproc" or "redis"
    Faults,         \* what goes wrong in this instance
    MaxFaults       \* bound: how often something goes wrong

Events    == 1..MaxEvents          \* in order of recorded_at
Positions == 1..(MaxEvents * (1 + MaxFaults))  \* of the stream's entries
AllFaults == {"crash", "publish", "commit", "read", "handler", "ack", "dlq", "mark"}

ASSUME EventBound   == MaxEvents \in Nat /\ MaxFaults \in Nat
ASSUME GroupsFinite == IsFiniteSet(Groups)
ASSUME WantedPairs  == Wants \subseteq Groups \X Events
ASSUME SomeLimits   == BatchLimit \in Nat \ {0} /\ FetchLimit \in Nat \ {0}
ASSUME SomeAttempts == MaxAttempts \in Nat
ASSUME TwoBackends  == Backend \in {"inproc", "redis"}
ASSUME KnownFaults  == Faults \subseteq AllFaults

VARIABLES
    recorded,    \* events.id: rows the runs committed
    published,   \* those with published_at
    dead,        \* those with dead_letter_at
    woken,       \* runs created per group and event (agent_runs)
    stream,      \* the bus: the event of each entry
    cursor,      \* per group, how many entries were delivered once
    unacked,     \* per group, what is delivered and not acknowledged: the
                 \* positions by delivery, the longest idle first
    delivered,   \* per group and position, how often it was delivered: the
                 \* counter of Redis
    counter,     \* per position, how often it was delivered to any group: the
                 \* counter in process
    dlq,         \* the dead-letter stream: <<group, event>>
    tried,       \* per group and position, how often the handler was called
    outbox,      \* publisher task: rows locked, rows to publish, rows marked
    batch,       \* consumer task: what it does, for which group, messages left
    faults       \* how often something went wrong, and the crashes among it

rows == <<recorded, published, dead, woken>>
bus  == <<stream, cursor, unacked, delivered, counter, dlq>>
vars == <<rows, bus, tried, outbox, batch, faults>>

NoBatch  == [pc |-> "idle", group |-> {}, msgs |-> <<>>]
NoOutbox == [rows |-> {}, todo |-> <<>>, marked |-> {}]

Zero == [g \in Groups |-> [p \in Positions |-> 0]]

TypeOK ==
    /\ recorded \subseteq Events /\ published \subseteq recorded
    /\ dead \subseteq recorded
    /\ woken \in [Groups -> [Events -> Nat]]
    /\ stream \in Seq(Events) /\ Len(stream) <= MaxEvents * (1 + MaxFaults)
    /\ cursor \in [Groups -> 0..Len(stream)]
    /\ unacked \in [Groups -> Seq((SUBSET DOMAIN stream) \ {{}})]
    /\ delivered \in [Groups -> [Positions -> Nat]] /\ counter \in [Positions -> Nat]
    /\ tried \in [Groups -> [Positions -> Nat]]
    /\ dlq \subseteq Groups \X Events
    /\ outbox.rows \subseteq recorded /\ outbox.todo \in Seq(outbox.rows)
    /\ outbox.marked \subseteq outbox.rows
    /\ batch.pc \in {"idle", "reading", "handling", "acking", "marking"}
    /\ batch.pc = "idle" <=> batch.group = {}
    /\ batch.group \subseteq Groups /\ Cardinality(batch.group) <= 1
    /\ batch.msgs \in Seq([pos : DOMAIN stream, count : Nat])
    /\ faults \in [all : 0..(MaxFaults + 1), crashes : 0..MaxFaults]

Init ==
    /\ recorded = {} /\ published = {} /\ dead = {}
    /\ woken = [g \in Groups |-> [e \in Events |-> 0]]
    /\ stream = <<>>
    /\ cursor = [g \in Groups |-> 0]
    /\ unacked = [g \in Groups |-> <<>>]
    /\ delivered = Zero /\ counter = [p \in Positions |-> 0]
    /\ tried = Zero
    /\ dlq = {}
    /\ outbox = NoOutbox
    /\ batch = NoBatch
    /\ faults = [all |-> 0, crashes |-> 0]

\* Bound: a message is a dead letter after MaxAttempts failures, and that may
\* fail on top of them.
Limit(f) == IF f = "dlq" THEN MaxFaults + 1 ELSE MaxFaults

Fault(f) ==
    /\ f \in Faults /\ faults.all < Limit(f)
    /\ faults' = [all |-> faults.all + 1,
                  crashes |-> faults.crashes + (IF f = "crash" THEN 1 ELSE 0)]

\* The k-th smallest of a set of numbers, and all of them in order.
Nth(S, k)  == CHOOSE n \in S : Cardinality({m \in S : m < n}) = k - 1
Ordered(S) == [k \in 1..Cardinality(S) |-> Nth(S, k)]

-----------------------------------------------------------------------------
\* A run commits its output: the event's row is in the outbox.
Record(e) ==
    /\ e \notin recorded
    /\ \A d \in Events : d < e => d \in recorded
    /\ recorded' = recorded \cup {e}
    /\ UNCHANGED <<published, dead, woken, bus, tried, outbox, batch, faults>>

-----------------------------------------------------------------------------
\* The publisher: publish_batch, one transaction over up to BatchLimit rows.

Unpublished_AnyLive == recorded \ dead      \* published_at is not looked at

Unpublished == recorded \ (published \cup dead)

Oldest(S, n) == {e \in S : Cardinality({d \in S : d < e}) < n}

SelectBatch ==
    /\ outbox = NoOutbox
    /\ Unpublished # {}
    /\ LET taken == Oldest(Unpublished, BatchLimit)
       IN  outbox' = [rows |-> taken, todo |-> Ordered(taken), marked |-> {}]
    /\ UNCHANGED <<rows, bus, tried, batch, faults>>

\* Bound: the stream's entries have positions.
Room == Len(stream) < MaxEvents * (1 + MaxFaults)

PublishOne ==
    /\ outbox.todo # <<>> /\ Room
    /\ stream' = Append(stream, Head(outbox.todo))
    /\ outbox' = [outbox EXCEPT !.todo = Tail(@),
                                !.marked = @ \cup {Head(outbox.todo)}]
    /\ UNCHANGED <<rows, cursor, unacked, delivered, counter, dlq, tried, batch, faults>>

\* Marks the row before bus.publish has returned.
PublishFails_Marks ==
    /\ outbox.todo # <<>>
    /\ Fault("publish")
    /\ outbox' = [outbox EXCEPT !.todo = Tail(@),
                                !.marked = @ \cup {Head(outbox.todo)}]
    /\ UNCHANGED <<rows, bus, tried, batch>>

\* bus.publish raised: the row stays unpublished.  What failed may be the
\* answer, with the entry in the stream.
PublishFails ==
    /\ outbox.todo # <<>>
    /\ Fault("publish")
    /\ \/ UNCHANGED stream
       \/ Backend = "redis" /\ Room /\ stream' = Append(stream, Head(outbox.todo))
    /\ outbox' = [outbox EXCEPT !.todo = Tail(@)]
    /\ UNCHANGED <<rows, cursor, unacked, delivered, counter, dlq, tried, batch>>

CommitBatch ==
    /\ outbox # NoOutbox
    /\ outbox.todo = <<>>
    /\ published' = published \cup outbox.marked
    /\ outbox' = NoOutbox
    /\ UNCHANGED <<recorded, dead, woken, bus, tried, batch, faults>>

\* The commit fails after the bus has taken the entries.
CommitFails ==
    /\ outbox # NoOutbox
    /\ outbox.todo = <<>>
    /\ Fault("commit")
    /\ outbox' = NoOutbox
    /\ UNCHANGED <<rows, bus, tried, batch>>

-----------------------------------------------------------------------------
\* The bus, as one pass of the consumer uses it.

Pending(g) == UNION ToSet(unacked[g])

\* The deliveries in us without the positions P.
Without(us, P) ==
    LET left == Ordered({i \in DOMAIN us : us[i] \ P # {}})
    IN  [k \in DOMAIN left |-> us[left[k]] \ P]

Reclaimable_Never(g) == {{}}     \* a client without XAUTOCLAIM

\* What a reclaim returns: in process the first pending positions, in Redis the
\* first of those idle for bus_claim_idle_ms, and time decides which are.
Reclaimable(g) ==
    IF Backend = "inproc"
    THEN {Oldest(Pending(g), FetchLimit)}
    ELSE {Oldest(UNION ToSet(SubSeq(unacked[g], 1, n)), FetchLimit) :
            n \in 0..Len(unacked[g])}

\* What a consume returns: the next positions behind the cursor.
Fresh(g) == {p \in DOMAIN stream : cursor[g] < p /\ p <= cursor[g] + FetchLimit}

\* The positions P are delivered to the group once more.
Again(g, P) ==
    [delivered EXCEPT ![g] = [p \in Positions |-> @[p] + (IF p \in P THEN 1 ELSE 0)]]

Counted(P) == [p \in Positions |-> counter[p] + (IF p \in P THEN 1 ELSE 0)]

\* The counter of each message.  In process the entry counts for all groups.
\* Redis is asked for the first Cardinality(P) pending positions in the range
\* of P: a position that falls off the end counts as delivered once.
CountOf(g, P, p) ==
    LET range == {q \in Pending(g) \cup P : Min(P) <= q /\ q <= Max(P)}
    IN  IF Backend = "inproc" THEN Counted(P)[p]
        ELSE IF p \in Oldest(range, Cardinality(P)) THEN Again(g, P)[g][p] ELSE 1

Messages(g, P) ==
    LET ordered == Ordered(P)
    IN  [i \in DOMAIN ordered |->
            [pos |-> ordered[i], count |-> CountOf(g, P, ordered[i])]]

Deliver(g, P) ==
    /\ delivered' = Again(g, P) /\ counter' = Counted(P)
    /\ unacked' = [unacked EXCEPT ![g] =
                      IF P = {} THEN @ ELSE Append(Without(@, P), P)]

\* The first half of a pass over a subscription: reclaim.
Reclaim(g) ==
    /\ batch = NoBatch
    /\ \E P \in Reclaimable(g) :
        /\ P \cup Fresh(g) # {}          \* a pass that finds nothing is a stutter
        /\ Deliver(g, P)
        /\ batch' = [pc |-> "reading", group |-> {g}, msgs |-> Messages(g, P)]
    /\ UNCHANGED <<rows, stream, cursor, dlq, tried, outbox, faults>>

\* Moves the cursor by what it asked for.
Consume_CountAsked(g) ==
    /\ batch.pc = "reading" /\ batch.group = {g}
    /\ LET P   == Fresh(g)
           all == batch.msgs \o Messages(g, P)
       IN  /\ Deliver(g, P)
           /\ cursor' = [cursor EXCEPT ![g] = @ + FetchLimit]
           /\ batch' = IF all = <<>> THEN NoBatch
                       ELSE [batch EXCEPT !.pc = "handling", !.msgs = all]
    /\ UNCHANGED <<rows, stream, dlq, tried, outbox, faults>>

\* The second half: consume.  What was reclaimed is handled first.
Consume(g) ==
    /\ batch.pc = "reading" /\ batch.group = {g}
    /\ LET P   == Fresh(g)
           all == batch.msgs \o Messages(g, P)
       IN  /\ Deliver(g, P)
           /\ cursor' = [cursor EXCEPT ![g] = @ + Cardinality(P)]
           /\ batch' = IF all = <<>> THEN NoBatch
                       ELSE [batch EXCEPT !.pc = "handling", !.msgs = all]
    /\ UNCHANGED <<rows, stream, dlq, tried, outbox, faults>>

\* The bus does not answer: what was reclaimed waits for a later pass.  This is
\* also a reclaim, or the XPENDING after it, whose answer is lost: Redis has
\* made its deliveries.
ConsumeFails ==
    /\ batch.pc = "reading" /\ Backend = "redis"
    /\ Fault("read")
    /\ batch' = NoBatch
    /\ UNCHANGED <<rows, bus, tried, outbox>>

\* XREADGROUP has delivered, and its answer or that of the XPENDING after it is
\* lost: the entries are pending, and nobody has them.
ConsumeLost(g) ==
    /\ batch.pc = "reading" /\ batch.group = {g} /\ Backend = "redis"
    /\ Fault("read")
    /\ Deliver(g, Fresh(g))
    /\ cursor' = [cursor EXCEPT ![g] = @ + Cardinality(Fresh(g))]
    /\ batch' = NoBatch
    /\ UNCHANGED <<rows, stream, dlq, tried, outbox>>

-----------------------------------------------------------------------------
\* The consumer: _process_batch, message by message.

Msg      == Head(batch.msgs)
EventAt  == stream[Msg.pos]
TooOften_AtLimit == Msg.count >= MaxAttempts
TooOften_Later   == Msg.count > MaxAttempts + 1

TooOften == Msg.count > MaxAttempts

Handling(g) == batch.pc = "handling" /\ batch.group = {g}

\* The current message is done with; the batch ends with its last message.
Advance ==
    batch' = IF Len(batch.msgs) = 1 THEN NoBatch
             ELSE [batch EXCEPT !.pc = "handling", !.msgs = Tail(@)]

\* An exception was caught: the attempt is counted on the event and the batch
\* goes on, or counting fails too and the batch is given up.
Caught == Advance \/ batch' = NoBatch

Acked(g) == [unacked EXCEPT ![g] = Without(@, {Msg.pos})]
Call(g)  == tried' = [tried EXCEPT ![g][Msg.pos] = @ + 1]

\* The handler returns: the event is not wanted, or a run for the subscriber
\* is committed.  The acknowledgement comes next.
Handle(g) ==
    /\ Handling(g)
    /\ ~TooOften
    /\ Call(g)
    /\ woken' = [woken EXCEPT ![g][EventAt] =
                    @ + (IF <<g, EventAt>> \in Wants THEN 1 ELSE 0)]
    /\ batch' = [batch EXCEPT !.pc = "acking"]
    /\ UNCHANGED <<recorded, published, dead, bus, outbox, faults>>

\* Acknowledges whatever became of the message.
HandlerFails_Acks(g) ==
    /\ Handling(g)
    /\ ~TooOften
    /\ <<g, EventAt>> \in Wants
    /\ Fault("handler")
    /\ Call(g)
    /\ Caught
    /\ unacked' = Acked(g)
    /\ UNCHANGED <<rows, stream, cursor, delivered, counter, dlq, outbox>>

\* The handler raises (the agent is paused or unknown, the database is away):
\* the message stays unacknowledged.
HandlerFails(g) ==
    /\ Handling(g)
    /\ ~TooOften
    /\ <<g, EventAt>> \in Wants
    /\ Fault("handler")
    /\ Call(g)
    /\ Caught
    /\ UNCHANGED <<rows, bus, outbox>>

Ack(g) ==
    /\ batch.pc = "acking" /\ batch.group = {g}
    /\ unacked' = Acked(g)
    /\ Advance
    /\ UNCHANGED <<rows, stream, cursor, delivered, counter, dlq, tried, outbox, faults>>

AckFails ==
    /\ batch.pc = "acking" /\ Backend = "redis"
    /\ Fault("ack")
    /\ Caught
    /\ UNCHANGED <<rows, bus, tried, outbox>>

\* Delivered too often: the message goes to the dead-letter stream and is
\* acknowledged; marking the event is next.
DeadLetter(g) ==
    /\ Handling(g)
    /\ TooOften
    /\ dlq' = dlq \cup {<<g, EventAt>>}
    /\ unacked' = Acked(g)
    /\ batch' = [batch EXCEPT !.pc = "marking"]
    /\ UNCHANGED <<rows, stream, cursor, delivered, counter, tried, outbox, faults>>

\* The entry reaches the dead-letter stream or not, and is not acknowledged.
DeadLetterFails(g) ==
    /\ Handling(g) /\ Backend = "redis"
    /\ TooOften
    /\ Fault("dlq")
    /\ dlq' \in {dlq, dlq \cup {<<g, EventAt>>}}
    /\ Caught
    /\ UNCHANGED <<rows, stream, cursor, unacked, delivered, counter, tried, outbox>>

\* _mark_dead_letter waits for the publisher's lock on the event's row.
MarkDead ==
    /\ batch.pc = "marking"
    /\ EventAt \notin outbox.rows
    /\ dead' = dead \cup {EventAt}
    /\ Advance
    /\ UNCHANGED <<recorded, published, woken, bus, tried, outbox, faults>>

MarkFails ==
    /\ batch.pc = "marking"
    /\ Fault("mark")
    /\ Caught
    /\ UNCHANGED <<rows, bus, tried, outbox>>

-----------------------------------------------------------------------------
\* The process dies and is started again.
Crash ==
    /\ Fault("crash")
    /\ outbox' = NoOutbox
    /\ batch' = NoBatch
    /\ IF Backend = "redis" THEN UNCHANGED <<bus, tried>>
       ELSE /\ stream' = <<>>
            /\ cursor' = [g \in Groups |-> 0]
            /\ unacked' = [g \in Groups |-> <<>>]
            /\ delivered' = Zero /\ counter' = [p \in Positions |-> 0]
            /\ tried' = Zero
            /\ dlq' = {}
    /\ UNCHANGED rows

-----------------------------------------------------------------------------
Publish  == SelectBatch \/ PublishOne \/ CommitBatch
Work(g)  == Consume(g) \/ Handle(g) \/ Ack(g) \/ DeadLetter(g)
Failure  == PublishFails \/ CommitFails \/ ConsumeFails \/ AckFails \/ MarkFails
              \/ Crash
              \/ \E g \in Groups : ConsumeLost(g) \/ HandlerFails(g) \/ DeadLetterFails(g)

Next ==
    \/ \E e \in Events : Record(e)
    \/ Publish
    \/ \E g \in Groups : Reclaim(g) \/ Work(g)
    \/ MarkDead
    \/ Failure

Spec == Init /\ [][Next]_vars

\* Both loops go on, the consumer loop visits every subscription in turn, and
\* a message left pending is idle for long enough in the end.  Failures need
\* not happen, and are as many as MaxFaults.
FairSpec ==
    /\ Spec
    /\ WF_vars(Publish)
    /\ WF_vars(MarkDead)
    /\ \A g \in Groups :
        /\ WF_vars(Work(g))
        /\ SF_vars(Reclaim(g))
        /\ SF_vars(Reclaim(g) /\ batch'.msgs # <<>>)

-----------------------------------------------------------------------------
\* What a subscriber is owed.

\* An event on its way to the group: in the stream before it, or pending.
InFlight(g, e) ==
    \E p \in DOMAIN stream : stream[p] = e /\ (p > cursor[g] \/ p \in Pending(g))

\* An event that has left the outbox, published or dead, and that a subscription
\* matches, has woken the subscriber, is in the dead-letter stream, or is still
\* on its way: nothing is lost between the publisher's commit, a dead letter of
\* another group, the cursor and the acknowledgement.
Accounted ==
    \A g \in Groups, e \in published \cup dead :
        <<g, e>> \in Wants =>
            woken[g][e] > 0 \/ <<g, e>> \in dlq \/ InFlight(g, e)

\* "StudioOS runs rely on idempotency_key at the trigger layer to dedupe"
\* (bus/__init__.py): no trigger of the consumer has one, so an event handled
\* and not acknowledged, or published and not marked, wakes its subscriber once
\* more.  What holds is a bound: each failure costs a subscriber at most one run
\* too many for an event; a crash two, if it finds the event handled and not
\* acknowledged by the consumer, and published and not marked by the publisher.
DuplicatesEarned ==
    \A g \in Groups, e \in Events : woken[g][e] <= 1 + faults.all + faults.crashes

\* "After `max_delivery_attempts`, the message is moved to the DLQ"
\* (consumer.py): no earlier.  A dead letter was delivered to its group that
\* many times.
DeadLetterEarned ==
    \A g \in Groups, e \in Events :
        <<g, e>> \in dlq =>
            \E p \in DOMAIN stream : stream[p] = e /\ delivered[g][p] > MaxAttempts

\* And no later: the handler is called for a message that many times at most.
RetriesBounded ==
    \A g \in Groups, p \in Positions : tried[g][p] <= MaxAttempts

\* Every recorded event reaches each subscriber whose pattern matches, as a
\* run or as a dead letter.
EventuallyHandled ==
    \A g \in Groups, e \in Events :
        <<g, e>> \in Wants =>
            (e \in recorded ~> woken[g][e] > 0 \/ <<g, e>> \in dlq)
=============================================================================
