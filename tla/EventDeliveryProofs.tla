------------------------ MODULE EventDeliveryProofs -------------------------
(***************************************************************************)
(* What is proved of EventDelivery for any number of events, groups and    *)
(* failures, and any limits: no event that left the outbox is lost to a    *)
(* subscriber while the bus lives; a failure costs a subscriber one run    *)
(* too many, a crash two; in process the handler is called for a message   *)
(* no more often than it may, and a message is given up no earlier than it *)
(* may be, in process if one group reads the entry; every part of the      *)
(* state has its type.                                                     *)
(***************************************************************************)
EXTENDS EventDelivery, SequenceTheorems, FiniteSetTheorems,
        FunctionTheorems, TLAPS

-----------------------------------------------------------------------------
(* Orders and sequences.                                                   *)

\* A finite set of numbers is enumerated by Ordered, each number once.
LEMMA OrderedEnumerates ==
    ASSUME NEW S \in SUBSET Nat, IsFiniteSet(S)
    PROVE  /\ Ordered(S) \in Seq(S)
           /\ DOMAIN Ordered(S) = 1 .. Cardinality(S)
           /\ Cardinality(S) \in Nat
           /\ \A n \in S : \E k \in DOMAIN Ordered(S) : Ordered(S)[k] = n
           /\ \A j, k \in DOMAIN Ordered(S) : Ordered(S)[j] = Ordered(S)[k] => j = k
<1> DEFINE before(n) == {m \in S : m < n}
           rank == [n \in S |-> Cardinality(before(n)) + 1]
           N == Cardinality(S)
<1>1. N \in Nat
  BY FS_CardinalityType
<1>2. ASSUME NEW n \in S
      PROVE  /\ IsFiniteSet(before(n)) /\ Cardinality(before(n)) \in Nat
             /\ Cardinality(before(n)) < N
  <2>1. before(n) \in SUBSET (S \ {n})
    OBVIOUS
  <2>2. IsFiniteSet(S \ {n}) /\ Cardinality(S \ {n}) = N - 1
    BY FS_RemoveElement
  <2> HIDE DEF before, N
  <2>3. IsFiniteSet(before(n)) /\ Cardinality(before(n)) <= N - 1
    BY <2>1, <2>2, FS_Subset
  <2> QED
    BY <1>1, <2>3, FS_CardinalityType
<1>3. ASSUME NEW m \in S, NEW n \in S, m < n
      PROVE  rank[m] < rank[n]
  <2>1. before(m) \in SUBSET before(n) /\ m \in before(n) /\ m \notin before(m)
    <3>1. \A x \in S : x \in Nat
      OBVIOUS
    <3>2. \A x \in S : x < m => x < n
      BY <1>3, <3>1
    <3>3. ~(m < m)
      BY <3>1
    <3> QED
      BY <1>3, <3>2, <3>3
  <2> HIDE DEF before
  <2>2. Cardinality(before(m)) <= Cardinality(before(n))
    BY <1>2, <2>1, FS_Subset
  <2>3. Cardinality(before(m)) # Cardinality(before(n))
    BY <1>2, <2>1, FS_Subset
  <2> QED
    BY <1>2, <2>2, <2>3
<1>4. rank \in Injection(S, 1 .. N)
  <2>1. rank \in [S -> 1 .. N]
    <3> SUFFICES ASSUME NEW n \in S PROVE Cardinality(before(n)) + 1 \in 1 .. N
      OBVIOUS
    <3> HIDE DEF before, N
    <3> QED
      BY <1>1, <1>2
  <2>2. \A m, n \in S : rank[m] \in Nat
    BY <1>2
  <2> HIDE DEF rank, N
  <2>3. \A m, n \in S : rank[m] = rank[n] => m = n
    BY <1>3, <2>2
  <2> QED
    BY <2>1, <2>3, Fun_IsInj
<1>5. rank \in Surjection(S, 1 .. N)
  <2>1. IsFiniteSet(1 .. N) /\ Cardinality(1 .. N) = N
    BY <1>1, FS_Interval
  <2> HIDE DEF rank
  <2> QED
    BY <1>4, <2>1, FS_Injection
<1>6. ASSUME NEW k \in 1 .. N
      PROVE  Nth(S, k) \in S /\ rank[Nth(S, k)] = k
  <2>1. PICK n \in S : rank[n] = k
    BY <1>5 DEF Surjection
  <2>2. Cardinality(before(n)) = k - 1
    BY <1>2, <2>1
  <2>3. Nth(S, k) \in S /\ Cardinality(before(Nth(S, k))) = k - 1
    BY <2>2 DEF Nth
  <2> QED
    BY <2>3
<1>7. Ordered(S) = [k \in 1 .. N |-> Nth(S, k)]
  BY DEF Ordered
<1> HIDE DEF rank, N
<1>8. \A n \in S : rank[n] \in 1 .. N
  BY <1>4 DEF Injection
<1>9. \A m, n \in S : rank[m] = rank[n] => m = n
  BY <1>4 DEF Injection, IsInjective
<1>10. Ordered(S) \in Seq(S) /\ DOMAIN Ordered(S) = 1 .. N
  <2> \A k \in 1 .. N : Nth(S, k) \in S
    BY <1>6
  <2> QED
    BY <1>1, <1>7
<1>11. \A n \in S : \E k \in 1 .. N : Nth(S, k) = n
  BY <1>6, <1>8, <1>9
<1>12. \A j, k \in 1 .. N : Nth(S, j) = Nth(S, k) => j = k
  BY <1>6
<1> QED
  BY <1>1, <1>7, <1>10, <1>11, <1>12 DEF N

\* The head of a sequence, and what stays behind it.
LEMMA HeadAndTail ==
    ASSUME NEW S, NEW s \in Seq(S), s # <<>>
    PROVE  /\ Len(s) \in Nat /\ Len(s) >= 1 /\ DOMAIN s = 1 .. Len(s)
           /\ Head(s) = s[1] /\ s[1] \in S
           /\ Tail(s) \in Seq(S) /\ DOMAIN Tail(s) = 1 .. Len(s) - 1
           /\ \A i \in 1 .. Len(s) - 1 : Tail(s)[i] = s[i + 1]
           /\ Len(s) # 1 => Tail(s) # <<>>
<1>1. Len(s) \in Nat /\ DOMAIN s = 1 .. Len(s) /\ Len(s) # 0 /\ s \in [1 .. Len(s) -> S]
  BY LenProperties, EmptySeq
<1>2. /\ Tail(s) \in Seq(S) /\ Len(Tail(s)) = Len(s) - 1
      /\ \A i \in 1 .. Len(Tail(s)) : Tail(s)[i] = s[i + 1]
  BY HeadTailProperties
<1>3. DOMAIN Tail(s) = 1 .. Len(s) - 1
  BY <1>2, LenProperties
<1>4. Len(s) # 1 => Tail(s) # <<>>
  <2> SUFFICES ASSUME Tail(s) = <<>> PROVE Len(s) = 1
    OBVIOUS
  <2>1. Len(Tail(s)) = 0
    BY EmptySeq
  <2> QED
    BY <1>1, <1>2, <2>1
<1> QED
  BY <1>1, <1>2, <1>3, <1>4

LEMMA Added ==
    ASSUME NEW S, NEW s \in Seq(S), NEW x \in S
    PROVE  /\ Len(s) \in Nat /\ DOMAIN s = 1 .. Len(s)
           /\ Append(s, x) \in Seq(S) /\ Len(Append(s, x)) = Len(s) + 1
           /\ DOMAIN Append(s, x) = 1 .. Len(s) + 1
           /\ \A i \in 1 .. Len(s) : Append(s, x)[i] = s[i]
           /\ Append(s, x)[Len(s) + 1] = x
<1>1. Append(s, x) \in Seq(S) /\ Len(Append(s, x)) = Len(s) + 1
  BY AppendProperties
<1> QED
  BY <1>1, AppendProperties, LenProperties

\* A group's pending entries without some of them.
LEMMA WithoutKeeps ==
    ASSUME NEW us \in Seq(SUBSET Nat), NEW P
    PROVE  /\ Without(us, P) \in Seq(SUBSET Nat)
           /\ UNION ToSet(Without(us, P)) = (UNION ToSet(us)) \ P
<1> DEFINE keep == {i \in DOMAIN us : us[i] \ P # {}}
           left == Ordered(keep)
<1>1. Len(us) \in Nat /\ DOMAIN us = 1 .. Len(us) /\ \A i \in DOMAIN us : us[i] \in SUBSET Nat
  BY LenProperties, ElementOfSeq
<1>2. keep \in SUBSET Nat /\ IsFiniteSet(keep)
  <2>1. keep \in SUBSET (1 .. Len(us))
    BY <1>1
  <2>2. IsFiniteSet(1 .. Len(us))
    BY <1>1, FS_Interval
  <2> HIDE DEF keep
  <2>3. IsFiniteSet(keep)
    BY <2>1, <2>2, FS_Subset
  <2> QED
    BY <1>1, <2>1, <2>3
<1> HIDE DEF keep
<1>3. /\ left \in Seq(keep) /\ DOMAIN left = 1 .. Cardinality(keep) /\ Cardinality(keep) \in Nat
      /\ \A i \in keep : \E k \in DOMAIN left : left[k] = i
      /\ \A k \in DOMAIN left : left[k] \in keep
  BY <1>2, OrderedEnumerates, LenProperties, ElementOfSeq
<1>4. Without(us, P) = [k \in DOMAIN left |-> us[left[k]] \ P]
  BY DEF Without, keep
<1> HIDE DEF left
<1>5. keep \subseteq DOMAIN us /\ \A i \in DOMAIN us \ keep : us[i] \ P = {}
  BY DEF keep
<1>6. Without(us, P) \in Seq(SUBSET Nat)
  <2>1. \A k \in 1 .. Cardinality(keep) : us[left[k]] \ P \in SUBSET Nat
    BY <1>1, <1>3, <1>5
  <2> QED
    BY <1>3, <1>4, <2>1
<1>7. ASSUME NEW x PROVE x \in UNION ToSet(Without(us, P)) <=> x \in (UNION ToSet(us)) \ P
  <2>1. x \in UNION ToSet(Without(us, P)) <=> \E k \in DOMAIN left : x \in us[left[k]] \ P
    BY <1>4 DEF ToSet
  <2>2. x \in (UNION ToSet(us)) \ P <=> \E i \in DOMAIN us : x \in us[i] \ P
    BY DEF ToSet
  <2> QED
    BY <1>3, <1>5, <2>1, <2>2
<1> QED
  BY <1>6, <1>7

LEMMA PendingAdded ==
    ASSUME NEW us \in Seq(SUBSET Nat), NEW P \in SUBSET Nat
    PROVE  /\ Append(us, P) \in Seq(SUBSET Nat)
           /\ UNION ToSet(Append(us, P)) = (UNION ToSet(us)) \cup P
<1>1. /\ Len(us) \in Nat /\ DOMAIN us = 1 .. Len(us)
      /\ Append(us, P) \in Seq(SUBSET Nat)
      /\ DOMAIN Append(us, P) = 1 .. Len(us) + 1
      /\ \A i \in 1 .. Len(us) : Append(us, P)[i] = us[i]
      /\ Append(us, P)[Len(us) + 1] = P
  BY Added
<1>2. \A x : x \in UNION ToSet(Append(us, P)) <=> x \in (UNION ToSet(us)) \cup P
  <2> SUFFICES ASSUME NEW x
               PROVE  x \in UNION ToSet(Append(us, P)) <=> x \in (UNION ToSet(us)) \cup P
    OBVIOUS
  <2>1. x \in UNION ToSet(Append(us, P)) <=> \E i \in 1 .. Len(us) + 1 : x \in Append(us, P)[i]
    BY <1>1 DEF ToSet
  <2>2. x \in UNION ToSet(us) <=> \E i \in 1 .. Len(us) : x \in us[i]
    BY <1>1 DEF ToSet
  <2>3. 1 .. Len(us) + 1 = (1 .. Len(us)) \cup {Len(us) + 1}
    BY <1>1
  <2> QED
    BY <1>1, <2>1, <2>2, <2>3
<1> QED
  BY <1>1, <1>2

-----------------------------------------------------------------------------
(* The shape of the state.                                                 *)

Distinct(ms)  == \A i, j \in DOMAIN ms : ms[i].pos = ms[j].pos => i = j
Within(ms, P) == \A i \in DOMAIN ms : ms[i].pos \in P

RowsOk ==
    /\ recorded \subseteq Events
    /\ woken \in [Groups -> [Events -> Nat]]

\* What is still to be published was not published before, and stays locked.
OutboxOk ==
    /\ DOMAIN outbox = {"rows", "todo", "marked"}
    /\ outbox.rows \subseteq Events
    /\ outbox.todo \in Seq(Events)
    /\ \A i \in DOMAIN outbox.todo :
          /\ outbox.todo[i] \in outbox.rows
          /\ outbox.todo[i] \notin published \cup dead \cup outbox.marked
    /\ \A i, j \in DOMAIN outbox.todo : outbox.todo[i] = outbox.todo[j] => i = j

BusOk ==
    /\ stream \in Seq(Events)
    /\ cursor \in [Groups -> Nat]
    /\ unacked \in [Groups -> Seq(SUBSET Nat)]
    /\ \A g \in Groups : cursor[g] <= Len(stream) /\ Pending(g) \subseteq 1 .. cursor[g]

\* A batch of group g, whose pending positions are P and whose cursor is at last:
\* its messages are different entries, delivered and not acknowledged, but for
\* the first while its event is being marked.
Busy(b, g, P, last) ==
    /\ DOMAIN b = {"pc", "group", "msgs"}
    /\ b.pc \in {"reading", "handling", "acking", "marking"}
    /\ b.group = {g}
    /\ \E S : b.msgs \in Seq(S)
    /\ Distinct(b.msgs) /\ Within(b.msgs, 1 .. last)
    /\ b.pc # "marking" => Within(b.msgs, P)
    /\ b.pc # "reading" => b.msgs # <<>> /\ Within(Tail(b.msgs), P)

BatchOk == batch = NoBatch \/ \E g \in Groups : Busy(batch, g, Pending(g), cursor[g])

Shape == RowsOk /\ OutboxOk /\ BusOk /\ BatchOk

LEMMA IdleBatch ==
    /\ NoBatch.pc = "idle" /\ NoBatch.group = {} /\ NoBatch.msgs = <<>>
    /\ DOMAIN NoBatch = {"pc", "group", "msgs"}
    /\ NoOutbox.rows = {} /\ NoOutbox.todo = <<>> /\ NoOutbox.marked = {}
    /\ DOMAIN NoOutbox = {"rows", "todo", "marked"}
BY DEF NoBatch, NoOutbox

\* A group that is at work has the batch.
LEMMA AtWork ==
    ASSUME BatchOk, NEW g \in Groups, batch.group = {g}
    PROVE  Busy(batch, g, Pending(g), cursor[g])
<1>1. batch # NoBatch
  BY IdleBatch
<1>2. PICK h \in Groups : Busy(batch, h, Pending(h), cursor[h])
  BY <1>1 DEF BatchOk
<1>3. h = g
  BY <1>2 DEF Busy
<1> QED
  BY <1>2, <1>3

LEMMA SomeoneAtWork ==
    ASSUME BatchOk, batch.pc # "idle"
    PROVE  \E g \in Groups : batch.group = {g} /\ Busy(batch, g, Pending(g), cursor[g])
<1>1. batch # NoBatch
  BY IdleBatch
<1> QED
  BY <1>1 DEF BatchOk, Busy

\* The first message of a batch.
LEMMA FirstMessage ==
    ASSUME NEW b, NEW g, NEW P, NEW last \in Nat, Busy(b, g, P, last), b.pc # "reading"
    PROVE  /\ Head(b.msgs).pos \in 1 .. last
           /\ b.pc # "marking" => Head(b.msgs).pos \in P
           /\ Within(Tail(b.msgs), P \ {Head(b.msgs).pos})
           /\ Within(Tail(b.msgs), 1 .. last)
           /\ Distinct(Tail(b.msgs))
           /\ \E S : Tail(b.msgs) \in Seq(S)
           /\ Len(b.msgs) # 1 => Tail(b.msgs) # <<>>
<1>1. PICK S : b.msgs \in Seq(S)
  BY DEF Busy
<1>2. b.msgs # <<>>
  BY DEF Busy
<1> DEFINE m == b.msgs
           t == Tail(m)
<1> HIDE DEF m
<1>3. /\ Len(m) \in Nat /\ Len(m) >= 1 /\ DOMAIN m = 1 .. Len(m)
      /\ Head(m) = m[1]
      /\ t \in Seq(S) /\ DOMAIN t = 1 .. Len(m) - 1
      /\ \A i \in 1 .. Len(m) - 1 : t[i] = m[i + 1]
      /\ Len(m) # 1 => t # <<>>
  BY <1>1, <1>2, HeadAndTail DEF m
<1> HIDE DEF t
<1>4. Distinct(m) /\ Within(m, 1 .. last) /\ Within(t, P) /\ (b.pc # "marking" => Within(m, P))
  BY DEF Busy, m, t
<1>5. 1 \in DOMAIN m
  BY <1>3
<1>6. \A i \in DOMAIN t : i + 1 \in DOMAIN m /\ t[i] = m[i + 1] /\ i + 1 # 1
  BY <1>3
<1>7. \A i \in DOMAIN t : t[i].pos # m[1].pos
  BY <1>4, <1>5, <1>6 DEF Distinct
<1>8. Distinct(t)
  BY <1>3, <1>4, <1>6 DEF Distinct
<1>9. Within(t, P \ {m[1].pos}) /\ Within(t, 1 .. last)
  BY <1>4, <1>6, <1>7 DEF Within
<1> QED
  BY <1>3, <1>4, <1>5, <1>8, <1>9 DEF Within, m, t

\* The batch goes on behind its first message, acknowledged or not.
LEMMA Advances ==
    ASSUME NEW g \in Groups, NEW P, NEW last \in Nat, Busy(batch, g, P, last),
           batch.pc # "reading", Caught, NEW Q, P \ {Msg.pos} \subseteq Q
    PROVE  batch' = NoBatch \/ (Busy(batch', g, Q, last) /\ batch'.pc = "handling")
<1>1. CASE batch' = NoBatch
  BY <1>1
<1>2. CASE batch' # NoBatch
  <2>1. batch' = [batch EXCEPT !.pc = "handling", !.msgs = Tail(@)] /\ Len(batch.msgs) # 1
    BY <1>2 DEF Caught, Advance
  <2>2. DOMAIN batch = {"pc", "group", "msgs"} /\ batch.group = {g}
    BY DEF Busy
  <2>3. /\ DOMAIN batch' = {"pc", "group", "msgs"} /\ batch'.pc = "handling"
        /\ batch'.group = {g} /\ batch'.msgs = Tail(batch.msgs)
    BY <2>1, <2>2
  <2> DEFINE t == Tail(batch.msgs)
  <2>4. /\ Within(t, P \ {Head(batch.msgs).pos}) /\ Within(t, 1 .. last) /\ Distinct(t)
        /\ t # <<>> /\ \E S : t \in Seq(S)
    BY <2>1, FirstMessage
  <2> HIDE DEF t
  <2>5. Within(t, Q)
    BY <2>4 DEF Within, Msg
  <2>6. Within(Tail(t), Q)
    <3>1. PICK S : t \in Seq(S)
      BY <2>4
    <3>2. \A i \in DOMAIN Tail(t) : i + 1 \in DOMAIN t /\ Tail(t)[i] = t[i + 1]
      BY <2>4, <3>1, HeadAndTail
    <3> QED
      BY <2>5, <3>2 DEF Within
  <2>7. batch'.msgs = t
    BY <2>3 DEF t
  <2> QED
    BY <2>3, <2>4, <2>5, <2>6, <2>7 DEF Busy
<1> QED
  BY <1>1, <1>2

LEMMA Acknowledges ==
    ASSUME BusOk, NEW g \in Groups, unacked' = Acked(g)
    PROVE  /\ unacked' \in [Groups -> Seq(SUBSET Nat)]
           /\ Pending(g)' = Pending(g) \ {Msg.pos}
           /\ \A h \in Groups : h # g => Pending(h)' = Pending(h)
<1>1. unacked \in [Groups -> Seq(SUBSET Nat)]
  BY DEF BusOk
<1> DEFINE new == Without(unacked[g], {Msg.pos})
<1>2. new \in Seq(SUBSET Nat) /\ UNION ToSet(new) = (UNION ToSet(unacked[g])) \ {Msg.pos}
  BY <1>1, WithoutKeeps
<1>3. unacked' = [unacked EXCEPT ![g] = new]
  BY DEF Acked
<1> HIDE DEF new
<1> QED
  BY <1>1, <1>2, <1>3 DEF Pending

LEMMA Delivers ==
    ASSUME BusOk, NEW g \in Groups, NEW P \in SUBSET Nat, Deliver(g, P)
    PROVE  /\ unacked' \in [Groups -> Seq(SUBSET Nat)]
           /\ Pending(g)' = Pending(g) \cup P
           /\ \A h \in Groups : h # g => Pending(h)' = Pending(h)
<1>1. unacked \in [Groups -> Seq(SUBSET Nat)]
  BY DEF BusOk
<1> DEFINE new == IF P = {} THEN unacked[g] ELSE Append(Without(unacked[g], P), P)
<1>2. new \in Seq(SUBSET Nat) /\ UNION ToSet(new) = (UNION ToSet(unacked[g])) \cup P
  <2>1. CASE P = {}
    BY <1>1, <2>1
  <2>2. CASE P # {}
    <3> DEFINE kept == Without(unacked[g], P)
    <3>1. kept \in Seq(SUBSET Nat) /\ UNION ToSet(kept) = (UNION ToSet(unacked[g])) \ P
      BY <1>1, WithoutKeeps
    <3> HIDE DEF kept
    <3>2. /\ Append(kept, P) \in Seq(SUBSET Nat)
          /\ UNION ToSet(Append(kept, P)) = (UNION ToSet(kept)) \cup P
      BY <3>1, PendingAdded
    <3>3. new = Append(kept, P)
      BY <2>2 DEF kept
    <3> HIDE DEF new
    <3> QED
      BY <3>1, <3>2, <3>3
  <2> QED
    BY <2>1, <2>2
<1>3. unacked' = [unacked EXCEPT ![g] = new]
  BY DEF Deliver
<1> HIDE DEF new
<1> QED
  BY <1>1, <1>2, <1>3 DEF Pending

\* What a reclaim returns was pending.
LEMMA ReclaimsPending ==
    ASSUME BusOk, NEW g \in Groups, NEW P \in Reclaimable(g)
    PROVE  P \in SUBSET Pending(g)
<1>1. CASE Backend = "inproc"
  BY <1>1 DEF Reclaimable, Oldest
<1>2. CASE Backend # "inproc"
  <2>1. PICK n \in 0 .. Len(unacked[g]) :
           P = Oldest(UNION ToSet(SubSeq(unacked[g], 1, n)), FetchLimit)
    BY <1>2 DEF Reclaimable
  <2>2. P \subseteq UNION ToSet(SubSeq(unacked[g], 1, n))
    BY <2>1 DEF Oldest
  <2>3. unacked[g] \in Seq(SUBSET Nat)
    BY DEF BusOk
  <2>4. /\ Len(unacked[g]) \in Nat /\ DOMAIN unacked[g] = 1 .. Len(unacked[g])
        /\ \A i \in 1 .. Len(unacked[g]) : unacked[g][i] \in SUBSET Nat
    BY <2>3, LenProperties, ElementOfSeq
  <2> DEFINE s == SubSeq(unacked[g], 1, n)
  <2>5. /\ s \in Seq(SUBSET Nat) /\ Len(s) = (IF 1 <= n THEN n ELSE 0)
        /\ \A i \in 1 .. n : s[i] = unacked[g][i]
    <3>1. \A i \in 1 .. n : unacked[g][i] \in SUBSET Nat
      BY <2>4
    <3> QED
      BY <3>1, SubSeqProperties
  <2> HIDE DEF s
  <2>6. DOMAIN s \subseteq 1 .. n
    BY <2>5, LenProperties
  <2>7. ToSet(s) \subseteq ToSet(unacked[g])
    BY <2>4, <2>5, <2>6 DEF ToSet
  <2> QED
    BY <2>2, <2>7 DEF s, Pending
<1> QED
  BY <1>1, <1>2

\* What a consume returns are the entries behind the cursor.
LEMMA FreshIsNext ==
    ASSUME BusOk, NEW g \in Groups
    PROVE  LET n == Cardinality(Fresh(g))
           IN  /\ n \in Nat /\ cursor[g] \in Nat /\ cursor[g] + n <= Len(stream)
               /\ Fresh(g) = cursor[g] + 1 .. cursor[g] + n
<1>1. cursor[g] \in Nat /\ Len(stream) \in Nat /\ cursor[g] <= Len(stream)
      /\ DOMAIN stream = 1 .. Len(stream)
  BY LenProperties DEF BusOk
<1>2. FetchLimit \in Nat
  BY SomeLimits
<1> DEFINE top == IF cursor[g] + FetchLimit <= Len(stream)
                  THEN cursor[g] + FetchLimit ELSE Len(stream)
<1>3. top \in Nat /\ cursor[g] <= top /\ top <= Len(stream)
      /\ Fresh(g) = cursor[g] + 1 .. top
  BY <1>1, <1>2 DEF Fresh
<1> HIDE DEF top
<1>4. Cardinality(Fresh(g)) = top - cursor[g]
  <2>1. cursor[g] + 1 \in Int /\ top \in Int
    BY <1>1, <1>3
  <2>2. Cardinality(cursor[g] + 1 .. top)
           = IF cursor[g] + 1 > top THEN 0 ELSE top - (cursor[g] + 1) + 1
    BY <2>1, FS_Interval
  <2> QED
    BY <1>1, <1>3, <2>2
<1> QED
  BY <1>1, <1>3, <1>4

LEMMA MessagesSound ==
    ASSUME NEW g \in Groups, NEW P \in SUBSET Nat, IsFiniteSet(P)
    PROVE  /\ \E S : Messages(g, P) \in Seq(S)
           /\ Distinct(Messages(g, P)) /\ Within(Messages(g, P), P)
<1> DEFINE o == Ordered(P)
           m == Messages(g, P)
           n == Cardinality(P)
<1>1. /\ o \in Seq(P) /\ DOMAIN o = 1 .. n /\ n \in Nat
      /\ \A j, k \in DOMAIN o : o[j] = o[k] => j = k
  BY OrderedEnumerates
<1>2. m = [i \in DOMAIN o |-> [pos |-> o[i], count |-> CountOf(g, P, o[i])]]
  BY DEF Messages
<1>3. \A i \in DOMAIN o : o[i] \in P
  BY <1>1, LenProperties, ElementOfSeq
<1> HIDE DEF o, m, n
<1>4. DOMAIN m = DOMAIN o /\ \A i \in DOMAIN o : m[i].pos = o[i]
  BY <1>2
<1>5. m \in Seq({m[i] : i \in 1 .. n})
  <2>1. m = [i \in 1 .. n |-> m[i]]
    BY <1>1, <1>2
  <2> DEFINE T == {m[i] : i \in 1 .. n}
  <2>2. \A i \in 1 .. n : m[i] \in T
    OBVIOUS
  <2> HIDE DEF T
  <2>3. [i \in 1 .. n |-> m[i]] \in Seq(T)
    BY <1>1, <2>2
  <2> QED
    BY <2>1, <2>3 DEF T
<1>6. Distinct(m)
  BY <1>1, <1>4 DEF Distinct
<1>7. Within(m, P)
  BY <1>3, <1>4 DEF Within
<1> QED
  BY <1>5, <1>6, <1>7 DEF m

\* Two batches of different entries, one behind the other.
LEMMA Joined ==
    ASSUME NEW a, NEW b, \E S : a \in Seq(S), \E S : b \in Seq(S), NEW P, NEW Q,
           Distinct(a), Distinct(b), Within(a, P), Within(b, Q), P \cap Q = {}
    PROVE  /\ \E S : a \o b \in Seq(S)
           /\ Distinct(a \o b) /\ Within(a \o b, P \cup Q)
<1>1. PICK A : a \in Seq(A)
  OBVIOUS
<1>2. PICK B : b \in Seq(B)
  OBVIOUS
<1>3. a \in Seq(A \cup B) /\ b \in Seq(A \cup B)
  BY <1>1, <1>2, SeqMonotonic
<1> DEFINE c == a \o b
           m == Len(a)
           n == Len(b)
<1>4. /\ m \in Nat /\ n \in Nat /\ DOMAIN a = 1 .. m /\ DOMAIN b = 1 .. n
      /\ c \in Seq(A \cup B) /\ DOMAIN c = 1 .. m + n
      /\ \A i \in 1 .. m + n : c[i] = IF i <= m THEN a[i] ELSE b[i - m]
  BY <1>3, ConcatProperties, LenProperties
<1> HIDE DEF c, m, n
<1>5. ASSUME NEW i \in DOMAIN c
      PROVE  \/ i \in DOMAIN a /\ c[i] = a[i] /\ c[i].pos \in P
             \/ i - m \in DOMAIN b /\ c[i] = b[i - m] /\ c[i].pos \in Q /\ i \notin DOMAIN a
  <2>1. CASE i <= m
    BY <1>4, <2>1 DEF Within
  <2>2. CASE ~(i <= m)
    BY <1>4, <2>2 DEF Within
  <2> QED
    BY <2>1, <2>2
<1>6. Within(c, P \cup Q)
  BY <1>5 DEF Within
<1>7. ASSUME NEW i \in DOMAIN c, NEW j \in DOMAIN c, c[i].pos = c[j].pos
      PROVE  i = j
  <2>1. CASE i \in DOMAIN a /\ j \in DOMAIN a
    BY <1>5, <1>7, <2>1 DEF Distinct
  <2>2. CASE i \notin DOMAIN a /\ j \notin DOMAIN a
    <3>1. i - m = j - m
      BY <1>5, <1>7, <2>2 DEF Distinct
    <3> QED
      BY <1>4, <3>1
  <2> QED
    BY <1>5, <1>7, <2>1, <2>2
<1> QED
  BY <1>4, <1>6, <1>7 DEF c, Distinct

-----------------------------------------------------------------------------
(* Every step keeps the shape.                                             *)

LEMMA RowsStep ==
    ASSUME RowsOk, [Next]_vars
    PROVE  RowsOk'
<1>1. CASE UNCHANGED rows
  BY <1>1 DEF rows, RowsOk
<1>2. ASSUME NEW e \in Events, Record(e) PROVE RowsOk'
  BY <1>2 DEF Record, RowsOk
<1>3. ASSUME NEW g \in Groups, Handle(g) PROVE RowsOk'
  <2> DEFINE k == IF <<g, EventAt>> \in Wants THEN 1 ELSE 0
  <2>1. woken' = [woken EXCEPT ![g][EventAt] = @ + k] /\ recorded' = recorded
    BY <1>3 DEF Handle
  <2>2. k \in Nat
    OBVIOUS
  <2> HIDE DEF k
  <2>3. woken[g] \in [Events -> Nat]
    BY DEF RowsOk
  <2> DEFINE f == woken[g]
             x == EventAt
  <2>4. woken' = [woken EXCEPT ![g] = [f EXCEPT ![x] = f[x] + k]]
    BY <2>1
  <2>5. f \in [Events -> Nat]
    BY <2>3
  <2> HIDE DEF f, x
  <2>6. \A y \in Events : f[y] + k \in Nat
    BY <2>2, <2>5
  <2>7. [f EXCEPT ![x] = f[x] + k] \in [Events -> Nat]
    BY <2>5, <2>6
  <2> QED
    BY <2>1, <2>4, <2>7 DEF RowsOk
<1>4. CASE Publish \/ MarkDead
  BY <1>4 DEF Publish, SelectBatch, PublishOne, CommitBatch, MarkDead, RowsOk, rows
<1>5. ASSUME NEW g \in Groups,
             \/ Reclaim(g) \/ Consume(g) \/ ConsumeLost(g) \/ Ack(g) \/ DeadLetter(g)
             \/ HandlerFails(g) \/ DeadLetterFails(g)
      PROVE  RowsOk'
  BY <1>1, <1>5 DEF Reclaim, Consume, ConsumeLost, Ack, DeadLetter, HandlerFails, DeadLetterFails
<1>6. CASE PublishFails \/ CommitFails \/ ConsumeFails \/ AckFails \/ MarkFails \/ Crash
  BY <1>1, <1>6 DEF PublishFails, CommitFails, ConsumeFails, AckFails, MarkFails, Crash
<1>7. CASE UNCHANGED vars
  BY <1>1, <1>7 DEF vars
<1> QED
  BY <1>2, <1>3, <1>4, <1>5, <1>6, <1>7 DEF Next, Work, Failure

\* What the publisher does with the first of its rows.
LEMMA NextRow ==
    ASSUME OutboxOk, outbox.todo # <<>>
    PROVE  LET e == Head(outbox.todo)
               t == Tail(outbox.todo)
           IN /\ e \in outbox.rows \cap Events
              /\ e \notin published \cup dead \cup outbox.marked
              /\ t \in Seq(Events)
              /\ \A i \in DOMAIN t : /\ t[i] \in outbox.rows /\ t[i] # e
                                     /\ t[i] \notin published \cup dead \cup outbox.marked
              /\ \A i, j \in DOMAIN t : t[i] = t[j] => i = j
<1> DEFINE s == outbox.todo
           t == Tail(s)
<1>1. s \in Seq(Events)
  BY DEF OutboxOk
<1> HIDE DEF s
<1>2. /\ Len(s) \in Nat /\ Len(s) >= 1 /\ DOMAIN s = 1 .. Len(s)
      /\ Head(s) = s[1] /\ s[1] \in Events /\ t \in Seq(Events)
      /\ DOMAIN t = 1 .. Len(s) - 1 /\ \A i \in 1 .. Len(s) - 1 : t[i] = s[i + 1]
  BY <1>1, HeadAndTail DEF s
<1> HIDE DEF t
<1>3. /\ \A i \in DOMAIN s : /\ s[i] \in outbox.rows
                             /\ s[i] \notin published \cup dead \cup outbox.marked
      /\ \A i, j \in DOMAIN s : s[i] = s[j] => i = j
  BY DEF OutboxOk, s
<1>4. 1 \in DOMAIN s
      /\ \A i \in DOMAIN t : i + 1 \in DOMAIN s /\ t[i] = s[i + 1] /\ i + 1 # 1 /\ i \in Nat
  BY <1>2
<1>5. ASSUME NEW i \in DOMAIN t, NEW j \in DOMAIN t, t[i] = t[j]
      PROVE  i = j
  <2>1. i + 1 = j + 1
    BY <1>3, <1>4, <1>5
  <2> QED
    BY <1>4, <2>1
<1>6. \A i \in DOMAIN t : t[i] # s[1]
  BY <1>3, <1>4
<1> QED
  BY <1>2, <1>3, <1>4, <1>5, <1>6 DEF s, t

LEMMA OutboxStep ==
    ASSUME RowsOk, OutboxOk, [Next]_vars
    PROVE  OutboxOk'
<1> USE DEF OutboxOk
<1>1. CASE UNCHANGED <<outbox, published, dead>>
  BY <1>1
<1>2. CASE outbox' = NoOutbox
  <2>1. <<>> \in Seq(Events) /\ DOMAIN <<>> = {}
    BY EmptySeq, LenProperties
  <2> QED
    BY <1>2, <2>1, IdleBatch
<1>3. CASE SelectBatch
  <2> DEFINE taken == Oldest(Unpublished, BatchLimit)
  <2>1. /\ outbox' = [rows |-> taken, todo |-> Ordered(taken), marked |-> {}]
        /\ UNCHANGED <<published, dead>>
    BY <1>3 DEF SelectBatch, rows
  <2>2. taken \subseteq Events /\ \A e \in taken : e \notin published \cup dead
    BY DEF Oldest, Unpublished, RowsOk
  <2> HIDE DEF taken
  <2>3. taken \in SUBSET Nat /\ IsFiniteSet(taken)
    <3>1. IsFiniteSet(Events) /\ Events \subseteq Nat
      BY EventBound, FS_Interval DEF Events
    <3> QED
      BY <2>2, <3>1, FS_Subset
  <2> DEFINE o == Ordered(taken)
  <2>4. /\ o \in Seq(taken) /\ \A i, j \in DOMAIN o : o[i] = o[j] => i = j
    BY <2>3, OrderedEnumerates
  <2> HIDE DEF o
  <2>5. o \in Seq(Events) /\ \A i \in DOMAIN o : o[i] \in taken
    BY <2>2, <2>4, SeqMonotonic, LenProperties, ElementOfSeq
  <2>6. /\ DOMAIN outbox' = {"rows", "todo", "marked"} /\ outbox'.rows = taken
        /\ outbox'.todo = o /\ outbox'.marked = {}
    BY <2>1 DEF o
  <2> QED
    BY <2>1, <2>2, <2>4, <2>5, <2>6
<1>4. CASE PublishOne
  <2>1. /\ outbox' = [outbox EXCEPT !.todo = Tail(@), !.marked = @ \cup {Head(outbox.todo)}]
        /\ UNCHANGED <<published, dead>> /\ outbox.todo # <<>>
    BY <1>4 DEF PublishOne, rows
  <2>2. /\ DOMAIN outbox' = {"rows", "todo", "marked"} /\ outbox'.rows = outbox.rows
        /\ outbox'.todo = Tail(outbox.todo)
        /\ outbox'.marked = outbox.marked \cup {Head(outbox.todo)}
    BY <2>1
  <2> DEFINE u == Tail(outbox.todo)
             e == Head(outbox.todo)
  <2>3. /\ u \in Seq(Events)
        /\ \A i \in DOMAIN u : /\ u[i] \in outbox.rows /\ u[i] # e
                               /\ u[i] \notin published \cup dead \cup outbox.marked
        /\ \A i, j \in DOMAIN u : u[i] = u[j] => i = j
    BY <2>1, NextRow
  <2> HIDE DEF u, e
  <2>4. outbox'.todo = u /\ outbox'.marked = outbox.marked \cup {e}
    BY <2>2 DEF u, e
  <2> QED
    BY <2>1, <2>2, <2>3, <2>4
<1>5. CASE PublishFails
  <2>1. /\ outbox' = [outbox EXCEPT !.todo = Tail(@)]
        /\ UNCHANGED <<published, dead>> /\ outbox.todo # <<>>
    BY <1>5 DEF PublishFails, rows
  <2>2. /\ DOMAIN outbox' = {"rows", "todo", "marked"} /\ outbox'.rows = outbox.rows
        /\ outbox'.todo = Tail(outbox.todo) /\ outbox'.marked = outbox.marked
    BY <2>1
  <2> DEFINE u == Tail(outbox.todo)
  <2>3. /\ u \in Seq(Events)
        /\ \A i \in DOMAIN u : /\ u[i] \in outbox.rows
                               /\ u[i] \notin published \cup dead \cup outbox.marked
        /\ \A i, j \in DOMAIN u : u[i] = u[j] => i = j
    BY <2>1, NextRow
  <2> HIDE DEF u
  <2>4. outbox'.todo = u
    BY <2>2 DEF u
  <2> QED
    BY <2>1, <2>2, <2>3, <2>4
<1>6. CASE MarkDead
  <2>1. UNCHANGED <<outbox, published>> /\ dead' = dead \cup {EventAt} /\ EventAt \notin outbox.rows
    BY <1>6 DEF MarkDead
  <2> QED
    BY <2>1
<1>7. CASE CommitBatch \/ CommitFails \/ Crash
  BY <1>2, <1>7 DEF CommitBatch, CommitFails, Crash
<1>8. ASSUME NEW g \in Groups,
             \/ Reclaim(g) \/ Consume(g) \/ ConsumeLost(g) \/ Ack(g) \/ DeadLetter(g)
             \/ Handle(g) \/ HandlerFails(g) \/ DeadLetterFails(g)
      PROVE  OutboxOk'
  BY <1>1, <1>8 DEF Reclaim, Consume, ConsumeLost, Ack, DeadLetter, Handle,
                    HandlerFails, DeadLetterFails, rows
<1>9. CASE ConsumeFails \/ AckFails \/ MarkFails
  BY <1>1, <1>9 DEF ConsumeFails, AckFails, MarkFails, rows
<1>10. CASE UNCHANGED vars \/ \E e \in Events : Record(e)
  BY <1>1, <1>10 DEF vars, rows, Record
<1> QED
  BY <1>3, <1>4, <1>5, <1>6, <1>7, <1>8, <1>9, <1>10 DEF Next, Publish, Work, Failure

\* The bus and the consumer's batch: what only the publisher touches, and what
\* the consumer does with its messages.
LEMMA QuietStep ==
    ASSUME BusOk, BatchOk, UNCHANGED <<stream, cursor, unacked>>,
           batch' = batch \/ batch' = NoBatch
    PROVE  BusOk' /\ BatchOk'
BY DEF BusOk, BatchOk, Pending

LEMMA AppendStep ==
    ASSUME BusOk, BatchOk, NEW e \in Events, stream' = Append(stream, e),
           UNCHANGED <<cursor, unacked, batch>>
    PROVE  BusOk' /\ BatchOk'
<1>1. Len(stream) \in Nat /\ stream' \in Seq(Events) /\ Len(stream') = Len(stream) + 1
  BY Added DEF BusOk
<1>2. \A g \in Groups : cursor[g] \in Nat /\ cursor[g] <= Len(stream')
  BY <1>1 DEF BusOk
<1> QED
  BY <1>1, <1>2 DEF BusOk, BatchOk, Pending

\* The batch leaves its first message, with the entries pending or one fewer.
LEMMA LeaveStep ==
    ASSUME BusOk, BatchOk, NEW g \in Groups, batch.group = {g}, batch.pc # "reading", Caught,
           UNCHANGED <<stream, cursor>>, unacked' = unacked \/ unacked' = Acked(g)
    PROVE  BusOk' /\ BatchOk'
<1>1. /\ unacked' \in [Groups -> Seq(SUBSET Nat)]
      /\ Pending(g) \ {Msg.pos} \subseteq Pending(g)'
      /\ \A h \in Groups : Pending(h)' \subseteq Pending(h)
  BY Acknowledges DEF BusOk, Pending
<1>2. BusOk'
  BY <1>1 DEF BusOk
<1>3. Busy(batch, g, Pending(g), cursor[g])
  BY AtWork
<1>4. cursor[g] \in Nat
  BY DEF BusOk
<1>5. batch' = NoBatch \/ Busy(batch', g, Pending(g)', cursor[g])
  <2> DEFINE P == Pending(g)
             Q == Pending(g)'
             last == cursor[g]
  <2>1. P \ {Msg.pos} \subseteq Q /\ Busy(batch, g, P, last) /\ last \in Nat
    BY <1>1, <1>3, <1>4
  <2> HIDE DEF P, Q, last
  <2>2. batch' = NoBatch \/ Busy(batch', g, Q, last)
    BY <2>1, Advances
  <2> QED
    BY <2>2 DEF Q, last
<1> QED
  BY <1>2, <1>5 DEF BatchOk

LEMMA ReclaimStep ==
    ASSUME BusOk, BatchOk, NEW g \in Groups, Reclaim(g)
    PROVE  BusOk' /\ BatchOk' /\ \A h \in Groups : Pending(h)' = Pending(h)
<1>1. PICK P \in Reclaimable(g) :
         /\ Deliver(g, P)
         /\ batch' = [pc |-> "reading", group |-> {g}, msgs |-> Messages(g, P)]
  BY DEF Reclaim
<1>2. UNCHANGED <<stream, cursor>>
  BY DEF Reclaim
<1>3. P \in SUBSET Pending(g)
  BY ReclaimsPending
<1>4. cursor[g] \in Nat /\ P \subseteq 1 .. cursor[g]
  BY <1>3 DEF BusOk
<1>5. P \in SUBSET Nat /\ IsFiniteSet(P)
  <2>1. IsFiniteSet(1 .. cursor[g])
    BY <1>4, FS_Interval
  <2>2. P \in SUBSET (1 .. cursor[g])
    BY <1>4
  <2>3. IsFiniteSet(P)
    BY <2>1, <2>2, FS_Subset
  <2> QED
    BY <1>4, <2>3
<1>6. /\ unacked' \in [Groups -> Seq(SUBSET Nat)] /\ Pending(g)' = Pending(g)
      /\ \A h \in Groups : Pending(h)' = Pending(h)
  BY <1>1, <1>3, <1>5, Delivers
<1>7. BusOk'
  BY <1>2, <1>6 DEF BusOk
<1> DEFINE m == Messages(g, P)
<1>8. (\E S : m \in Seq(S)) /\ Distinct(m) /\ Within(m, P)
  BY <1>5, MessagesSound
<1> HIDE DEF m
<1>9. /\ DOMAIN batch' = {"pc", "group", "msgs"} /\ batch'.pc = "reading"
      /\ batch'.group = {g} /\ batch'.msgs = m
  BY <1>1 DEF m
<1>10. Within(m, Pending(g)) /\ Within(m, 1 .. cursor[g])
  BY <1>3, <1>4, <1>8 DEF Within
<1>11. Busy(batch', g, Pending(g), cursor[g])
  BY <1>8, <1>9, <1>10 DEF Busy
<1> QED
  BY <1>2, <1>6, <1>7, <1>11 DEF BatchOk

\* XREADGROUP, or its like in process: the next positions become pending.
LEMMA FreshDelivered ==
    ASSUME BusOk, NEW g \in Groups, Deliver(g, Fresh(g)), UNCHANGED stream,
           cursor' = [cursor EXCEPT ![g] = @ + Cardinality(Fresh(g))]
    PROVE  /\ BusOk'
           /\ Pending(g)' = Pending(g) \cup Fresh(g)
           /\ \A h \in Groups : h # g => Pending(h)' = Pending(h) /\ cursor'[h] = cursor[h]
           /\ cursor'[g] = cursor[g] + Cardinality(Fresh(g))
           /\ IsFiniteSet(Fresh(g)) /\ Fresh(g) \in SUBSET Nat
           /\ Pending(g) \cap Fresh(g) = {}
<1> DEFINE P == Fresh(g)
           n == Cardinality(P)
<1>1. Deliver(g, P) /\ cursor' = [cursor EXCEPT ![g] = @ + n] /\ UNCHANGED stream
  OBVIOUS
<1>2. /\ n \in Nat /\ cursor[g] \in Nat /\ cursor[g] + n <= Len(stream)
      /\ P = cursor[g] + 1 .. cursor[g] + n
  BY FreshIsNext
<1>3. P \in SUBSET Nat /\ IsFiniteSet(P)
  <2>1. cursor[g] + 1 \in Int /\ cursor[g] + n \in Int
    BY <1>2
  <2> HIDE DEF n, P
  <2>2. IsFiniteSet(cursor[g] + 1 .. cursor[g] + n)
    BY <2>1, FS_Interval
  <2>3. cursor[g] + 1 .. cursor[g] + n \in SUBSET Nat
    BY <1>2
  <2> QED
    BY <1>2, <2>2, <2>3
<1>4. /\ unacked' \in [Groups -> Seq(SUBSET Nat)]
      /\ Pending(g)' = Pending(g) \cup P
      /\ \A h \in Groups : h # g => Pending(h)' = Pending(h)
  <2> HIDE DEF P
  <2> QED
    BY <1>1, <1>3, Delivers
<1>5. Pending(g) \subseteq 1 .. cursor[g]
  BY DEF BusOk
<1> HIDE DEF n, P
<1>6. Pending(g) \cap P = {}
  BY <1>2, <1>5
<1>7. cursor' \in [Groups -> Nat] /\ cursor'[g] = cursor[g] + n
      /\ \A h \in Groups : h # g => cursor'[h] = cursor[h]
  <2>1. cursor \in [Groups -> Nat] /\ cursor[g] + n \in Nat
    BY <1>2 DEF BusOk
  <2> QED
    BY <1>1, <2>1
<1>8. Pending(g) \cup P \subseteq 1 .. cursor[g] + n
  BY <1>2, <1>5
<1>9. BusOk'
  <2>1. ASSUME NEW h \in Groups
        PROVE  cursor'[h] <= Len(stream) /\ Pending(h)' \subseteq 1 .. cursor'[h]
    <3>1. CASE h = g
      BY <1>2, <1>4, <1>7, <1>8, <3>1
    <3>2. CASE h # g
      BY <1>4, <1>7, <3>2 DEF BusOk
    <3> QED
      BY <3>1, <3>2
  <2> QED
    BY <1>1, <1>4, <1>7, <2>1 DEF BusOk
<1> QED
  BY <1>3, <1>4, <1>6, <1>7, <1>9 DEF n, P

LEMMA ConsumeStep ==
    ASSUME BusOk, BatchOk, NEW g \in Groups, Consume(g)
    PROVE  /\ BusOk' /\ BatchOk'
           /\ Pending(g)' = Pending(g) \cup Fresh(g)
           /\ \A h \in Groups : h # g => Pending(h)' = Pending(h) /\ cursor'[h] = cursor[h]
           /\ cursor'[g] = cursor[g] + Cardinality(Fresh(g))
<1> DEFINE P == Fresh(g)
           n == Cardinality(P)
           m == Messages(g, P)
           all == batch.msgs \o m
<1>1. /\ batch.pc = "reading" /\ batch.group = {g} /\ Deliver(g, P)
      /\ cursor' = [cursor EXCEPT ![g] = @ + n] /\ UNCHANGED stream
      /\ batch' = IF all = <<>> THEN NoBatch
                  ELSE [batch EXCEPT !.pc = "handling", !.msgs = all]
  BY DEF Consume, rows
<1>2. /\ BusOk' /\ Pending(g)' = Pending(g) \cup P
      /\ \A h \in Groups : h # g => Pending(h)' = Pending(h) /\ cursor'[h] = cursor[h]
      /\ cursor'[g] = cursor[g] + n
      /\ IsFiniteSet(P) /\ P \in SUBSET Nat /\ Pending(g) \cap P = {}
  BY <1>1, FreshDelivered
<1>3. Busy(batch, g, Pending(g), cursor[g])
  BY <1>1, AtWork
<1>4. (\E S : m \in Seq(S)) /\ Distinct(m) /\ Within(m, P)
  <2> HIDE DEF P
  <2> QED
    BY <1>2, MessagesSound
<1> HIDE DEF n, P, m
<1>5. (\E S : all \in Seq(S)) /\ Distinct(all) /\ Within(all, Pending(g) \cup P)
  <2>1. /\ \E S : batch.msgs \in Seq(S)
        /\ Distinct(batch.msgs) /\ Within(batch.msgs, Pending(g))
    BY <1>1, <1>3 DEF Busy
  <2> QED
    BY <1>2, <1>4, <2>1, Joined
<1>6. Pending(g) \cup P \subseteq 1 .. cursor[g] + n
  BY <1>2 DEF BusOk
<1> HIDE DEF all
<1>7. ASSUME all # <<>> PROVE BatchOk'
  <2>1. batch' = [batch EXCEPT !.pc = "handling", !.msgs = all]
    BY <1>1, <1>7
  <2>2. DOMAIN batch = {"pc", "group", "msgs"} /\ batch.group = {g}
    BY <1>3 DEF Busy
  <2>3. /\ DOMAIN batch' = {"pc", "group", "msgs"} /\ batch'.pc = "handling"
        /\ batch'.group = {g} /\ batch'.msgs = all
    BY <2>1, <2>2
  <2>4. Within(all, 1 .. cursor[g] + n)
    BY <1>5, <1>6 DEF Within
  <2>5. Within(Tail(all), Pending(g) \cup P)
    <3>1. PICK S : all \in Seq(S)
      BY <1>5
    <3>2. /\ DOMAIN all = 1 .. Len(all) /\ Len(all) \in Nat
          /\ DOMAIN Tail(all) = 1 .. Len(all) - 1
          /\ \A i \in 1 .. Len(all) - 1 : Tail(all)[i] = all[i + 1]
      BY <1>7, <3>1, HeadAndTail
    <3>3. \A i \in DOMAIN Tail(all) : i + 1 \in DOMAIN all /\ Tail(all)[i] = all[i + 1]
      BY <3>2
    <3> QED
      BY <1>5, <3>3 DEF Within
  <2>6. Busy(batch', g, Pending(g) \cup P, cursor[g] + n)
    BY <1>5, <1>7, <2>3, <2>4, <2>5 DEF Busy
  <2>7. Busy(batch', g, Pending(g)', cursor'[g])
    BY <1>2, <2>6
  <2> QED
    BY <2>7 DEF BatchOk
<1>8. ASSUME all = <<>> PROVE BatchOk'
  BY <1>1, <1>8 DEF BatchOk
<1> QED
  BY <1>2, <1>7, <1>8 DEF n, P

LEMMA ConsumeLostStep ==
    ASSUME BusOk, NEW g \in Groups, ConsumeLost(g)
    PROVE  /\ BusOk' /\ BatchOk'
           /\ Pending(g)' = Pending(g) \cup Fresh(g)
           /\ \A h \in Groups : h # g => Pending(h)' = Pending(h) /\ cursor'[h] = cursor[h]
           /\ cursor'[g] = cursor[g] + Cardinality(Fresh(g))
<1>1. /\ Deliver(g, Fresh(g)) /\ UNCHANGED stream /\ batch' = NoBatch
      /\ cursor' = [cursor EXCEPT ![g] = @ + Cardinality(Fresh(g))]
  BY DEF ConsumeLost
<1> QED
  BY <1>1, FreshDelivered DEF BatchOk

LEMMA HandleStep ==
    ASSUME BusOk, BatchOk, NEW g \in Groups,
           batch.group = {g}, batch.pc = "handling", NEW pc \in {"acking", "marking"},
           batch' = [batch EXCEPT !.pc = pc], UNCHANGED <<stream, cursor>>,
           \/ pc = "acking" /\ unacked' = unacked
           \/ pc = "marking" /\ unacked' = Acked(g)
    PROVE  BusOk' /\ BatchOk' /\ batch'.pc = pc /\ Msg' = Msg /\ batch'.group = {g}
<1>1. Busy(batch, g, Pending(g), cursor[g]) /\ cursor[g] \in Nat
  BY AtWork DEF BusOk
<1>2. DOMAIN batch = {"pc", "group", "msgs"}
  BY <1>1 DEF Busy
<1>3. /\ DOMAIN batch' = {"pc", "group", "msgs"} /\ batch'.pc = pc
      /\ batch'.group = {g} /\ batch'.msgs = batch.msgs
  BY <1>2
<1>4. CASE pc = "acking"
  <2>1. \A h \in Groups : Pending(h)' = Pending(h)
    BY <1>4 DEF Pending
  <2>2. Busy(batch', g, Pending(g), cursor[g])
    BY <1>1, <1>3, <1>4 DEF Busy
  <2>3. BatchOk'
    BY <2>1, <2>2 DEF BatchOk
  <2>4. BusOk'
    BY <1>4, <2>1 DEF BusOk
  <2> QED
    BY <1>3, <2>3, <2>4 DEF Msg
<1>5. CASE pc = "marking"
  <2>1. unacked' = Acked(g)
    BY <1>5
  <2>2. /\ unacked' \in [Groups -> Seq(SUBSET Nat)]
        /\ Pending(g)' = Pending(g) \ {Msg.pos}
        /\ \A h \in Groups : h # g => Pending(h)' = Pending(h)
    BY <2>1, Acknowledges
  <2> DEFINE P == Pending(g)
             last == cursor[g]
  <2>3. Within(Tail(batch.msgs), P \ {Msg.pos})
    <3> HIDE DEF P, last
    <3>1. Busy(batch, g, P, last) /\ last \in Nat
      BY <1>1 DEF P, last
    <3> QED
      BY <3>1, FirstMessage DEF Msg
  <2>4. Busy(batch', g, Pending(g)', cursor[g])
    BY <1>1, <1>3, <1>5, <2>2, <2>3 DEF Busy
  <2>5. BusOk'
    BY <2>2 DEF BusOk
  <2> QED
    BY <1>3, <2>4, <2>5 DEF BatchOk, Msg
<1> QED
  BY <1>4, <1>5

LEMMA CrashStep ==
    ASSUME BusOk, Crash
    PROVE  BusOk' /\ BatchOk'
<1>1. batch' = NoBatch
  BY DEF Crash
<1>2. CASE Backend = "redis"
  BY <1>1, <1>2 DEF Crash, bus, BusOk, BatchOk, Pending
<1>3. CASE Backend # "redis"
  <2>1. /\ stream' = <<>> /\ cursor' = [g \in Groups |-> 0]
        /\ unacked' = [g \in Groups |-> <<>>]
    BY <1>3 DEF Crash
  <2>2. <<>> \in Seq(Events) /\ <<>> \in Seq(SUBSET Nat) /\ Len(<<>>) = 0 /\ DOMAIN <<>> = {}
    BY EmptySeq, LenProperties
  <2>3. \A g \in Groups : Pending(g)' = {}
    BY <2>1, <2>2 DEF Pending, ToSet
  <2> QED
    BY <1>1, <2>1, <2>2, <2>3 DEF BusOk, BatchOk
<1> QED
  BY <1>2, <1>3

LEMMA ShapeStep ==
    ASSUME Shape, [Next]_vars
    PROVE  Shape'
<1> USE DEF Shape
<1>1. RowsOk' /\ OutboxOk'
  BY RowsStep, OutboxStep
<1>2. CASE PublishOne \/ PublishFails
  <2>1. outbox.todo # <<>>
    BY <1>2 DEF PublishOne, PublishFails
  <2>2. Head(outbox.todo) \in Events
    BY <2>1, NextRow
  <2>3. /\ UNCHANGED <<cursor, unacked, batch>>
        /\ stream' = stream \/ stream' = Append(stream, Head(outbox.todo))
    BY <1>2 DEF PublishOne, PublishFails
  <2> QED
    BY <1>1, <2>2, <2>3, QuietStep, AppendStep
<1>3. CASE \/ SelectBatch \/ CommitBatch \/ CommitFails \/ ConsumeFails \/ UNCHANGED vars
           \/ \E e \in Events : Record(e)
  BY <1>1, <1>3, QuietStep
     DEF SelectBatch, CommitBatch, CommitFails, ConsumeFails, Record, vars, bus
<1>4. CASE Crash
  BY <1>1, <1>4, CrashStep
<1>5. ASSUME NEW g \in Groups, Reclaim(g) \/ Consume(g) \/ ConsumeLost(g) PROVE Shape'
  BY <1>1, <1>5, ReclaimStep, ConsumeStep, ConsumeLostStep
<1>6. ASSUME NEW g \in Groups, Handle(g) PROVE Shape'
  BY <1>1, <1>6, HandleStep DEF Handle, Handling, bus
<1>7. ASSUME NEW g \in Groups, DeadLetter(g) PROVE Shape'
  BY <1>1, <1>7, HandleStep DEF DeadLetter, Handling
<1>8. ASSUME NEW g \in Groups, HandlerFails(g) \/ DeadLetterFails(g) \/ Ack(g)
      PROVE  Shape'
  <2>1. /\ batch.group = {g} /\ batch.pc # "reading" /\ Caught /\ UNCHANGED <<stream, cursor>>
        /\ unacked' = unacked \/ unacked' = Acked(g)
    BY <1>8 DEF HandlerFails, DeadLetterFails, Ack, Handling, Caught, bus
  <2> QED
    BY <1>1, <2>1, LeaveStep
<1>9. CASE AckFails \/ MarkDead \/ MarkFails
  <2>1. /\ batch.pc # "idle" /\ batch.pc # "reading" /\ Caught
        /\ UNCHANGED <<stream, cursor, unacked>>
    BY <1>9 DEF AckFails, MarkDead, MarkFails, Caught, bus
  <2>2. PICK g \in Groups : batch.group = {g}
    BY <2>1, SomeoneAtWork
  <2> QED
    BY <1>1, <2>1, <2>2, LeaveStep
<1> QED
  BY <1>2, <1>3, <1>4, <1>5, <1>6, <1>7, <1>8, <1>9 DEF Next, Publish, Work, Failure

LEMMA ShapeInit == Init => Shape
<1> SUFFICES ASSUME Init PROVE Shape
  OBVIOUS
<1>1. /\ <<>> \in Seq(Events) /\ <<>> \in Seq(SUBSET Nat) /\ Len(<<>>) = 0 /\ DOMAIN <<>> = {}
  BY EmptySeq, LenProperties
<1>2. RowsOk
  BY DEF Init, RowsOk
<1>3. OutboxOk
  BY <1>1, IdleBatch DEF Init, OutboxOk
<1>4. \A g \in Groups : Pending(g) = {}
  BY <1>1 DEF Init, Pending, ToSet
<1>5. BusOk
  BY <1>1, <1>4 DEF Init, BusOk
<1> QED
  BY <1>2, <1>3, <1>5 DEF Init, Shape, BatchOk

-----------------------------------------------------------------------------
(* Nothing is lost.                                                        *)

\* The bus does not lose its entries.
BusLives == Backend = "redis" \/ "crash" \notin Faults

Met(g, e)     == woken[g][e] > 0 \/ <<g, e>> \in dlq
Waiting(g, p) == p > cursor[g] \/ p \in Pending(g)

\* What left the outbox is in the stream, and so is what its commit will mark.
Sent == \A e \in published \cup dead \cup outbox.marked : \E p \in DOMAIN stream : stream[p] = e

\* Every entry is still to come for a subscriber, or was seen to.
EntriesOwed ==
    \A g \in Groups : \A p \in DOMAIN stream :
        <<g, stream[p]>> \in Wants => Met(g, stream[p]) \/ Waiting(g, p)

\* What is being acknowledged was handled.
AckingHandled ==
    \A g \in Groups :
        batch.pc = "acking" /\ batch.group = {g} /\ <<g, EventAt>> \in Wants =>
            woken[g][EventAt] > 0

AccountInv == Shape /\ Sent /\ EntriesOwed /\ AckingHandled

\* While the bus lives the stream only grows, and whom an event has woken, or
\* what is dead, stays so.
LEMMA StreamGrows ==
    ASSUME BusLives, Shape, [Next]_vars
    PROVE  /\ DOMAIN stream \subseteq DOMAIN stream'
           /\ \A p \in DOMAIN stream : stream'[p] = stream[p] /\ p \in Nat
           /\ DOMAIN stream = 1 .. Len(stream) /\ Len(stream) \in Nat
           /\ DOMAIN stream' = 1 .. Len(stream')
           /\ \/ stream' = stream
              \/ /\ stream' = Append(stream, Head(outbox.todo))
                 /\ outbox.todo # <<>> /\ Len(stream') = Len(stream) + 1
                 /\ stream'[Len(stream) + 1] = Head(outbox.todo)
                 /\ UNCHANGED <<cursor, unacked, batch, woken, dlq>>
<1>1. stream \in Seq(Events)
  BY DEF Shape, BusOk
<1>2. /\ Len(stream) \in Nat /\ DOMAIN stream = 1 .. Len(stream)
      /\ \A p \in DOMAIN stream : p \in Nat
  BY <1>1, LenProperties
<1>3. CASE stream' = stream
  BY <1>2, <1>3
<1>4. CASE PublishOne \/ PublishFails
  <2>1. /\ stream' = stream \/ stream' = Append(stream, Head(outbox.todo))
        /\ outbox.todo # <<>>
        /\ UNCHANGED <<cursor, unacked, batch, woken, dlq>>
    BY <1>4 DEF PublishOne, PublishFails, rows
  <2>2. Head(outbox.todo) \in Events
    BY <2>1, NextRow DEF Shape
  <2>3. CASE stream' = Append(stream, Head(outbox.todo))
    <3>1. /\ stream' \in Seq(Events) /\ Len(stream') = Len(stream) + 1
          /\ DOMAIN stream' = 1 .. Len(stream) + 1
          /\ \A p \in 1 .. Len(stream) : stream'[p] = stream[p]
          /\ stream'[Len(stream) + 1] = Head(outbox.todo)
      BY <1>1, <2>2, <2>3, Added
    <3>2. 1 .. Len(stream) \subseteq 1 .. Len(stream) + 1
      BY <1>2
    <3> QED
      BY <1>2, <2>1, <2>3, <3>1, <3>2
  <2> QED
    BY <1>3, <2>1, <2>3
<1>5. CASE Crash
  BY <1>3, <1>5 DEF Crash, Fault, BusLives, bus
<1>6. ASSUME NEW g \in Groups,
             \/ Reclaim(g) \/ Consume(g) \/ ConsumeLost(g) \/ Ack(g) \/ DeadLetter(g)
             \/ Handle(g) \/ HandlerFails(g) \/ DeadLetterFails(g)
      PROVE  stream' = stream
  BY <1>6 DEF Reclaim, Consume, ConsumeLost, Ack, DeadLetter, Handle, HandlerFails,
              DeadLetterFails, bus
<1>7. CASE \/ SelectBatch \/ CommitBatch \/ CommitFails \/ ConsumeFails \/ AckFails
           \/ MarkDead \/ MarkFails \/ UNCHANGED vars \/ \E e \in Events : Record(e)
  BY <1>3, <1>7 DEF SelectBatch, CommitBatch, CommitFails, ConsumeFails, AckFails,
                    MarkDead, MarkFails, Record, vars, bus
<1> QED
  BY <1>3, <1>4, <1>5, <1>6, <1>7 DEF Next, Publish, Work, Failure

LEMMA MetStays ==
    ASSUME BusLives, Shape, [Next]_vars, NEW g \in Groups, NEW e \in Events
    PROVE  /\ Met(g, e) => Met(g, e)'
           /\ woken[g][e] > 0 => woken'[g][e] > 0
<1>1. woken[g][e] \in Nat
  BY DEF Shape, RowsOk
<1>2. CASE woken' = woken /\ dlq \subseteq dlq'
  BY <1>2 DEF Met
<1>3. ASSUME NEW h \in Groups, Handle(h)
      PROVE  dlq' = dlq /\ woken'[g][e] \in {woken[g][e], woken[g][e] + 1}
  <2> DEFINE k == IF <<h, EventAt>> \in Wants THEN 1 ELSE 0
  <2>1. woken' = [woken EXCEPT ![h][EventAt] = @ + k] /\ dlq' = dlq
    BY <1>3 DEF Handle, bus
  <2>2. k \in {0, 1}
    OBVIOUS
  <2>3. woken \in [Groups -> [Events -> Nat]]
    BY DEF Shape, RowsOk
  <2> DEFINE x == EventAt
  <2> HIDE DEF k, x
  <2>4. CASE h = g /\ x = e
    <3>1. woken'[g][e] = woken[g][e] + k
      BY <2>1, <2>3, <2>4 DEF x
    <3> QED
      BY <1>1, <2>1, <2>2, <3>1
  <2>5. CASE ~(h = g /\ x = e)
    <3>1. woken'[g][e] = woken[g][e]
      BY <2>1, <2>3, <2>5 DEF x
    <3> QED
      BY <2>1, <3>1
  <2> QED
    BY <2>4, <2>5
<1>4. CASE Crash
  BY <1>2, <1>4 DEF Crash, Fault, BusLives, bus, rows
<1>5. ASSUME NEW h \in Groups,
             \/ Reclaim(h) \/ Consume(h) \/ ConsumeLost(h) \/ Ack(h) \/ DeadLetter(h)
             \/ HandlerFails(h) \/ DeadLetterFails(h)
      PROVE  woken' = woken /\ dlq \subseteq dlq'
  BY <1>5 DEF Reclaim, Consume, ConsumeLost, Ack, DeadLetter, HandlerFails,
              DeadLetterFails, bus, rows
<1>6. CASE \/ Publish \/ PublishFails \/ CommitFails \/ ConsumeFails \/ AckFails
           \/ MarkDead \/ MarkFails \/ UNCHANGED vars \/ \E d \in Events : Record(d)
  <2>1. woken' = woken /\ dlq' = dlq
    BY <1>6 DEF Publish, SelectBatch, PublishOne, CommitBatch, PublishFails, CommitFails,
                ConsumeFails, AckFails, MarkDead, MarkFails, Record, vars, bus, rows
  <2> QED
    BY <1>2, <2>1
<1> QED
  BY <1>1, <1>2, <1>3, <1>4, <1>5, <1>6 DEF Next, Work, Failure, Met

LEMMA SentStep ==
    ASSUME BusLives, Shape, Sent, [Next]_vars
    PROVE  Sent'
<1>1. \A e : (\E p \in DOMAIN stream : stream[p] = e) => \E p \in DOMAIN stream' : stream'[p] = e
  BY StreamGrows
<1>2. CASE (published \cup dead \cup outbox.marked)' \subseteq published \cup dead \cup outbox.marked
  BY <1>1, <1>2 DEF Sent
<1>3. CASE PublishOne
  <2>1. /\ outbox' = [outbox EXCEPT !.todo = Tail(@), !.marked = @ \cup {Head(outbox.todo)}]
        /\ UNCHANGED <<published, dead>>
        /\ stream' = Append(stream, Head(outbox.todo)) /\ outbox.todo # <<>>
    BY <1>3 DEF PublishOne, rows
  <2>2. outbox'.marked = outbox.marked \cup {Head(outbox.todo)}
    BY <2>1 DEF Shape, OutboxOk
  <2>3. \E p \in DOMAIN stream' : stream'[p] = Head(outbox.todo)
    <3>1. stream \in Seq(Events) /\ Head(outbox.todo) \in Events
      BY <2>1, NextRow DEF Shape, BusOk
    <3>2. /\ DOMAIN stream' = 1 .. Len(stream) + 1 /\ Len(stream) \in Nat
          /\ stream'[Len(stream) + 1] = Head(outbox.todo)
      BY <2>1, <3>1, Added
    <3> QED
      BY <3>2
  <2> QED
    BY <1>1, <2>1, <2>2, <2>3 DEF Sent
<1>4. CASE MarkDead
  <2>1. /\ UNCHANGED <<published, outbox, stream>> /\ dead' = dead \cup {EventAt}
        /\ batch.pc = "marking"
    BY <1>4 DEF MarkDead, bus
  <2>2. PICK g \in Groups : Busy(batch, g, Pending(g), cursor[g])
    BY <2>1, SomeoneAtWork DEF Shape
  <2>3. cursor[g] \in Nat /\ Len(stream) \in Nat /\ cursor[g] <= Len(stream)
        /\ DOMAIN stream = 1 .. Len(stream)
    BY LenProperties DEF Shape, BusOk
  <2>4. Msg.pos \in 1 .. cursor[g]
    BY <2>1, <2>2, <2>3, FirstMessage DEF Msg
  <2>5. Msg.pos \in DOMAIN stream
    BY <2>3, <2>4
  <2> QED
    BY <2>1, <2>5 DEF Sent, EventAt
<1>5. CASE PublishFails
  <2>1. outbox'.marked = outbox.marked /\ UNCHANGED <<published, dead>>
    BY <1>5 DEF PublishFails, Shape, OutboxOk, rows
  <2> QED
    BY <1>2, <2>1
<1>6. CASE SelectBatch \/ CommitBatch \/ CommitFails \/ Crash
  <2>1. /\ dead' = dead /\ published' \subseteq published \cup outbox.marked
        /\ outbox'.marked = {}
    BY <1>6, IdleBatch DEF SelectBatch, CommitBatch, CommitFails, Crash, rows
  <2> QED
    BY <1>2, <2>1
<1>7. ASSUME NEW g \in Groups,
             \/ Reclaim(g) \/ Consume(g) \/ ConsumeLost(g) \/ Ack(g) \/ DeadLetter(g)
             \/ Handle(g) \/ HandlerFails(g) \/ DeadLetterFails(g)
      PROVE  UNCHANGED <<published, dead, outbox>>
  BY <1>7 DEF Reclaim, Consume, ConsumeLost, Ack, DeadLetter, Handle, HandlerFails,
              DeadLetterFails, rows
<1>8. CASE ConsumeFails \/ AckFails \/ MarkFails \/ UNCHANGED vars \/ \E e \in Events : Record(e)
  <2>1. UNCHANGED <<published, dead, outbox>>
    BY <1>8 DEF ConsumeFails, AckFails, MarkFails, Record, vars, rows
  <2> QED
    BY <1>2, <2>1
<1> QED
  BY <1>2, <1>3, <1>4, <1>5, <1>6, <1>7, <1>8 DEF Next, Publish, Work, Failure

\* The current message is an entry of the stream.
LEMMA CurrentEntry ==
    ASSUME Shape, NEW g \in Groups, batch.group = {g}, batch.pc # "reading"
    PROVE  /\ Msg.pos \in DOMAIN stream /\ Msg.pos \in 1 .. cursor[g]
           /\ EventAt \in Events
           /\ batch.pc # "marking" => Msg.pos \in Pending(g)
<1>1. Busy(batch, g, Pending(g), cursor[g])
  BY AtWork DEF Shape
<1>2. /\ cursor[g] \in Nat /\ cursor[g] <= Len(stream) /\ Len(stream) \in Nat
      /\ DOMAIN stream = 1 .. Len(stream) /\ stream \in Seq(Events)
  BY LenProperties DEF Shape, BusOk
<1>3. Msg.pos \in 1 .. cursor[g] /\ (batch.pc # "marking" => Msg.pos \in Pending(g))
  BY <1>1, <1>2, FirstMessage DEF Msg
<1>4. Msg.pos \in 1 .. Len(stream)
  BY <1>2, <1>3
<1> QED
  BY <1>2, <1>3, <1>4, ElementOfSeq DEF EventAt

\* An entry waits for a group until the group's consumer has seen to it.
LEMMA WaitingStep ==
    ASSUME BusLives, AccountInv, [Next]_vars, NEW g \in Groups, NEW p \in DOMAIN stream,
           NEW e, stream[p] = e, <<g, e>> \in Wants, Waiting(g, p)
    PROVE  Waiting(g, p)' \/ Met(g, e)'
<1> USE DEF AccountInv
<1>1. CASE UNCHANGED <<cursor, unacked>>
  BY <1>1 DEF Waiting, Pending
<1>2. ASSUME NEW h \in Groups, Reclaim(h) PROVE Waiting(g, p)'
  BY <1>2, ReclaimStep DEF Shape, Waiting, Reclaim
<1>3. ASSUME NEW h \in Groups, Consume(h) \/ ConsumeLost(h) PROVE Waiting(g, p)'
  <2>1. /\ Pending(h)' = Pending(h) \cup Fresh(h)
        /\ \A i \in Groups : i # h => Pending(i)' = Pending(i) /\ cursor'[i] = cursor[i]
        /\ cursor'[h] = cursor[h] + Cardinality(Fresh(h))
    BY <1>3, ConsumeStep, ConsumeLostStep DEF Shape
  <2>2. CASE g # h
    BY <2>1, <2>2 DEF Waiting
  <2>3. CASE g = h
    <3>1. /\ Cardinality(Fresh(g)) \in Nat /\ cursor[g] \in Nat
          /\ Fresh(g) = cursor[g] + 1 .. cursor[g] + Cardinality(Fresh(g))
      BY FreshIsNext DEF Shape
    <3>2. p \in Nat
      BY StreamGrows
    <3>3. p > cursor[g] => p > cursor'[g] \/ p \in Fresh(g)
      BY <2>1, <2>3, <3>1, <3>2
    <3> QED
      BY <2>1, <2>3, <3>3 DEF Waiting
  <2> QED
    BY <2>2, <2>3
<1>4. ASSUME NEW h \in Groups, Ack(h) \/ DeadLetter(h)
      PROVE  Waiting(g, p)' \/ Met(g, e)'
  <2>1. unacked' = Acked(h) /\ UNCHANGED cursor /\ batch.group = {h} /\ batch.pc # "reading"
    BY <1>4 DEF Ack, DeadLetter, Handling
  <2>2. /\ Pending(h)' = Pending(h) \ {Msg.pos}
        /\ \A i \in Groups : i # h => Pending(i)' = Pending(i)
    BY <2>1, Acknowledges DEF Shape
  <2>3. CASE g # h \/ p # Msg.pos
    BY <2>1, <2>2, <2>3 DEF Waiting
  <2>4. CASE g = h /\ p = Msg.pos
    <3>1. CASE Ack(h)
      <4>1. woken[g][e] > 0 /\ UNCHANGED woken
        BY <2>4, <3>1 DEF Ack, AckingHandled, EventAt, rows
      <4> QED
        BY <4>1 DEF Met
    <3>2. CASE DeadLetter(h)
      BY <2>4, <3>2 DEF DeadLetter, EventAt, Met
    <3> QED
      BY <1>4, <3>1, <3>2
  <2> QED
    BY <2>3, <2>4
<1>5. ASSUME NEW h \in Groups, Handle(h) \/ HandlerFails(h) \/ DeadLetterFails(h)
      PROVE  UNCHANGED <<cursor, unacked>>
  BY <1>5 DEF Handle, HandlerFails, DeadLetterFails, bus
<1>6. CASE Crash
  BY <1>1, <1>6 DEF Crash, Fault, BusLives, bus
<1>7. CASE \/ Publish \/ PublishFails \/ CommitFails \/ ConsumeFails \/ AckFails
           \/ MarkDead \/ MarkFails \/ UNCHANGED vars \/ \E d \in Events : Record(d)
  <2>1. UNCHANGED <<cursor, unacked>>
    BY <1>7 DEF Publish, SelectBatch, PublishOne, CommitBatch, PublishFails, CommitFails,
                ConsumeFails, AckFails, MarkDead, MarkFails, Record, vars, bus
  <2> QED
    BY <1>1, <2>1
<1> QED
  BY <1>1, <1>2, <1>3, <1>4, <1>5, <1>6, <1>7 DEF Next, Work, Failure

LEMMA EntriesOwedStep ==
    ASSUME BusLives, AccountInv, [Next]_vars
    PROVE  EntriesOwed'
<1> SUFFICES ASSUME NEW g \in Groups, NEW p \in DOMAIN stream', NEW e, stream'[p] = e,
                    <<g, e>> \in Wants
             PROVE  Met(g, e)' \/ Waiting(g, p)'
  BY DEF EntriesOwed, Met
<1>1. Shape /\ EntriesOwed
  BY DEF AccountInv
<1>2. CASE p \in DOMAIN stream
  <2>1. stream[p] = e
    BY <1>1, <1>2, StreamGrows
  <2>2. e \in Events
    <3>1. stream \in Seq(Events)
      BY <1>1 DEF Shape, BusOk
    <3> QED
      BY <1>1, <1>2, <2>1, <3>1, LenProperties, ElementOfSeq
  <2>3. Met(g, e) \/ Waiting(g, p)
    BY <1>1, <1>2, <2>1 DEF EntriesOwed
  <2>4. Met(g, e) => Met(g, e)'
    BY <1>1, <2>2, MetStays
  <2>5. Waiting(g, p) => Waiting(g, p)' \/ Met(g, e)'
    BY <1>2, <2>1, WaitingStep
  <2> QED
    BY <2>3, <2>4, <2>5
<1>3. CASE p \notin DOMAIN stream
  <2>1. /\ UNCHANGED <<cursor, unacked>> /\ p = Len(stream) + 1 /\ Len(stream) \in Nat
    BY <1>1, <1>3, StreamGrows
  <2>2. cursor[g] \in Nat /\ cursor[g] <= Len(stream)
    BY <1>1 DEF Shape, BusOk
  <2> QED
    BY <2>1, <2>2 DEF Waiting
<1> QED
  BY <1>2, <1>3

LEMMA AckingStep ==
    ASSUME BusLives, AccountInv, [Next]_vars
    PROVE  AckingHandled'
<1> USE DEF AccountInv
<1>1. CASE batch' = batch
  <2> SUFFICES ASSUME NEW g \in Groups, batch.pc = "acking", batch.group = {g},
                      <<g, EventAt'>> \in Wants
               PROVE  woken'[g][EventAt'] > 0
    BY <1>1 DEF AckingHandled
  <2>1. Msg' = Msg
    BY <1>1 DEF Msg
  <2>2. Msg.pos \in DOMAIN stream /\ EventAt \in Events
    BY CurrentEntry
  <2>3. EventAt' = EventAt
    BY <2>1, <2>2, StreamGrows DEF EventAt
  <2>4. woken[g][EventAt] > 0
    BY <2>3 DEF AckingHandled
  <2> QED
    BY <2>2, <2>3, <2>4, MetStays
<1>2. CASE batch'.pc # "acking"
  BY <1>2 DEF AckingHandled
<1>3. ASSUME NEW h \in Groups, Handle(h) PROVE AckingHandled'
  <2>1. /\ batch' = [batch EXCEPT !.pc = "acking"] /\ batch.group = {h}
        /\ batch.pc = "handling" /\ UNCHANGED <<stream, cursor, unacked>>
    BY <1>3 DEF Handle, Handling, bus
  <2>2. Msg' = Msg /\ batch'.group = {h}
    BY <2>1, HandleStep DEF Shape
  <2>3. EventAt' = EventAt
    BY <2>1, <2>2 DEF EventAt
  <2>4. EventAt \in Events
    BY <2>1, CurrentEntry
  <2> DEFINE x == EventAt
             k == IF <<h, x>> \in Wants THEN 1 ELSE 0
  <2>5. woken' = [woken EXCEPT ![h][x] = @ + k]
    BY <1>3 DEF Handle
  <2>6. x \in Events /\ woken \in [Groups -> [Events -> Nat]]
    BY <2>4 DEF Shape, RowsOk
  <2>7. <<h, x>> \in Wants => k = 1
    OBVIOUS
  <2> HIDE DEF x, k
  <2>8. woken'[h][x] = woken[h][x] + k /\ woken[h][x] \in Nat
    BY <2>5, <2>6
  <2>9. <<h, x>> \in Wants => woken'[h][x] > 0
    BY <2>7, <2>8
  <2> SUFFICES ASSUME NEW g \in Groups, batch'.group = {g}, <<g, EventAt'>> \in Wants
               PROVE  woken'[g][EventAt'] > 0
    BY DEF AckingHandled
  <2>10. g = h
    BY <2>2
  <2> QED
    BY <2>3, <2>9, <2>10 DEF x
<1>4. CASE Caught /\ batch.pc # "idle"
  <2>1. PICK g \in Groups : Busy(batch, g, Pending(g), cursor[g])
    BY <1>4, SomeoneAtWork DEF Shape
  <2>2. "pc" \in DOMAIN batch
    BY <2>1 DEF Busy
  <2>3. batch'.pc # "acking"
    BY <1>4, <2>2, IdleBatch DEF Caught, Advance
  <2> QED
    BY <1>2, <2>3
<1>5. ASSUME NEW h \in Groups, Consume(h) \/ DeadLetter(h) PROVE AckingHandled'
  <2>1. batch.pc # "idle"
    BY <1>5 DEF Consume, DeadLetter, Handling
  <2>2. PICK g \in Groups : Busy(batch, g, Pending(g), cursor[g])
    BY <2>1, SomeoneAtWork DEF Shape
  <2>3. "pc" \in DOMAIN batch
    BY <2>2 DEF Busy
  <2>4. batch'.pc # "acking"
    BY <1>5, <2>3, IdleBatch DEF Consume, DeadLetter
  <2> QED
    BY <1>2, <2>4
<1>6. ASSUME NEW h \in Groups, Reclaim(h) PROVE AckingHandled'
  BY <1>2, <1>6 DEF Reclaim
<1>7. CASE Crash \/ ConsumeFails \/ \E h \in Groups : ConsumeLost(h)
  BY <1>2, <1>7, IdleBatch DEF Crash, ConsumeFails, ConsumeLost
<1>8. ASSUME NEW h \in Groups, HandlerFails(h) \/ DeadLetterFails(h) \/ Ack(h)
      PROVE  AckingHandled'
  BY <1>4, <1>8 DEF HandlerFails, DeadLetterFails, Ack, Handling, Caught
<1>9. CASE AckFails \/ MarkDead \/ MarkFails
  BY <1>4, <1>9 DEF AckFails, MarkDead, MarkFails, Caught
<1>10. CASE \/ Publish \/ PublishFails \/ CommitFails \/ UNCHANGED vars
            \/ \E e \in Events : Record(e)
  BY <1>1, <1>10 DEF Publish, SelectBatch, PublishOne, CommitBatch, PublishFails,
                     CommitFails, Record, vars
<1> QED
  BY <1>3, <1>5, <1>6, <1>7, <1>8, <1>9, <1>10 DEF Next, Work, Failure

\* No event that has left the outbox is lost to a subscriber that wants it: it has
\* woken it, is in the dead-letter stream, or is still on its way; whatever fails,
\* for any number of groups and events, while the bus keeps its entries.
THEOREM AccountedHolds ==
    ASSUME BusLives
    PROVE  Spec => []Accounted
<1>1. Init => AccountInv
  <2> SUFFICES ASSUME Init PROVE AccountInv
    OBVIOUS
  <2>1. DOMAIN <<>> = {}
    BY EmptySeq, LenProperties
  <2> QED
    BY <2>1, ShapeInit, IdleBatch DEF Init, AccountInv, Sent, EntriesOwed, AckingHandled
<1>2. AccountInv /\ [Next]_vars => AccountInv'
  BY ShapeStep, SentStep, EntriesOwedStep, AckingStep DEF AccountInv
<1>3. AccountInv => Accounted
  <2> SUFFICES ASSUME AccountInv, NEW g \in Groups, NEW e \in published \cup dead,
                      <<g, e>> \in Wants
               PROVE  woken[g][e] > 0 \/ <<g, e>> \in dlq \/ InFlight(g, e)
    BY DEF Accounted
  <2>1. PICK p \in DOMAIN stream : stream[p] = e
    BY DEF AccountInv, Sent
  <2>2. Met(g, e) \/ Waiting(g, p)
    BY <2>1 DEF AccountInv, EntriesOwed
  <2> QED
    BY <2>1, <2>2 DEF Met, Waiting, InFlight
<1> QED
  BY <1>1, <1>2, <1>3, PTL DEF Spec

-----------------------------------------------------------------------------
(* Nothing is handled too often.                                           *)

\* What the group's consumer has handled and not acknowledged.
Handled(g) == IF batch.pc = "acking" /\ batch.group = {g} THEN {Msg.pos} ELSE {}

\* The entries of an event the group may still handle.
Chances(g, e) == {p \in DOMAIN stream : stream[p] = e /\ Waiting(g, p) /\ p \notin Handled(g)}

\* The event may still be published.
Unsent(e) == IF e \in published \cup dead \cup outbox.marked THEN 0 ELSE 1

Allowed == 1 + faults.all + faults.crashes

Tally(g, e) == woken[g][e] + Cardinality(Chances(g, e)) + Unsent(e)

FaultsOk == DOMAIN faults = {"all", "crashes"} /\ faults.all \in Nat /\ faults.crashes \in Nat

TallyInv == Shape /\ FaultsOk /\ \A g \in Groups, e \in Events : Tally(g, e) <= Allowed

LEMMA FaultCounted ==
    ASSUME FaultsOk, NEW f, Fault(f)
    PROVE  /\ FaultsOk' /\ Allowed' = Allowed + (IF f = "crash" THEN 2 ELSE 1)
           /\ Allowed \in Nat
<1>1. /\ DOMAIN faults' = {"all", "crashes"} /\ faults'.all = faults.all + 1
      /\ faults'.crashes = faults.crashes + (IF f = "crash" THEN 1 ELSE 0)
  BY DEF Fault
<1> QED
  BY <1>1 DEF FaultsOk, Allowed

LEMMA TallyTypes ==
    ASSUME Shape, NEW g \in Groups, NEW e \in Events
    PROVE  /\ woken[g][e] \in Nat /\ IsFiniteSet(Chances(g, e))
           /\ Cardinality(Chances(g, e)) \in Nat /\ Unsent(e) \in {0, 1}
<1>1. Len(stream) \in Nat /\ DOMAIN stream = 1 .. Len(stream)
  BY LenProperties DEF Shape, BusOk
<1>2. IsFiniteSet(1 .. Len(stream)) /\ Chances(g, e) \in SUBSET (1 .. Len(stream))
  BY <1>1, FS_Interval DEF Chances
<1> QED
  BY <1>2, FS_Subset, FS_CardinalityType DEF Shape, RowsOk, Unsent

\* One entry more at most.
LEMMA OneMore ==
    ASSUME Shape, NEW g \in Groups, NEW e \in Events, NEW x,
           NEW C, C \subseteq Chances(g, e) \cup {x}
    PROVE  Cardinality(C) \in Nat /\ Cardinality(C) <= Cardinality(Chances(g, e)) + 1
<1> DEFINE D == Chances(g, e)
<1>1. IsFiniteSet(D) /\ Cardinality(D) \in Nat
  BY TallyTypes
<1> HIDE DEF D
<1>2. IsFiniteSet(D \cup {x}) /\ Cardinality(D \cup {x}) <= Cardinality(D) + 1
  <2>1. /\ IsFiniteSet(D \cup {x})
        /\ Cardinality(D \cup {x}) = IF x \in D THEN Cardinality(D) ELSE Cardinality(D) + 1
    BY <1>1, FS_AddElement
  <2> QED
    BY <1>1, <2>1
<1>3. C \in SUBSET (D \cup {x})
  BY DEF D
<1>4. IsFiniteSet(C) /\ Cardinality(C) <= Cardinality(D \cup {x})
  BY <1>2, <1>3, FS_Subset
<1> QED
  BY <1>1, <1>2, <1>4, FS_CardinalityType DEF D

LEMMA NoMore ==
    ASSUME Shape, NEW g \in Groups, NEW e \in Events, NEW C, C \subseteq Chances(g, e)
    PROVE  Cardinality(C) \in Nat /\ Cardinality(C) <= Cardinality(Chances(g, e))
<1> DEFINE D == Chances(g, e)
<1>1. IsFiniteSet(D) /\ Cardinality(D) \in Nat
  BY TallyTypes
<1> HIDE DEF D
<1>2. C \in SUBSET D
  BY DEF D
<1> QED
  BY <1>1, <1>2, FS_Subset, FS_CardinalityType DEF D

LEMMA OneFewer ==
    ASSUME Shape, NEW g \in Groups, NEW e \in Events, NEW x \in Chances(g, e),
           NEW C, C \subseteq Chances(g, e) \ {x}
    PROVE  Cardinality(C) \in Nat /\ Cardinality(C) + 1 <= Cardinality(Chances(g, e))
<1> DEFINE D == Chances(g, e)
<1>1. IsFiniteSet(D) /\ Cardinality(D) \in Nat /\ x \in D
  BY TallyTypes
<1> HIDE DEF D
<1>2. IsFiniteSet(D \ {x}) /\ Cardinality(D \ {x}) = Cardinality(D) - 1
  BY <1>1, FS_RemoveElement
<1>3. C \in SUBSET (D \ {x})
  BY DEF D
<1>4. IsFiniteSet(C) /\ Cardinality(C) <= Cardinality(D \ {x})
  BY <1>2, <1>3, FS_Subset
<1> QED
  BY <1>1, <1>2, <1>4, FS_CardinalityType DEF D

\* The tally, however a step changes its parts.
LEMMA Balance ==
    ASSUME TallyInv, NEW g \in Groups, NEW e \in Events,
           NEW w \in Int, NEW c \in Int, NEW u \in Int, NEW a \in Int,
           woken'[g][e] = woken[g][e] + w,
           Cardinality(Chances(g, e)') \in Nat,
           Cardinality(Chances(g, e)') <= Cardinality(Chances(g, e)) + c,
           Unsent(e)' <= Unsent(e) + u, Allowed' = Allowed + a, w + c + u <= a
    PROVE  Tally(g, e)' <= Allowed'
<1>1. /\ woken[g][e] \in Nat /\ Cardinality(Chances(g, e)) \in Nat /\ Unsent(e) \in {0, 1}
      /\ Tally(g, e) <= Allowed /\ Allowed \in Nat
  BY TallyTypes DEF TallyInv, FaultsOk, Allowed
<1>2. Unsent(e)' \in {0, 1}
  BY DEF Unsent
<1>3. Tally(g, e)' = woken'[g][e] + Cardinality(Chances(g, e)') + Unsent(e)'
  BY DEF Tally
<1>4. Tally(g, e) = woken[g][e] + Cardinality(Chances(g, e)) + Unsent(e)
  BY DEF Tally
<1> DEFINE c0 == Cardinality(Chances(g, e))
           c1 == Cardinality(Chances(g, e)')
           u0 == Unsent(e)
           u1 == Unsent(e)'
           w0 == woken[g][e]
<1> HIDE DEF c0, c1, u0, u1, w0
<1>5. /\ w0 \in Nat /\ c0 \in Nat /\ c1 \in Nat /\ u0 \in {0, 1} /\ u1 \in {0, 1}
      /\ c1 <= c0 + c /\ u1 <= u0 + u /\ w0 + c0 + u0 <= Allowed
      /\ Tally(g, e)' = (w0 + w) + c1 + u1
  BY <1>1, <1>2, <1>3, <1>4 DEF c0, c1, u0, u1, w0
<1> QED
  BY <1>1, <1>5

\* The steps of the publisher that leave the stream alone.
LEMMA UnsentStep ==
    ASSUME TallyInv, NEW e \in Events
    PROVE  /\ SelectBatch \/ CommitBatch => Unsent(e)' = Unsent(e)
           /\ CommitFails \/ Crash => Unsent(e)' <= Unsent(e) + 1
           /\ PublishFails => Unsent(e)' = Unsent(e)
           /\ MarkDead => Unsent(e)' <= Unsent(e)
<1>1. Unsent(e) \in {0, 1} /\ Unsent(e)' \in {0, 1}
  BY DEF Unsent
<1>2. ASSUME SelectBatch \/ CommitBatch PROVE Unsent(e)' = Unsent(e)
  <2>1. (published \cup dead \cup outbox.marked)' = published \cup dead \cup outbox.marked
    <3>1. CASE SelectBatch
      BY <3>1, IdleBatch DEF SelectBatch, rows
    <3>2. CASE CommitBatch
      BY <3>2, IdleBatch DEF CommitBatch
    <3> QED
      BY <1>2, <3>1, <3>2
  <2> QED
    BY <2>1 DEF Unsent
<1>3. ASSUME PublishFails PROVE Unsent(e)' = Unsent(e)
  <2>1. outbox'.marked = outbox.marked /\ UNCHANGED <<published, dead>>
    BY <1>3 DEF PublishFails, TallyInv, Shape, OutboxOk, rows
  <2> QED
    BY <2>1 DEF Unsent
<1>4. ASSUME MarkDead PROVE Unsent(e)' <= Unsent(e)
  BY <1>4 DEF MarkDead, Unsent
<1> QED
  BY <1>1, <1>2, <1>3, <1>4

\* The current message, of a group that handles it or has handled it.
LEMMA CurrentWaits ==
    ASSUME Shape, NEW h \in Groups, batch.group = {h}, batch.pc \in {"handling", "acking"}
    PROVE  /\ Msg.pos \in DOMAIN stream /\ stream[Msg.pos] = EventAt /\ EventAt \in Events
           /\ Msg.pos \in Pending(h) /\ Waiting(h, Msg.pos) /\ ~(Msg.pos > cursor[h])
<1>1. /\ Msg.pos \in DOMAIN stream /\ Msg.pos \in 1 .. cursor[h] /\ EventAt \in Events
      /\ Msg.pos \in Pending(h)
  BY CurrentEntry
<1>2. cursor[h] \in Nat
  BY DEF Shape, BusOk
<1> QED
  BY <1>1, <1>2 DEF EventAt, Waiting

\* The handler's return takes one chance for the run it makes.
LEMMA HandleTally ==
    ASSUME TallyInv, NEW g \in Groups, NEW e \in Events, NEW h \in Groups, Handle(h)
    PROVE  Tally(g, e)' <= Allowed'
<1>1. /\ batch' = [batch EXCEPT !.pc = "acking"] /\ batch.group = {h}
      /\ batch.pc = "handling" /\ UNCHANGED <<stream, cursor, unacked>>
      /\ UNCHANGED <<published, dead, outbox, faults>>
  BY DEF Handle, Handling, bus
<1>2. batch'.pc = "acking" /\ Msg' = Msg /\ batch'.group = {h}
  BY <1>1, HandleStep DEF TallyInv, Shape
<1>3. /\ Msg.pos \in DOMAIN stream /\ stream[Msg.pos] = EventAt /\ EventAt \in Events
      /\ Waiting(h, Msg.pos)
  BY <1>1, CurrentWaits DEF TallyInv
<1>4. Handled(g) = {} /\ Handled(h)' = {Msg.pos}
  BY <1>1, <1>2 DEF Handled
<1>5. \A p \in DOMAIN stream : Waiting(g, p)' <=> Waiting(g, p)
  BY <1>1 DEF Waiting, Pending
<1>6. Unsent(e)' = Unsent(e) /\ Allowed' = Allowed
  BY <1>1 DEF Unsent, Allowed
<1>7. Unsent(e) \in {0, 1} /\ woken[g][e] \in Nat /\ Allowed \in Nat
  BY TallyTypes DEF TallyInv, Allowed, FaultsOk
<1> DEFINE k == IF <<h, EventAt>> \in Wants THEN 1 ELSE 0
           x == EventAt
<1>8. woken' = [woken EXCEPT ![h][x] = @ + k] /\ k \in {0, 1}
  BY DEF Handle
<1>9. x \in Events /\ woken \in [Groups -> [Events -> Nat]]
  BY <1>3 DEF TallyInv, Shape, RowsOk
<1> HIDE DEF k
<1>10. CASE g = h /\ e = EventAt
  <2>1. woken'[g][e] = woken[g][e] + k
    BY <1>8, <1>9, <1>10
  <2>2. Msg.pos \in Chances(g, e)
    BY <1>3, <1>4, <1>10 DEF Chances
  <2>3. Chances(g, e)' \subseteq Chances(g, e) \ {Msg.pos}
    BY <1>1, <1>4, <1>5, <1>10 DEF Chances
  <2>4. /\ Cardinality(Chances(g, e)') \in Nat
        /\ Cardinality(Chances(g, e)') + 1 <= Cardinality(Chances(g, e))
    BY <2>2, <2>3, OneFewer DEF TallyInv
  <2>5. Cardinality(Chances(g, e)) \in Nat
    BY TallyTypes DEF TallyInv
  <2>6. Cardinality(Chances(g, e)') <= Cardinality(Chances(g, e)) + (-1)
    BY <2>4, <2>5
  <2>7. Unsent(e)' <= Unsent(e) + 0 /\ Allowed' = Allowed + 0 /\ k \in Int /\ -1 \in Int
        /\ k + (-1) + 0 <= 0
    BY <1>6, <1>7, <1>8
  <2> DEFINE c == -1
  <2>8. c \in Int /\ k + c + 0 <= 0 /\ Cardinality(Chances(g, e)') <= Cardinality(Chances(g, e)) + c
    BY <2>6, <2>7
  <2> HIDE DEF c
  <2> QED
    BY <2>1, <2>4, <2>7, <2>8, Balance
<1>11. CASE ~(g = h /\ e = EventAt)
  <2>1. woken'[g][e] = woken[g][e] + 0
    <3>1. woken'[g][e] = woken[g][e]
      BY <1>8, <1>9, <1>11
    <3> QED
      BY <1>7, <3>1
  <2>2. Chances(g, e)' \subseteq Chances(g, e)
    BY <1>1, <1>4, <1>5 DEF Chances
  <2>3. /\ Cardinality(Chances(g, e)') \in Nat
        /\ Cardinality(Chances(g, e)') <= Cardinality(Chances(g, e)) + 0
    <3>1. Cardinality(Chances(g, e)) \in Nat
      BY TallyTypes DEF TallyInv
    <3> QED
      BY <2>2, <3>1, NoMore DEF TallyInv
  <2> QED
    BY <1>6, <1>7, <2>1, <2>3, Balance
<1> QED
  BY <1>10, <1>11

\* A step that makes no run.
LEMMA TallyKept ==
    ASSUME TallyInv, NEW g \in Groups, NEW e \in Events, NEW X, NEW u \in Int, NEW a \in Int,
           woken' = woken, Unsent(e)' <= Unsent(e) + u, Allowed' = Allowed + a,
           \/ Chances(g, e)' \subseteq Chances(g, e) /\ u <= a
           \/ Chances(g, e)' \subseteq Chances(g, e) \cup {X} /\ u + 1 <= a
    PROVE  Tally(g, e)' <= Allowed'
<1>1. woken[g][e] \in Nat /\ Cardinality(Chances(g, e)) \in Nat /\ Shape
  BY TallyTypes DEF TallyInv
<1>2. woken'[g][e] = woken[g][e] + 0
  BY <1>1
<1>3. CASE Chances(g, e)' \subseteq Chances(g, e) /\ u <= a
  <2>1. /\ Cardinality(Chances(g, e)') \in Nat
        /\ Cardinality(Chances(g, e)') <= Cardinality(Chances(g, e)) + 0
    BY <1>1, <1>3, NoMore
  <2> DEFINE z == 0
  <2>2. /\ z \in Int /\ z + z + u <= a /\ woken'[g][e] = woken[g][e] + z
        /\ Cardinality(Chances(g, e)') <= Cardinality(Chances(g, e)) + z
    BY <1>2, <1>3, <2>1
  <2> HIDE DEF z
  <2> QED
    BY <2>1, <2>2, Balance
<1>4. CASE Chances(g, e)' \subseteq Chances(g, e) \cup {X} /\ u + 1 <= a
  <2>1. /\ Cardinality(Chances(g, e)') \in Nat
        /\ Cardinality(Chances(g, e)') <= Cardinality(Chances(g, e)) + 1
    BY <1>1, <1>4, OneMore
  <2> DEFINE z == 0
             c == 1
  <2>2. /\ z \in Int /\ c \in Int /\ z + c + u <= a /\ woken'[g][e] = woken[g][e] + z
        /\ Cardinality(Chances(g, e)') <= Cardinality(Chances(g, e)) + c
    BY <1>2, <1>4, <2>1
  <2> HIDE DEF z, c
  <2> QED
    BY <2>1, <2>2, Balance
<1> QED
  BY <1>3, <1>4

\* What may still be handled when the stream stays as it is.
LEMMA ChancesFrom ==
    ASSUME NEW g \in Groups, NEW e \in Events, NEW X, UNCHANGED stream,
           \A p \in DOMAIN stream : Waiting(g, p)' => Waiting(g, p),
           \A p \in Handled(g) : p \in Handled(g)' \/ p \in X \/ ~Waiting(g, p)'
    PROVE  Chances(g, e)' \subseteq Chances(g, e) \cup X
BY DEF Chances

\* The publisher, and the runs that record.
LEMMA PublisherTally ==
    ASSUME TallyInv, NEW g \in Groups, NEW e \in Events,
           \/ Publish \/ PublishFails \/ CommitFails \/ UNCHANGED vars
           \/ \E d \in Events : Record(d)
    PROVE  Tally(g, e)' <= Allowed'
<1>1. /\ UNCHANGED <<woken, cursor, unacked, batch>>
      /\ Shape /\ FaultsOk /\ Allowed \in Nat /\ Unsent(e) \in {0, 1}
  BY TallyTypes DEF Publish, SelectBatch, PublishOne, CommitBatch, PublishFails, CommitFails,
                    Record, vars, rows, bus, TallyInv, Allowed, FaultsOk
<1>2. ASSUME UNCHANGED stream PROVE Chances(g, e)' \subseteq Chances(g, e)
  <2>1. Msg' = Msg
    BY <1>1 DEF Msg
  <2> QED
    BY <1>1, <1>2, <2>1 DEF Chances, Waiting, Pending, Handled
<1>3. CASE SelectBatch \/ CommitBatch \/ UNCHANGED vars \/ \E d \in Events : Record(d)
  <2>1. UNCHANGED <<stream, faults>>
    BY <1>3 DEF SelectBatch, CommitBatch, Record, vars, bus
  <2>2. Unsent(e)' = Unsent(e)
    <3>1. CASE SelectBatch \/ CommitBatch
      BY <3>1, UnsentStep
    <3>2. CASE UNCHANGED vars \/ \E d \in Events : Record(d)
      BY <3>2 DEF Record, vars, rows, Unsent
    <3> QED
      BY <1>3, <3>1, <3>2
  <2>3. Allowed' = Allowed + 0 /\ Unsent(e)' <= Unsent(e) + 0
    BY <1>1, <2>1, <2>2 DEF Allowed
  <2> QED
    BY <1>1, <1>2, <2>1, <2>3, TallyKept
<1>4. CASE CommitFails
  <2>1. UNCHANGED stream /\ Fault("commit")
    BY <1>4 DEF CommitFails, bus
  <2>2. Allowed' = Allowed + 1
    BY <1>1, <2>1, FaultCounted
  <2>3. Unsent(e)' <= Unsent(e) + 1
    BY <1>4, UnsentStep
  <2> QED
    BY <1>1, <1>2, <2>1, <2>2, <2>3, TallyKept
<1>5. ASSUME outbox.todo # <<>>, stream' = Append(stream, Head(outbox.todo))
      PROVE  /\ Chances(g, e)' \subseteq Chances(g, e) \cup {Len(stream) + 1}
             /\ e # Head(outbox.todo) => Chances(g, e)' \subseteq Chances(g, e)
  <2>1. stream \in Seq(Events) /\ Head(outbox.todo) \in Events
    BY <1>1, <1>5, NextRow DEF Shape, BusOk
  <2>2. /\ Len(stream) \in Nat /\ DOMAIN stream = 1 .. Len(stream)
        /\ DOMAIN stream' = 1 .. Len(stream) + 1
        /\ \A p \in 1 .. Len(stream) : stream'[p] = stream[p]
        /\ stream'[Len(stream) + 1] = Head(outbox.todo)
    <3>1. /\ stream' \in Seq(Events) /\ Len(stream') = Len(stream) + 1
          /\ DOMAIN stream' = 1 .. Len(stream) + 1
          /\ \A p \in 1 .. Len(stream) : stream'[p] = stream[p]
          /\ stream'[Len(stream) + 1] = Head(outbox.todo)
      BY <1>5, <2>1, Added
    <3> QED
      BY <2>1, <3>1, LenProperties
  <2>3. \A p \in 1 .. Len(stream) + 1 : p \in 1 .. Len(stream) \/ p = Len(stream) + 1
    BY <2>2
  <2>4. Msg' = Msg /\ Handled(g)' = Handled(g)
    BY <1>1 DEF Msg, Handled
  <2>5. \A p \in DOMAIN stream' : Waiting(g, p)' <=> Waiting(g, p)
    BY <1>1 DEF Waiting, Pending
  <2> QED
    BY <2>2, <2>3, <2>4, <2>5 DEF Chances
<1>6. CASE PublishOne
  <2>1. /\ outbox.todo # <<>> /\ stream' = Append(stream, Head(outbox.todo))
        /\ outbox' = [outbox EXCEPT !.todo = Tail(@),
                                    !.marked = @ \cup {Head(outbox.todo)}]
        /\ UNCHANGED <<published, dead, faults>>
    BY <1>6 DEF PublishOne, rows
  <2>2. outbox'.marked = outbox.marked \cup {Head(outbox.todo)}
    BY <1>1, <2>1 DEF Shape, OutboxOk
  <2>3. Allowed' = Allowed + 0
    BY <1>1, <2>1 DEF Allowed
  <2>4. CASE e = Head(outbox.todo)
    <3>1. e \notin published \cup dead \cup outbox.marked
      BY <1>1, <2>1, <2>4, NextRow DEF Shape
    <3>2. Unsent(e) = 1 /\ Unsent(e)' = 0
      BY <2>1, <2>2, <2>4, <3>1 DEF Unsent
    <3> DEFINE u == -1
               a == 0
    <3>3. /\ u \in Int /\ a \in Int /\ Unsent(e)' <= Unsent(e) + u /\ u + 1 <= a
          /\ Allowed' = Allowed + a
      BY <2>3, <3>2
    <3>4. Chances(g, e)' \subseteq Chances(g, e) \cup {Len(stream) + 1} /\ woken' = woken
      BY <1>1, <1>5, <2>1
    <3> HIDE DEF u, a
    <3> QED
      BY <3>3, <3>4, TallyKept
  <2>5. CASE e # Head(outbox.todo)
    <3>1. Unsent(e)' = Unsent(e)
      BY <2>1, <2>2, <2>5 DEF Unsent
    <3>2. Unsent(e)' <= Unsent(e) + 0
      BY <1>1, <3>1
    <3>3. Chances(g, e)' \subseteq Chances(g, e) /\ woken' = woken
      BY <1>1, <1>5, <2>1, <2>5
    <3> QED
      BY <2>3, <3>2, <3>3, TallyKept
  <2> QED
    BY <2>4, <2>5
<1>7. CASE PublishFails
  <2>1. /\ outbox.todo # <<>> /\ Fault("publish")
        /\ stream' = stream \/ stream' = Append(stream, Head(outbox.todo))
    BY <1>7 DEF PublishFails
  <2>2. Allowed' = Allowed + 1
    BY <1>1, <2>1, FaultCounted
  <2>3. Unsent(e)' <= Unsent(e) + 0
    BY <1>1, <1>7, UnsentStep
  <2>4. Chances(g, e)' \subseteq Chances(g, e) \cup {Len(stream) + 1} /\ woken' = woken
    BY <1>1, <1>2, <1>5, <2>1
  <2> DEFINE u == 0
             a == 1
  <2>5. /\ u \in Int /\ a \in Int /\ u + 1 <= a
        /\ Unsent(e)' <= Unsent(e) + u /\ Allowed' = Allowed + a
    BY <2>2, <2>3
  <2> HIDE DEF u, a
  <2> QED
    BY <2>4, <2>5, TallyKept
<1> QED
  BY <1>3, <1>4, <1>6, <1>7 DEF Publish

\* The consumer, but for the handler's return.
LEMMA ConsumerTally ==
    ASSUME TallyInv, NEW g \in Groups, NEW e \in Events, NEW h \in Groups,
           \/ Reclaim(h) \/ Consume(h) \/ ConsumeLost(h) \/ Ack(h) \/ DeadLetter(h)
           \/ HandlerFails(h) \/ DeadLetterFails(h)
    PROVE  Tally(g, e)' <= Allowed'
<1>1. /\ UNCHANGED <<woken, stream, published, dead, outbox>>
      /\ Shape /\ FaultsOk /\ Allowed \in Nat /\ Unsent(e) \in {0, 1}
  BY TallyTypes DEF Reclaim, Consume, ConsumeLost, Ack, DeadLetter, HandlerFails,
                    DeadLetterFails, rows, bus, TallyInv, Allowed, FaultsOk
<1>2. Unsent(e)' <= Unsent(e) + 0
  <2>1. Unsent(e)' = Unsent(e)
    BY <1>1 DEF Unsent
  <2> QED
    BY <1>1, <2>1
<1>3. Allowed' = Allowed + 0 \/ Allowed' = Allowed + 1
  <2>1. CASE UNCHANGED faults
    BY <1>1, <2>1 DEF Allowed
  <2>2. CASE Fault("handler") \/ Fault("dlq") \/ Fault("read")
    BY <1>1, <2>2, FaultCounted
  <2> QED
    BY <2>1, <2>2 DEF Reclaim, Consume, ConsumeLost, Ack, DeadLetter, HandlerFails, DeadLetterFails
<1>4. \A p \in DOMAIN stream : Waiting(g, p)' => Waiting(g, p)
  <2>1. CASE Reclaim(h)
    BY <1>1, <2>1, ReclaimStep DEF Shape, Waiting, Reclaim
  <2>2. CASE Consume(h) \/ ConsumeLost(h)
    <3>1. /\ Pending(h)' = Pending(h) \cup Fresh(h)
          /\ \A i \in Groups : i # h => Pending(i)' = Pending(i) /\ cursor'[i] = cursor[i]
          /\ cursor'[h] = cursor[h] + Cardinality(Fresh(h))
      BY <1>1, <2>2, ConsumeStep, ConsumeLostStep DEF Shape
    <3>2. CASE g # h
      BY <3>1, <3>2 DEF Waiting
    <3>3. CASE g = h
      <4>1. /\ Cardinality(Fresh(g)) \in Nat /\ cursor[g] \in Nat
            /\ Fresh(g) = cursor[g] + 1 .. cursor[g] + Cardinality(Fresh(g))
        BY <1>1, FreshIsNext DEF Shape
      <4>2. \A p \in DOMAIN stream : p \in Nat
        BY <1>1, LenProperties DEF Shape, BusOk
      <4>3. \A p \in DOMAIN stream : p > cursor'[g] \/ p \in Fresh(g) => p > cursor[g]
        BY <3>1, <3>3, <4>1, <4>2
      <4> QED
        BY <3>1, <3>3, <4>3 DEF Waiting
    <3> QED
      BY <3>2, <3>3
  <2>3. CASE Ack(h) \/ DeadLetter(h)
    <3>1. unacked' = Acked(h) /\ UNCHANGED cursor
      BY <2>3 DEF Ack, DeadLetter
    <3>2. /\ Pending(h)' = Pending(h) \ {Msg.pos}
          /\ \A i \in Groups : i # h => Pending(i)' = Pending(i)
      BY <1>1, <3>1, Acknowledges DEF Shape
    <3> QED
      BY <3>1, <3>2 DEF Waiting
  <2>4. CASE HandlerFails(h) \/ DeadLetterFails(h)
    BY <2>4 DEF HandlerFails, DeadLetterFails, bus, Waiting, Pending
  <2> QED
    BY <2>1, <2>2, <2>3, <2>4
<1>5. \A p \in Handled(g) : ~Waiting(g, p)'
  <2>1. CASE Ack(h)
    <3>1. /\ batch.pc = "acking" /\ batch.group = {h}
          /\ unacked' = Acked(h) /\ UNCHANGED cursor
      BY <2>1 DEF Ack
    <3>2. Pending(h)' = Pending(h) \ {Msg.pos}
      BY <1>1, <3>1, Acknowledges DEF Shape
    <3>3. ~(Msg.pos > cursor[h])
      BY <1>1, <3>1, CurrentWaits
    <3> SUFFICES ASSUME NEW p \in Handled(g) PROVE ~Waiting(g, p)'
      OBVIOUS
    <3>4. g = h /\ p = Msg.pos
      BY <3>1 DEF Handled
    <3> QED
      BY <3>1, <3>2, <3>3, <3>4 DEF Waiting
  <2>2. CASE ~Ack(h)
    <3>1. batch.pc # "acking"
      BY <2>2, IdleBatch DEF Reclaim, Consume, ConsumeLost, DeadLetter, HandlerFails,
                             DeadLetterFails, Handling
    <3> QED
      BY <3>1 DEF Handled
  <2> QED
    BY <2>1, <2>2
<1>6. Chances(g, e)' \subseteq Chances(g, e)
  <2>1. Chances(g, e)' \subseteq Chances(g, e) \cup {}
    BY <1>1, <1>4, <1>5, ChancesFrom
  <2> QED
    BY <2>1
<1>7. CASE Allowed' = Allowed + 0
  BY <1>1, <1>2, <1>6, <1>7, TallyKept
<1>8. CASE Allowed' = Allowed + 1
  BY <1>1, <1>2, <1>6, <1>8, TallyKept
<1> QED
  BY <1>3, <1>7, <1>8

\* The failures that give a batch up, and the death of the process.
LEMMA FailureTally ==
    ASSUME TallyInv, NEW g \in Groups, NEW e \in Events,
           ConsumeFails \/ AckFails \/ MarkDead \/ MarkFails \/ Crash
    PROVE  Tally(g, e)' <= Allowed'
<1>1. UNCHANGED woken /\ Shape /\ FaultsOk /\ Allowed \in Nat /\ Unsent(e) \in {0, 1}
  BY TallyTypes DEF ConsumeFails, AckFails, MarkDead, MarkFails, Crash,
                    rows, TallyInv, Allowed, FaultsOk
<1>2. ASSUME UNCHANGED <<stream, cursor, unacked>>
      PROVE  Chances(g, e)' \subseteq Chances(g, e) \cup Handled(g)
  <2>1. \A p \in DOMAIN stream : Waiting(g, p)' => Waiting(g, p)
    BY <1>2 DEF Waiting, Pending
  <2>2. \A p \in Handled(g) : p \in Handled(g)' \/ p \in Handled(g) \/ ~Waiting(g, p)'
    OBVIOUS
  <2> QED
    BY <1>2, <2>1, <2>2, ChancesFrom
<1>3. Handled(g) \subseteq {Msg.pos} /\ (batch.pc # "acking" => Handled(g) = {})
  BY DEF Handled
<1>4. CASE ConsumeFails \/ MarkFails
  <2>1. /\ UNCHANGED <<stream, cursor, unacked, published, dead, outbox>>
        /\ batch.pc # "acking" /\ (Fault("read") \/ Fault("mark"))
    BY <1>4 DEF ConsumeFails, MarkFails, rows, bus
  <2>2. Allowed' = Allowed + 1
    BY <1>1, <2>1, FaultCounted
  <2>3. Unsent(e)' = Unsent(e)
    BY <2>1 DEF Unsent
  <2>4. Unsent(e)' <= Unsent(e) + 0
    BY <1>1, <2>3
  <2> QED
    BY <1>1, <1>2, <1>3, <2>1, <2>2, <2>4, TallyKept
<1>5. CASE MarkDead
  <2>1. UNCHANGED <<stream, cursor, unacked, faults>> /\ batch.pc # "acking"
    BY <1>5 DEF MarkDead, bus
  <2>2. Allowed' = Allowed + 0
    BY <1>1, <2>1 DEF Allowed
  <2>3. Unsent(e)' <= Unsent(e)
    BY <1>5, UnsentStep
  <2>4. Unsent(e)' <= Unsent(e) + 0
    BY <1>1, <2>3
  <2>5. Chances(g, e)' \subseteq Chances(g, e)
    BY <1>2, <1>3, <2>1
  <2> QED
    BY <1>1, <2>2, <2>4, <2>5, TallyKept
<1>6. CASE AckFails
  <2>1. /\ UNCHANGED <<stream, cursor, unacked, published, dead, outbox>>
        /\ Fault("ack")
    BY <1>6 DEF AckFails, rows, bus
  <2>2. Allowed' = Allowed + 1
    BY <1>1, <2>1, FaultCounted
  <2>3. Unsent(e)' = Unsent(e)
    BY <2>1 DEF Unsent
  <2>4. Unsent(e)' <= Unsent(e) + 0
    BY <1>1, <2>3
  <2>5. Chances(g, e)' \subseteq Chances(g, e) \cup {Msg.pos}
    BY <1>2, <1>3, <2>1
  <2> QED
    BY <1>1, <2>2, <2>4, <2>5, TallyKept
<1>7. CASE Crash
  <2>1. Fault("crash")
    BY <1>7 DEF Crash
  <2>2. Allowed' = Allowed + 2
    BY <1>1, <2>1, FaultCounted
  <2>3. Unsent(e)' <= Unsent(e) + 1
    BY <1>7, UnsentStep
  <2>4. Chances(g, e)' \subseteq Chances(g, e) \cup {Msg.pos}
    <3>1. CASE Backend = "redis"
      <4>1. UNCHANGED <<stream, cursor, unacked>>
        BY <1>7, <3>1 DEF Crash, bus
      <4> QED
        BY <1>2, <1>3, <4>1
    <3>2. CASE Backend # "redis"
      <4>1. stream' = <<>>
        BY <1>7, <3>2 DEF Crash
      <4>2. DOMAIN <<>> = {}
        BY EmptySeq, LenProperties
      <4> QED
        BY <4>1, <4>2 DEF Chances
    <3> QED
      BY <3>1, <3>2
  <2> QED
    BY <1>1, <2>2, <2>3, <2>4, TallyKept
<1> QED
  BY <1>4, <1>5, <1>6, <1>7

LEMMA FaultOrNot == [Next]_vars => UNCHANGED faults \/ \E f \in AllFaults : Fault(f)
<1> SUFFICES ASSUME [Next]_vars PROVE UNCHANGED faults \/ \E f \in AllFaults : Fault(f)
  OBVIOUS
<1>1. CASE Failure
  BY <1>1 DEF Failure, PublishFails, CommitFails, ConsumeFails, AckFails, MarkFails, Crash,
              ConsumeLost, HandlerFails, DeadLetterFails, AllFaults
<1>2. CASE Publish \/ MarkDead \/ UNCHANGED vars \/ \E e \in Events : Record(e)
  BY <1>2 DEF Publish, SelectBatch, PublishOne, CommitBatch, MarkDead, Record, vars
<1>3. ASSUME NEW g \in Groups, Reclaim(g) \/ Work(g) PROVE UNCHANGED faults
  BY <1>3 DEF Work, Reclaim, Consume, Handle, Ack, DeadLetter
<1> QED
  BY <1>1, <1>2, <1>3 DEF Next

LEMMA FaultsStep ==
    ASSUME FaultsOk, [Next]_vars
    PROVE  FaultsOk'
<1>1. CASE UNCHANGED faults
  BY <1>1 DEF FaultsOk
<1>2. CASE \E f \in AllFaults : Fault(f)
  BY <1>2, FaultCounted
<1>3. UNCHANGED faults \/ \E f \in AllFaults : Fault(f)
  BY FaultOrNot
<1> QED
  BY <1>1, <1>2, <1>3

LEMMA TallyStep ==
    ASSUME TallyInv, [Next]_vars
    PROVE  TallyInv'
<1>1. Shape' /\ FaultsOk'
  BY ShapeStep, FaultsStep DEF TallyInv
<1>2. ASSUME NEW g \in Groups, NEW e \in Events PROVE Tally(g, e)' <= Allowed'
  BY PublisherTally, ConsumerTally, FailureTally, HandleTally DEF Next, Work, Failure
<1> QED
  BY <1>1, <1>2 DEF TallyInv

\* Each failure costs a subscriber one run too many for an event, a crash two:
\* for any number of groups, events and failures, on either bus, and whether or
\* not the event was dead-lettered or retried in between.
THEOREM DuplicatesEarnedHolds == Spec => []DuplicatesEarned
<1>1. Init => TallyInv
  <2> SUFFICES ASSUME Init PROVE TallyInv
    OBVIOUS
  <2>1. DOMAIN <<>> = {} /\ Cardinality({}) = 0
    BY EmptySeq, LenProperties, FS_EmptySet
  <2>2. FaultsOk /\ Allowed = 1
    BY DEF Init, FaultsOk, Allowed
  <2>3. ASSUME NEW g \in Groups, NEW e \in Events PROVE Tally(g, e) <= Allowed
    <3>1. Chances(g, e) = {}
      BY <2>1 DEF Init, Chances
    <3>2. woken[g][e] = 0
      BY DEF Init
    <3>3. Unsent(e) = 1
      BY IdleBatch DEF Init, Unsent
    <3> QED
      BY <2>1, <2>2, <3>1, <3>2, <3>3 DEF Tally
  <2> QED
    BY <2>2, <2>3, ShapeInit DEF TallyInv
<1>2. TallyInv /\ [Next]_vars => TallyInv'
  BY TallyStep
<1>3. TallyInv => DuplicatesEarned
  <2> SUFFICES ASSUME TallyInv, NEW g \in Groups, NEW e \in Events
               PROVE  woken[g][e] <= Allowed
    BY DEF DuplicatesEarned, Allowed
  <2>1. /\ woken[g][e] \in Nat /\ Cardinality(Chances(g, e)) \in Nat /\ Unsent(e) \in {0, 1}
        /\ Allowed \in Nat
    BY TallyTypes DEF TallyInv, Allowed, FaultsOk
  <2>2. woken[g][e] + Cardinality(Chances(g, e)) + Unsent(e) <= Allowed
    BY DEF TallyInv, Tally
  <2> QED
    BY <2>1, <2>2
<1> QED
  BY <1>1, <1>2, <1>3, PTL DEF Spec

-----------------------------------------------------------------------------
(* What a step does to the counters, as the two bounds on deliveries need it. *)

Fits == Len(stream) <= MaxEvents * (1 + MaxFaults)

CountersOk ==
    /\ delivered \in [Groups -> [Positions -> Nat]] /\ counter \in [Positions -> Nat]
    /\ tried \in [Groups -> [Positions -> Nat]]

\* The process was started again, and the bus lived in it.
Restarted ==
    /\ batch' = NoBatch /\ stream' = <<>> /\ dlq' = {} /\ Backend = "inproc"
    /\ delivered' = Zero /\ counter' = [p \in Positions |-> 0] /\ tried' = Zero

\* The publisher works, or the consumer gives its batch up.
Elsewhere ==
    /\ UNCHANGED <<delivered, counter, tried, dlq>>
    /\ stream' = stream \/ (Room /\ \E e \in Events : stream' = Append(stream, e))
    /\ batch' = batch \/ batch' = NoBatch

\* The consumer is at its first message.
Working(g) ==
    /\ batch.group = {g} /\ batch.pc # "reading"
    /\ UNCHANGED <<stream, delivered, counter>>
    /\ tried' = tried \/ (batch.pc = "handling" /\ ~TooOften /\ Call(g))
    /\ dlq' = dlq \/ (batch.pc = "handling" /\ TooOften /\ dlq' = dlq \cup {<<g, EventAt>>})
    /\ Caught \/ \E pc \in {"acking", "marking"} : batch' = [batch EXCEPT !.pc = pc]

LEMMA StepKinds ==
    ASSUME Shape, [Next]_vars
    PROVE  \/ Restarted \/ Elsewhere
           \/ \E g \in Groups : Working(g) \/ Reclaim(g) \/ Consume(g) \/ ConsumeLost(g)
<1>1. CASE PublishOne \/ PublishFails
  <2>1. outbox.todo # <<>>
    BY <1>1 DEF PublishOne, PublishFails
  <2>2. Head(outbox.todo) \in Events
    BY <2>1, NextRow DEF Shape
  <2> QED
    BY <1>1, <2>2 DEF PublishOne, PublishFails, Elsewhere
<1>2. CASE \/ SelectBatch \/ CommitBatch \/ CommitFails \/ ConsumeFails \/ UNCHANGED vars
           \/ \E e \in Events : Record(e)
  BY <1>2 DEF SelectBatch, CommitBatch, CommitFails, ConsumeFails, Record, vars, bus, Elsewhere
<1>3. CASE Crash
  BY <1>3, TwoBackends DEF Crash, bus, Restarted, Elsewhere
<1>4. ASSUME NEW g \in Groups, Handle(g) \/ HandlerFails(g) PROVE Working(g)
  BY <1>4 DEF Handle, HandlerFails, Handling, bus, Working
<1>5. ASSUME NEW g \in Groups, DeadLetter(g) \/ DeadLetterFails(g) PROVE Working(g)
  BY <1>5 DEF DeadLetter, DeadLetterFails, Handling, Working
<1>6. ASSUME NEW g \in Groups, Ack(g) PROVE Working(g)
  BY <1>6 DEF Ack, Caught, Working
<1>7. CASE AckFails \/ MarkDead \/ MarkFails
  <2>1. /\ batch.pc # "idle" /\ batch.pc # "reading" /\ Caught
        /\ UNCHANGED <<stream, delivered, counter, tried, dlq>>
    BY <1>7 DEF AckFails, MarkDead, MarkFails, Caught, bus
  <2>2. PICK g \in Groups : batch.group = {g}
    BY <2>1, SomeoneAtWork DEF Shape
  <2> QED
    BY <2>1, <2>2 DEF Working
<1> QED
  BY <1>1, <1>2, <1>3, <1>4, <1>5, <1>6, <1>7 DEF Next, Publish, Work, Failure

LEMMA RoomForAll == MaxEvents * (1 + MaxFaults) \in Nat
<1> DEFINE k == 1 + MaxFaults
<1>1. k \in Nat /\ MaxEvents \in Nat
  BY EventBound
<1> HIDE DEF k
<1>2. MaxEvents * k \in Nat
  BY <1>1
<1> QED
  BY <1>2 DEF k

LEMMA FitsStep ==
    ASSUME Shape, Fits, [Next]_vars
    PROVE  Fits'
<1>1. Len(stream) \in Nat /\ stream \in Seq(Events)
  BY LenProperties DEF Shape, BusOk
<1> DEFINE top == MaxEvents * (1 + MaxFaults)
<1>2. top \in Nat
  BY RoomForAll
<1>3. Len(stream) <= top
  BY DEF Fits
<1>4. ASSUME Room PROVE Len(stream) < top
  BY <1>4 DEF Room
<1> HIDE DEF top
<1>5. CASE Restarted
  <2>1. Len(stream') = 0
    BY <1>5, EmptySeq DEF Restarted
  <2> QED
    BY <1>2, <2>1 DEF Fits, top
<1>6. CASE Elsewhere
  <2>1. CASE stream' = stream
    BY <1>3, <2>1 DEF Fits, top
  <2>2. CASE stream' # stream
    <3>1. Len(stream') = Len(stream) + 1 /\ Room
      BY <1>1, <1>6, <2>2, Added DEF Elsewhere
    <3>2. Len(stream') <= top
      BY <1>1, <1>2, <1>4, <3>1
    <3> QED
      BY <3>2 DEF Fits, top
  <2> QED
    BY <2>1, <2>2
<1>7. ASSUME NEW g \in Groups, Working(g) \/ Reclaim(g) \/ Consume(g) \/ ConsumeLost(g) PROVE Fits'
  <2>1. stream' = stream
    BY <1>7 DEF Working, Reclaim, Consume, ConsumeLost
  <2> QED
    BY <1>3, <2>1 DEF Fits, top
<1> QED
  BY <1>5, <1>6, <1>7, StepKinds

\* The messages of a batch are of entries that have a counter.
LEMMA EntriesCounted ==
    ASSUME Shape, Fits
    PROVE  /\ DOMAIN stream \subseteq Positions
           /\ \A g \in Groups : 1 .. cursor[g] \subseteq DOMAIN stream
           /\ \A g \in Groups : batch.group = {g} => Within(batch.msgs, 1 .. cursor[g])
<1>1. Len(stream) \in Nat /\ DOMAIN stream = 1 .. Len(stream)
  BY LenProperties DEF Shape, BusOk
<1>2. DOMAIN stream \subseteq Positions
  <2> DEFINE top == MaxEvents * (1 + MaxFaults)
  <2>1. top \in Nat /\ Len(stream) <= top /\ Positions = 1 .. top
    BY RoomForAll DEF Fits, Positions
  <2> HIDE DEF top
  <2> QED
    BY <1>1, <2>1
<1>3. \A g \in Groups : cursor[g] \in Nat /\ cursor[g] <= Len(stream)
  BY DEF Shape, BusOk
<1>4. ASSUME NEW g \in Groups, batch.group = {g} PROVE Within(batch.msgs, 1 .. cursor[g])
  BY <1>4, AtWork DEF Shape, Busy
<1> QED
  BY <1>1, <1>2, <1>3, <1>4

\* What a delivery counts.
LEMMA DeliveryCounts ==
    ASSUME CountersOk, NEW g \in Groups, NEW P
    PROVE  /\ Again(g, P) \in [Groups -> [Positions -> Nat]]
           /\ Counted(P) \in [Positions -> Nat]
           /\ \A p \in Positions :
                 /\ Again(g, P)[g][p] = delivered[g][p] + (IF p \in P THEN 1 ELSE 0)
                 /\ Counted(P)[p] = counter[p] + (IF p \in P THEN 1 ELSE 0)
           /\ \A h \in Groups : h # g => Again(g, P)[h] = delivered[h]
<1> DEFINE new == [p \in Positions |-> delivered[g][p] + (IF p \in P THEN 1 ELSE 0)]
<1>1. delivered[g] \in [Positions -> Nat] /\ delivered \in [Groups -> [Positions -> Nat]]
  BY DEF CountersOk
<1>2. new \in [Positions -> Nat]
  BY <1>1
<1>3. Again(g, P) = [delivered EXCEPT ![g] = new]
  BY DEF Again
<1>4. \A p \in Positions : new[p] = delivered[g][p] + (IF p \in P THEN 1 ELSE 0)
  OBVIOUS
<1> HIDE DEF new
<1>5. counter \in [Positions -> Nat]
  BY DEF CountersOk
<1>6. Counted(P) \in [Positions -> Nat]
  BY <1>5 DEF Counted
<1> QED
  BY <1>1, <1>2, <1>3, <1>4, <1>6 DEF Counted

\* A call of the handler counts for the message alone.
LEMMA CallCounts ==
    ASSUME CountersOk, NEW g \in Groups, Call(g)
    PROVE  /\ tried' \in [Groups -> [Positions -> Nat]]
           /\ \A h \in Groups, p \in Positions :
                 tried'[h][p] = tried[h][p] + (IF h = g /\ p = Msg.pos THEN 1 ELSE 0)
<1> DEFINE f == tried[g]
           x == Msg.pos
           new == [f EXCEPT ![x] = f[x] + 1]
<1>1. tried' = [tried EXCEPT ![g] = new]
  BY DEF Call
<1>2. f \in [Positions -> Nat] /\ tried \in [Groups -> [Positions -> Nat]]
  BY DEF CountersOk
<1> HIDE DEF x
<1>3. new \in [Positions -> Nat] /\ \A p \in Positions : new[p] = f[p] + (IF p = x THEN 1 ELSE 0)
  <2> HIDE DEF f
  <2>1. \A p \in Positions : f[p] \in Nat
    BY <1>2
  <2>2. \A p \in Positions : f[p] + 1 \in Nat /\ f[p] + 0 = f[p]
    BY <2>1
  <2>3. \A p \in Positions : new[p] = (IF p = x THEN f[p] + 1 ELSE f[p])
    BY <1>2
  <2>4. DOMAIN new = Positions /\ new = [p \in Positions |-> new[p]]
    BY <1>2
  <2> HIDE DEF new
  <2>5. \A p \in Positions : new[p] \in Nat
    BY <2>1, <2>2, <2>3
  <2> QED
    BY <2>2, <2>3, <2>4, <2>5
<1> HIDE DEF new
<1> QED
  BY <1>1, <1>2, <1>3 DEF x

LEMMA CountersStep ==
    ASSUME Shape, CountersOk, [Next]_vars
    PROVE  CountersOk'
<1>1. CASE Restarted
  BY <1>1 DEF Restarted, Zero, CountersOk
<1>2. CASE Elsewhere
  BY <1>2 DEF Elsewhere, CountersOk
<1>3. ASSUME NEW g \in Groups, Working(g) PROVE CountersOk'
  BY <1>3, CallCounts DEF Working, CountersOk
<1>4. ASSUME NEW g \in Groups, Reclaim(g) \/ Consume(g) \/ ConsumeLost(g) PROVE CountersOk'
  <2>1. tried' = tried /\ \E P : delivered' = Again(g, P) /\ counter' = Counted(P)
    BY <1>4 DEF Reclaim, Consume, ConsumeLost, Deliver
  <2> QED
    BY <2>1, DeliveryCounts DEF CountersOk
<1> QED
  BY <1>1, <1>2, <1>3, <1>4, StepKinds

\* The messages the consumer may still hand to the handler.
Open(b) == {i \in DOMAIN b.msgs : b.pc \in {"reading", "handling"} \/ i # 1}

\* A message is the one the batch had, which no step has counted since, or it
\* was delivered by this step.
Carried(g, i, j) ==
    LET p == batch.msgs[j].pos
    IN  /\ batch.group = {g} /\ batch'.msgs[i] = batch.msgs[j]
        /\ delivered'[g][p] = delivered[g][p] /\ p \in Positions
        /\ i \in Open(batch') => j \in Open(batch) /\ tried'[g][p] = tried[g][p]

Brought(g, i, P) ==
    LET p == batch'.msgs[i].pos
    IN  /\ delivered' = Again(g, P) /\ counter' = Counted(P) /\ tried' = tried
        /\ p \in P /\ p \in Positions
        /\ batch'.msgs[i] = [pos |-> p, count |-> CountOf(g, P, p)]

LEMMA MessagesCounted ==
    ASSUME NEW g \in Groups, NEW P \in SUBSET Nat, IsFiniteSet(P)
    PROVE  \A i \in DOMAIN Messages(g, P) :
              LET p == Messages(g, P)[i].pos
              IN  p \in P /\ Messages(g, P)[i] = [pos |-> p, count |-> CountOf(g, P, p)]
<1> DEFINE o == Ordered(P)
<1>1. o \in Seq(P) /\ DOMAIN o = 1 .. Cardinality(P) /\ Cardinality(P) \in Nat
  BY OrderedEnumerates
<1>2. \A i \in DOMAIN o : o[i] \in P
  BY <1>1, LenProperties, ElementOfSeq
<1>3. Messages(g, P) = [i \in DOMAIN o |-> [pos |-> o[i], count |-> CountOf(g, P, o[i])]]
  BY DEF Messages
<1> HIDE DEF o
<1> QED
  BY <1>2, <1>3

LEMMA JoinedAt ==
    ASSUME NEW a, NEW b, \E S : a \in Seq(S), \E S : b \in Seq(S), NEW i \in DOMAIN (a \o b)
    PROVE  \/ i \in DOMAIN a /\ (a \o b)[i] = a[i]
           \/ \E j \in DOMAIN b : (a \o b)[i] = b[j]
<1>1. PICK A : a \in Seq(A)
  OBVIOUS
<1>2. PICK B : b \in Seq(B)
  OBVIOUS
<1>3. a \in Seq(A \cup B) /\ b \in Seq(A \cup B)
  BY <1>1, <1>2, SeqMonotonic
<1> DEFINE c == a \o b
           m == Len(a)
           n == Len(b)
<1>4. /\ m \in Nat /\ n \in Nat /\ DOMAIN a = 1 .. m /\ DOMAIN b = 1 .. n
      /\ DOMAIN c = 1 .. m + n
      /\ \A k \in 1 .. m + n : c[k] = IF k <= m THEN a[k] ELSE b[k - m]
  BY <1>3, ConcatProperties, LenProperties
<1> HIDE DEF c, m, n
<1>5. i \in DOMAIN c
  BY DEF c
<1>6. CASE i <= m
  BY <1>4, <1>5, <1>6 DEF c
<1>7. CASE ~(i <= m)
  <2>1. i - m \in DOMAIN b /\ c[i] = b[i - m]
    BY <1>4, <1>5, <1>7
  <2> QED
    BY <2>1 DEF c
<1> QED
  BY <1>6, <1>7

LEMMA MessageFrom ==
    ASSUME Shape, Fits, CountersOk, [Next]_vars, NEW g \in Groups, batch'.group = {g},
           NEW i \in DOMAIN batch'.msgs
    PROVE  \/ \E j \in DOMAIN batch.msgs : Carried(g, i, j)
           \/ \E P \in SUBSET Positions : Brought(g, i, P)
<1>1. batch' # NoBatch
  BY IdleBatch
<1>2. \A j \in DOMAIN batch.msgs : batch.group = {g} => batch.msgs[j].pos \in Positions
  BY EntriesCounted DEF Within
<1>3. CASE Elsewhere
  <2>1. batch' = batch /\ UNCHANGED <<delivered, tried>>
    BY <1>1, <1>3 DEF Elsewhere
  <2>2. Carried(g, i, i)
    BY <1>2, <2>1 DEF Carried, Open
  <2> QED
    BY <2>1, <2>2
<1>4. ASSUME NEW h \in Groups, Working(h)
      PROVE  \E j \in DOMAIN batch.msgs : Carried(g, i, j)
  <2>1. Busy(batch, h, Pending(h), cursor[h]) /\ batch.group = {h} /\ batch.pc # "reading"
    BY <1>4, AtWork DEF Shape, Working
  <2>2. DOMAIN batch = {"pc", "group", "msgs"} /\ batch.msgs # <<>> /\ Distinct(batch.msgs)
    BY <2>1 DEF Busy
  <2>3. PICK S : batch.msgs \in Seq(S)
    BY <2>1 DEF Busy
  <2>4. UNCHANGED delivered
    BY <1>4 DEF Working
  <2> DEFINE ms == batch.msgs
  <2>5. /\ Len(ms) \in Nat /\ Len(ms) >= 1 /\ DOMAIN ms = 1 .. Len(ms) /\ Msg = ms[1]
        /\ DOMAIN Tail(ms) = 1 .. Len(ms) - 1
        /\ \A k \in 1 .. Len(ms) - 1 : Tail(ms)[k] = ms[k + 1]
    BY <2>2, <2>3, HeadAndTail DEF Msg
  <2>6. \A j \in DOMAIN ms : j # 1 => ms[j].pos # Msg.pos
    BY <2>2, <2>5 DEF Distinct
  <2>7. ASSUME NEW j \in DOMAIN ms, j # 1, g = h PROVE tried'[g][ms[j].pos] = tried[g][ms[j].pos]
    <3> DEFINE p == ms[j].pos
    <3>1. p \in Positions /\ p # Msg.pos
      BY <1>2, <2>1, <2>6, <2>7
    <3>2. tried' = tried \/ Call(h)
      BY <1>4 DEF Working
    <3>3. tried[g][p] \in Nat
      BY <3>1 DEF CountersOk
    <3> HIDE DEF p
    <3>4. CASE Call(h)
      <4>1. tried'[g][p] = tried[g][p] + 0
        BY <3>1, <3>4, CallCounts
      <4> QED
        BY <3>3, <4>1 DEF p
    <3> QED
      BY <3>2, <3>4 DEF p
  <2>8. CASE Caught
    <3>1. batch' = [batch EXCEPT !.pc = "handling", !.msgs = Tail(@)]
      BY <1>1, <2>8 DEF Caught, Advance
    <3>2. batch'.msgs = Tail(ms) /\ batch'.group = {h}
      BY <2>1, <2>2, <3>1
    <3>3. g = h
      BY <3>2
    <3> HIDE DEF ms
    <3>4. i + 1 \in DOMAIN ms /\ i + 1 # 1 /\ batch'.msgs[i] = ms[i + 1]
      BY <2>5, <3>2
    <3>5. i + 1 \in Open(batch)
      BY <3>4 DEF Open, ms
    <3>6. ms[i + 1].pos \in Positions
      BY <1>2, <2>1, <3>3, <3>4 DEF ms
    <3>7. Carried(g, i, i + 1)
      BY <2>1, <2>4, <2>7, <3>3, <3>4, <3>5, <3>6 DEF Carried, ms
    <3> QED
      BY <3>4, <3>7 DEF ms
  <2>9. ASSUME NEW pc \in {"acking", "marking"}, batch' = [batch EXCEPT !.pc = pc]
        PROVE  \E j \in DOMAIN batch.msgs : Carried(g, i, j)
    <3>1. batch'.pc = pc /\ batch'.msgs = ms /\ batch'.group = {h}
      BY <2>1, <2>2, <2>9
    <3>2. g = h /\ i \in DOMAIN ms
      BY <3>1
    <3>3. i \in Open(batch') => i # 1
      BY <3>1 DEF Open
    <3>4. i # 1 => i \in Open(batch)
      BY <3>2 DEF Open
    <3>5. Carried(g, i, i)
      BY <1>2, <2>1, <2>4, <2>7, <3>1, <3>2, <3>3, <3>4 DEF Carried
    <3> QED
      BY <3>2, <3>5
  <2> QED
    BY <1>4, <2>8, <2>9 DEF Working
<1>5. ASSUME NEW h \in Groups, Reclaim(h)
      PROVE  \E P \in SUBSET Positions : Brought(g, i, P)
  <2>1. PICK P \in Reclaimable(h) :
           Deliver(h, P) /\ batch' = [pc |-> "reading", group |-> {h}, msgs |-> Messages(h, P)]
    BY <1>5 DEF Reclaim
  <2>2. g = h /\ batch'.msgs = Messages(h, P)
    BY <2>1
  <2>3. P \in SUBSET Pending(h)
    BY ReclaimsPending DEF Shape
  <2>4. cursor[h] \in Nat /\ P \in SUBSET (1 .. cursor[h])
    BY <2>3 DEF Shape, BusOk
  <2>5. IsFiniteSet(1 .. cursor[h])
    BY <2>4, FS_Interval
  <2>6. P \in SUBSET Nat /\ IsFiniteSet(P) /\ P \in SUBSET Positions
    <3>1. IsFiniteSet(P)
      BY <2>4, <2>5, FS_Subset
    <3>2. 1 .. cursor[h] \subseteq Positions
      BY EntriesCounted
    <3> QED
      BY <2>4, <3>1, <3>2
  <2>7. \A k \in DOMAIN Messages(h, P) :
           LET p == Messages(h, P)[k].pos
           IN  p \in P /\ Messages(h, P)[k] = [pos |-> p, count |-> CountOf(h, P, p)]
    BY <2>6, MessagesCounted
  <2>8. tried' = tried /\ delivered' = Again(h, P) /\ counter' = Counted(P)
    BY <1>5, <2>1 DEF Reclaim, Deliver
  <2>9. Brought(g, i, P)
    BY <2>2, <2>6, <2>7, <2>8 DEF Brought
  <2> QED
    BY <2>6, <2>9
<1>6. ASSUME NEW h \in Groups, Consume(h)
      PROVE  \/ \E j \in DOMAIN batch.msgs : Carried(g, i, j)
             \/ \E P \in SUBSET Positions : Brought(g, i, P)
  <2> DEFINE P == Fresh(h)
             m == Messages(h, P)
             all == batch.msgs \o m
  <2>1. /\ batch.pc = "reading" /\ batch.group = {h} /\ Deliver(h, P) /\ tried' = tried
        /\ batch' = [batch EXCEPT !.pc = "handling", !.msgs = all]
    BY <1>1, <1>6 DEF Consume
  <2>2. Busy(batch, h, Pending(h), cursor[h])
    BY <2>1, AtWork DEF Shape
  <2>3. batch'.msgs = all /\ batch'.group = {h} /\ batch'.pc = "handling"
    BY <2>1, <2>2 DEF Busy
  <2>4. g = h
    BY <2>3
  <2>5. /\ P \in SUBSET (DOMAIN stream) /\ IsFiniteSet(P)
        /\ \A p \in P : ~(p <= cursor[h])
    <3>1. Len(stream) \in Nat /\ DOMAIN stream = 1 .. Len(stream) /\ cursor[h] \in Nat
      BY LenProperties DEF Shape, BusOk
    <3>2. IsFiniteSet(1 .. Len(stream))
      BY <3>1, FS_Interval
    <3>3. P \in SUBSET (DOMAIN stream) /\ \A p \in P : cursor[h] < p
      BY DEF Fresh
    <3> HIDE DEF P
    <3>4. IsFiniteSet(P)
      BY <3>1, <3>2, <3>3, FS_Subset
    <3> QED
      BY <3>1, <3>3, <3>4
  <2>6. P \in SUBSET Positions /\ P \in SUBSET Nat
    BY <2>5, EntriesCounted DEF Positions
  <2> HIDE DEF P
  <2>7. (\E S : m \in Seq(S)) /\ \A k \in DOMAIN m :
           m[k].pos \in P /\ m[k] = [pos |-> m[k].pos, count |-> CountOf(h, P, m[k].pos)]
    BY <2>5, <2>6, MessagesCounted, MessagesSound
  <2>8. \E S : batch.msgs \in Seq(S)
    BY <2>2 DEF Busy
  <2> HIDE DEF m
  <2>9. CASE i \in DOMAIN batch.msgs /\ all[i] = batch.msgs[i]
    <3> DEFINE p == batch.msgs[i].pos
    <3>1. p \in 1 .. cursor[h] /\ p \in Positions /\ cursor[h] \in Nat
      BY <1>2, <2>2, <2>4, <2>1, <2>9 DEF Busy, Within, Shape, BusOk
    <3>2. p \notin P
      BY <2>5, <3>1
    <3>3. delivered[g][p] \in Nat
      BY <3>1 DEF CountersOk
    <3>4. delivered'[g][p] = delivered[g][p] + 0
      <4>1. delivered' = Again(h, P)
        BY <2>1 DEF Deliver
      <4> HIDE DEF p
      <4> QED
        BY <2>4, <3>1, <3>2, <4>1, DeliveryCounts
    <3>5. i \in Open(batch)
      BY <2>1, <2>9 DEF Open
    <3> HIDE DEF all
    <3>6. Carried(g, i, i)
      BY <2>1, <2>3, <2>4, <2>9, <3>1, <3>3, <3>4, <3>5 DEF Carried
    <3> QED
      BY <2>9, <3>6
  <2>10. ASSUME NEW k \in DOMAIN m, all[i] = m[k]
         PROVE  Brought(g, i, P)
    <3> HIDE DEF all
    <3> QED
      BY <2>1, <2>3, <2>4, <2>6, <2>7, <2>10 DEF Brought, Deliver
  <2> QED
    BY <2>3, <2>6, <2>7, <2>8, <2>9, <2>10, JoinedAt
<1>7. ~Restarted /\ \A h \in Groups : ~ConsumeLost(h)
  BY <1>1 DEF Restarted, ConsumeLost
<1> QED
  BY <1>3, <1>4, <1>5, <1>6, <1>7, StepKinds

LEMMA CountOfTyped ==
    ASSUME CountersOk, NEW g \in Groups, NEW P, NEW p \in Positions
    PROVE  CountOf(g, P, p) \in Nat
BY DeliveryCounts DEF CountOf

LEMMA AllOf ==
    ASSUME NEW S, NEW T, NEW s \in Seq(S), \A i \in DOMAIN s : s[i] \in T
    PROVE  s \in Seq(T)
<1>1. Len(s) \in Nat /\ DOMAIN s = 1 .. Len(s) /\ s = [i \in 1 .. Len(s) |-> s[i]]
  BY LenProperties
<1> QED
  BY <1>1

MessagesTyped == batch.msgs \in Seq([pos : Positions, count : Nat])

Counting == Shape /\ Fits /\ CountersOk /\ MessagesTyped

LEMMA CountingStep ==
    ASSUME Counting, [Next]_vars
    PROVE  Counting'
<1>1. Shape' /\ Fits' /\ CountersOk'
  BY ShapeStep, FitsStep, CountersStep DEF Counting
<1>2. CASE batch' = NoBatch
  <2>1. batch'.msgs \in Seq([pos : Positions, count : Nat])
    BY <1>2, IdleBatch, EmptySeq
  <2> QED
    BY <1>1, <2>1 DEF Counting, MessagesTyped
<1>3. CASE batch' # NoBatch
  <2>1. PICK g \in Groups : batch'.group = {g} /\ \E S : batch'.msgs \in Seq(S)
    BY <1>1, <1>3 DEF Shape, BatchOk, Busy
  <2>2. ASSUME NEW i \in DOMAIN batch'.msgs
        PROVE  batch'.msgs[i] \in [pos : Positions, count : Nat]
    <3>1. ASSUME NEW j \in DOMAIN batch.msgs, Carried(g, i, j)
          PROVE  batch'.msgs[i] \in [pos : Positions, count : Nat]
      <4>1. batch.msgs[j] \in [pos : Positions, count : Nat]
        BY LenProperties, ElementOfSeq DEF Counting, MessagesTyped
      <4> QED
        BY <3>1, <4>1 DEF Carried
    <3>2. ASSUME NEW P \in SUBSET Positions, Brought(g, i, P)
          PROVE  batch'.msgs[i] \in [pos : Positions, count : Nat]
      <4> DEFINE p == batch'.msgs[i].pos
      <4>1. p \in Positions /\ batch'.msgs[i] = [pos |-> p, count |-> CountOf(g, P, p)]
        BY <3>2 DEF Brought
      <4> HIDE DEF p
      <4>2. CountOf(g, P, p) \in Nat
        BY <4>1, CountOfTyped DEF Counting
      <4> QED
        BY <4>1, <4>2
    <3> QED
      BY <2>1, <3>1, <3>2, MessageFrom DEF Counting
  <2>3. batch'.msgs \in Seq([pos : Positions, count : Nat])
    BY <2>1, <2>2, AllOf
  <2> QED
    BY <1>1, <2>3 DEF Counting, MessagesTyped
<1> QED
  BY <1>2, <1>3

LEMMA CountingInit == Init => Counting
<1> SUFFICES ASSUME Init PROVE Counting
  OBVIOUS
<1>1. Shape
  BY ShapeInit
<1>2. Len(stream) = 0 /\ <<>> \in Seq([pos : Positions, count : Nat])
  BY EmptySeq DEF Init
<1>3. Fits
  BY <1>2, RoomForAll DEF Fits
<1>4. CountersOk
  BY DEF Init, Zero, CountersOk
<1>5. MessagesTyped
  BY <1>2, IdleBatch DEF Init, MessagesTyped
<1> QED
  BY <1>1, <1>3, <1>4, <1>5 DEF Counting

\* The first message of a batch at work.
LEMMA FirstOpen ==
    ASSUME Counting, NEW g \in Groups, batch.group = {g}, batch.pc # "reading"
    PROVE  /\ 1 \in DOMAIN batch.msgs /\ Msg = batch.msgs[1]
           /\ Msg.pos \in Positions /\ Msg.count \in Nat
           /\ batch.pc = "handling" => 1 \in Open(batch)
<1>1. batch.msgs # <<>>
  BY AtWork DEF Counting, Shape, Busy
<1>2. batch.msgs \in Seq([pos : Positions, count : Nat])
  BY DEF Counting, MessagesTyped
<1>3. /\ Len(batch.msgs) \in Nat /\ Len(batch.msgs) >= 1 /\ DOMAIN batch.msgs = 1 .. Len(batch.msgs)
      /\ Head(batch.msgs) = batch.msgs[1] /\ batch.msgs[1] \in [pos : Positions, count : Nat]
  BY <1>1, <1>2, HeadAndTail
<1> QED
  BY <1>3 DEF Msg, Open

-----------------------------------------------------------------------------
(* The handler is called for a message MaxAttempts times at most.           *)

\* Each call had a delivery of its own, and a message that may still be handed
\* to the handler has one that no call has used.
DeliveriesUsed ==
    /\ \A g \in Groups, p \in Positions :
          tried[g][p] <= delivered[g][p] /\ delivered[g][p] <= counter[p]
    /\ \A g \in Groups : batch.group = {g} =>
          \A i \in Open(batch) :
              /\ tried[g][batch.msgs[i].pos] < delivered[g][batch.msgs[i].pos]
              /\ delivered[g][batch.msgs[i].pos] <= batch.msgs[i].count

RetryInv == Counting /\ RetriesBounded /\ DeliveriesUsed

\* A message of the next state can be handed to the handler once more.
LEMMA OpenStep ==
    ASSUME Backend = "inproc", RetryInv, [Next]_vars, NEW g \in Groups, batch'.group = {g},
           NEW i \in Open(batch')
    PROVE  LET p == batch'.msgs[i].pos
           IN  tried'[g][p] < delivered'[g][p] /\ delivered'[g][p] <= batch'.msgs[i].count
<1>1. i \in DOMAIN batch'.msgs
  BY DEF Open
<1>2. ASSUME NEW j \in DOMAIN batch.msgs, Carried(g, i, j)
      PROVE  LET p == batch'.msgs[i].pos
             IN  tried'[g][p] < delivered'[g][p] /\ delivered'[g][p] <= batch'.msgs[i].count
  BY <1>2 DEF Carried, RetryInv, DeliveriesUsed
<1>3. ASSUME NEW P \in SUBSET Positions, Brought(g, i, P)
      PROVE  LET p == batch'.msgs[i].pos
             IN  tried'[g][p] < delivered'[g][p] /\ delivered'[g][p] <= batch'.msgs[i].count
  <2> DEFINE p == batch'.msgs[i].pos
  <2>1. /\ delivered' = Again(g, P) /\ tried' = tried /\ p \in P /\ p \in Positions
        /\ batch'.msgs[i].count = Counted(P)[p]
    BY <1>3 DEF Brought, CountOf
  <2>2. tried[g][p] <= delivered[g][p] /\ delivered[g][p] <= counter[p]
    BY <2>1 DEF RetryInv, DeliveriesUsed
  <2>3. tried[g][p] \in Nat /\ delivered[g][p] \in Nat /\ counter[p] \in Nat
    BY <2>1 DEF RetryInv, Counting, CountersOk
  <2> HIDE DEF p
  <2>4. delivered'[g][p] = delivered[g][p] + 1 /\ Counted(P)[p] = counter[p] + 1
    BY <2>1, DeliveryCounts DEF RetryInv, Counting
  <2> QED
    BY <2>1, <2>2, <2>3, <2>4 DEF p
<1> QED
  BY <1>1, <1>2, <1>3, MessageFrom DEF RetryInv, Counting

\* No call without a delivery, and none too many.
LEMMA TriedStep ==
    ASSUME Backend = "inproc", RetryInv, [Next]_vars, NEW g \in Groups, NEW p \in Positions
    PROVE  /\ tried'[g][p] <= delivered'[g][p] /\ delivered'[g][p] <= counter'[p]
           /\ tried'[g][p] <= MaxAttempts
<1>1. /\ tried[g][p] <= delivered[g][p] /\ delivered[g][p] <= counter[p]
      /\ tried[g][p] <= MaxAttempts
  BY DEF RetryInv, DeliveriesUsed, RetriesBounded
<1>2. tried[g][p] \in Nat /\ delivered[g][p] \in Nat /\ counter[p] \in Nat
  BY DEF RetryInv, Counting, CountersOk
<1>3. CASE Restarted
  BY <1>3, SomeAttempts DEF Restarted, Zero
<1>4. CASE Elsewhere
  BY <1>1, <1>4 DEF Elsewhere
<1>5. ASSUME NEW h \in Groups, Reclaim(h) \/ Consume(h) \/ ConsumeLost(h)
      PROVE  /\ tried'[g][p] <= delivered'[g][p] /\ delivered'[g][p] <= counter'[p]
             /\ tried'[g][p] <= MaxAttempts
  <2>1. PICK P : tried' = tried /\ delivered' = Again(h, P) /\ counter' = Counted(P)
    BY <1>5 DEF Reclaim, Consume, ConsumeLost, Deliver
  <2>2. /\ delivered'[g][p] \in {delivered[g][p], delivered[g][p] + (IF p \in P THEN 1 ELSE 0)}
        /\ counter'[p] = counter[p] + (IF p \in P THEN 1 ELSE 0)
    <3>1. CountersOk
      BY DEF RetryInv, Counting
    <3>2. counter'[p] = counter[p] + (IF p \in P THEN 1 ELSE 0)
      BY <2>1, <3>1, DeliveryCounts
    <3>3. CASE g = h
      BY <2>1, <3>1, <3>2, <3>3, DeliveryCounts
    <3>4. CASE g # h
      BY <2>1, <3>1, <3>2, <3>4, DeliveryCounts
    <3> QED
      BY <3>3, <3>4
  <2> QED
    BY <1>1, <1>2, <2>1, <2>2
<1>6. ASSUME NEW h \in Groups, Working(h)
      PROVE  /\ tried'[g][p] <= delivered'[g][p] /\ delivered'[g][p] <= counter'[p]
             /\ tried'[g][p] <= MaxAttempts
  <2>1. UNCHANGED <<delivered, counter>>
    BY <1>6 DEF Working
  <2>2. CASE tried' = tried
    BY <1>1, <2>1, <2>2
  <2>3. CASE batch.pc = "handling" /\ ~TooOften /\ Call(h)
    <3>1. tried'[g][p] = tried[g][p] + (IF g = h /\ p = Msg.pos THEN 1 ELSE 0)
      BY <2>3, CallCounts DEF RetryInv, Counting
    <3>2. CASE g = h /\ p = Msg.pos
      <4>1. /\ 1 \in Open(batch) /\ Msg = batch.msgs[1] /\ Msg.count \in Nat
            /\ batch.group = {h}
        BY <1>6, <2>3, FirstOpen DEF Working, RetryInv
      <4>2. tried[g][p] < delivered[g][p] /\ delivered[g][p] <= Msg.count
        BY <3>2, <4>1 DEF RetryInv, DeliveriesUsed
      <4>3. ~(Msg.count > MaxAttempts) /\ MaxAttempts \in Nat
        BY <2>3, SomeAttempts DEF TooOften
      <4>4. tried[g][p] + 1 <= MaxAttempts /\ tried[g][p] + 1 <= delivered[g][p]
        BY <1>2, <4>1, <4>2, <4>3
      <4> QED
        BY <1>1, <2>1, <3>1, <3>2, <4>4
    <3>3. CASE ~(g = h /\ p = Msg.pos)
      BY <1>1, <1>2, <2>1, <3>1, <3>3
    <3> QED
      BY <3>2, <3>3
  <2> QED
    BY <1>6, <2>2, <2>3 DEF Working
<1> QED
  BY <1>3, <1>4, <1>5, <1>6, StepKinds DEF RetryInv, Counting

\* In process no message is handed to the handler more than MaxAttempts times,
\* whatever fails and however many groups read the same entries; after a restart
\* the bus is empty and counts anew.  (In Redis a message between two others of
\* a reclaim can make the counter of the last read short, and let a call through.)
THEOREM RetriesBoundedInProcess == Backend = "inproc" => (Spec => []RetriesBounded)
<1> SUFFICES ASSUME Backend = "inproc" PROVE Spec => []RetriesBounded
  OBVIOUS
<1>1. Init => RetryInv
  <2> SUFFICES ASSUME Init PROVE RetryInv
    OBVIOUS
  <2>1. Counting
    BY CountingInit
  <2>2. RetriesBounded
    BY SomeAttempts DEF Init, Zero, RetriesBounded
  <2>3. DeliveriesUsed
    BY IdleBatch DEF Init, Zero, DeliveriesUsed
  <2> QED
    BY <2>1, <2>2, <2>3 DEF RetryInv
<1>2. RetryInv /\ [Next]_vars => RetryInv'
  <2> SUFFICES ASSUME RetryInv, [Next]_vars PROVE RetryInv'
    OBVIOUS
  <2>1. Counting'
    BY CountingStep DEF RetryInv
  <2>2. RetriesBounded'
    BY TriedStep DEF RetriesBounded
  <2>3. DeliveriesUsed'
    BY TriedStep, OpenStep DEF DeliveriesUsed
  <2> QED
    BY <2>1, <2>2, <2>3 DEF RetryInv
<1>3. RetryInv => RetriesBounded
  BY DEF RetryInv
<1> QED
  BY <1>1, <1>2, <1>3, PTL DEF Spec

-----------------------------------------------------------------------------
(* No message is dead-lettered before its time.                             *)

OneGroup == \E g \in Groups : Groups = {g}

\* The counter a message carries was not more than its group's deliveries.
CountsEarned ==
    /\ \A g \in Groups : batch.group = {g} =>
          \A i \in DOMAIN batch.msgs : batch.msgs[i].count <= delivered[g][batch.msgs[i].pos]
    /\ Backend = "inproc" => \A g \in Groups, p \in Positions : counter[p] = delivered[g][p]

DeadInv == Counting /\ DeadLetterEarned /\ CountsEarned

LEMMA CounterShared ==
    ASSUME OneGroup, Backend = "inproc", DeadInv, [Next]_vars, NEW g \in Groups, NEW p \in Positions
    PROVE  counter'[p] = delivered'[g][p]
<1>1. counter[p] = delivered[g][p]
  BY DEF DeadInv, CountsEarned
<1>2. CASE Restarted
  BY <1>2 DEF Restarted, Zero
<1>3. CASE Elsewhere
  BY <1>1, <1>3 DEF Elsewhere
<1>4. ASSUME NEW h \in Groups, Working(h) PROVE counter'[p] = delivered'[g][p]
  BY <1>1, <1>4 DEF Working
<1>5. ASSUME NEW h \in Groups, Reclaim(h) \/ Consume(h) \/ ConsumeLost(h)
      PROVE  counter'[p] = delivered'[g][p]
  <2>1. PICK P : delivered' = Again(h, P) /\ counter' = Counted(P)
    BY <1>5 DEF Reclaim, Consume, ConsumeLost, Deliver
  <2>2. g = h
    BY DEF OneGroup
  <2> QED
    BY <1>1, <2>1, <2>2, DeliveryCounts DEF DeadInv, Counting
<1> QED
  BY <1>2, <1>3, <1>4, <1>5, StepKinds DEF DeadInv, Counting

LEMMA CountEarned ==
    ASSUME Backend = "redis" \/ OneGroup, DeadInv, [Next]_vars, NEW g \in Groups,
           batch'.group = {g}, NEW i \in DOMAIN batch'.msgs
    PROVE  batch'.msgs[i].count <= delivered'[g][batch'.msgs[i].pos]
<1>1. ASSUME NEW j \in DOMAIN batch.msgs, Carried(g, i, j)
      PROVE  batch'.msgs[i].count <= delivered'[g][batch'.msgs[i].pos]
  BY <1>1 DEF Carried, DeadInv, CountsEarned
<1>2. ASSUME NEW P \in SUBSET Positions, Brought(g, i, P)
      PROVE  batch'.msgs[i].count <= delivered'[g][batch'.msgs[i].pos]
  <2> DEFINE p == batch'.msgs[i].pos
  <2>1. /\ delivered' = Again(g, P) /\ counter' = Counted(P) /\ p \in P /\ p \in Positions
        /\ batch'.msgs[i].count = CountOf(g, P, p)
    BY <1>2 DEF Brought
  <2>2. delivered[g][p] \in Nat
    BY <2>1 DEF DeadInv, Counting, CountersOk
  <2> HIDE DEF p
  <2>3. Again(g, P)[g][p] = delivered[g][p] + 1
    BY <2>1, DeliveryCounts DEF DeadInv, Counting
  <2>4. CASE Backend = "inproc"
    <3>1. counter'[p] = delivered'[g][p]
      BY <2>1, <2>4, CounterShared
    <3>2. CountOf(g, P, p) = Counted(P)[p]
      BY <2>4 DEF CountOf
    <3> QED
      BY <2>1, <2>2, <2>3, <3>1, <3>2 DEF p
  <2>5. CASE Backend # "inproc"
    <3>1. CountOf(g, P, p) \in {Again(g, P)[g][p], 1}
      BY <2>5 DEF CountOf
    <3> QED
      BY <2>1, <2>2, <2>3, <3>1 DEF p
  <2> QED
    BY <2>4, <2>5
<1> QED
  BY <1>1, <1>2, MessageFrom DEF DeadInv, Counting

\* What is in the dead-letter stream stays earned, and what joins it is.
LEMMA DeadStep ==
    ASSUME DeadInv, [Next]_vars
    PROVE  DeadLetterEarned'
<1> SUFFICES ASSUME NEW h \in Groups, NEW e \in Events, <<h, e>> \in dlq'
             PROVE  \E p \in DOMAIN stream' : stream'[p] = e /\ delivered'[h][p] > MaxAttempts
  BY DEF DeadLetterEarned
<1>1. /\ stream \in Seq(Events) /\ DOMAIN stream = 1 .. Len(stream) /\ Len(stream) \in Nat
      /\ DOMAIN stream \subseteq Positions /\ MaxAttempts \in Nat
  BY LenProperties, EntriesCounted, SomeAttempts DEF DeadInv, Counting, Shape, BusOk
<1>2. ASSUME <<h, e>> \in dlq
      PROVE  \E p \in DOMAIN stream : stream[p] = e /\ delivered[h][p] > MaxAttempts
  BY <1>2 DEF DeadInv, DeadLetterEarned
<1>3. \A p \in Positions : delivered[h][p] \in Nat
  BY DEF DeadInv, Counting, CountersOk
<1>4. CASE Restarted
  BY <1>4 DEF Restarted
<1>5. CASE Elsewhere
  <2>1. PICK p \in DOMAIN stream : stream[p] = e /\ delivered[h][p] > MaxAttempts
    BY <1>2, <1>5 DEF Elsewhere
  <2>2. p \in DOMAIN stream' /\ stream'[p] = stream[p]
    BY <1>1, <1>5, Added DEF Elsewhere
  <2> QED
    BY <1>5, <2>1, <2>2 DEF Elsewhere
<1>6. ASSUME NEW g \in Groups, Reclaim(g) \/ Consume(g) \/ ConsumeLost(g)
      PROVE  \E p \in DOMAIN stream' : stream'[p] = e /\ delivered'[h][p] > MaxAttempts
  <2>1. PICK P : dlq' = dlq /\ stream' = stream /\ delivered' = Again(g, P)
    BY <1>6 DEF Reclaim, Consume, ConsumeLost, Deliver
  <2>2. PICK p \in DOMAIN stream : stream[p] = e /\ delivered[h][p] > MaxAttempts
    BY <1>2, <2>1
  <2>3. p \in Positions /\ delivered[h][p] \in Nat
    BY <1>1, <1>3
  <2>4. CountersOk
    BY DEF DeadInv, Counting
  <2>5. CASE g = h
    <3>1. delivered'[h][p] = delivered[h][p] + (IF p \in P THEN 1 ELSE 0)
      BY <2>1, <2>3, <2>4, <2>5, DeliveryCounts
    <3> QED
      BY <1>1, <2>1, <2>2, <2>3, <3>1
  <2>6. CASE g # h
    <3>1. delivered'[h] = delivered[h]
      BY <2>1, <2>4, <2>6, DeliveryCounts
    <3> QED
      BY <2>1, <2>2, <3>1
  <2> QED
    BY <2>5, <2>6
<1>7. ASSUME NEW g \in Groups, Working(g)
      PROVE  \E p \in DOMAIN stream' : stream'[p] = e /\ delivered'[h][p] > MaxAttempts
  <2>1. UNCHANGED <<stream, delivered>>
    BY <1>7 DEF Working
  <2>2. CASE <<h, e>> \in dlq
    BY <1>2, <2>1, <2>2
  <2>3. CASE <<h, e>> \notin dlq
    <3>1. h = g /\ e = EventAt /\ TooOften /\ batch.group = {g} /\ batch.pc # "reading"
      BY <1>7, <2>3 DEF Working
    <3>2. /\ 1 \in DOMAIN batch.msgs /\ Msg = batch.msgs[1]
          /\ Msg.pos \in Positions /\ Msg.count \in Nat
      BY <3>1, FirstOpen DEF DeadInv
    <3>3. Msg.pos \in DOMAIN stream
      BY <3>1, CurrentEntry DEF DeadInv, Counting
    <3>4. Msg.count <= delivered[g][Msg.pos] /\ delivered[g][Msg.pos] \in Nat
      BY <1>3, <3>1, <3>2 DEF DeadInv, CountsEarned
    <3>5. delivered[g][Msg.pos] > MaxAttempts
      BY <1>1, <3>1, <3>2, <3>4 DEF TooOften
    <3> QED
      BY <2>1, <3>1, <3>3, <3>5 DEF EventAt
  <2> QED
    BY <2>2, <2>3
<1> QED
  BY <1>4, <1>5, <1>6, <1>7, StepKinds DEF DeadInv, Counting

\* No group gives a message up before it was delivered to it more than
\* MaxAttempts times: in Redis for any number of groups, in process for one.
\* (In process several groups share the counter of an entry, and the second of
\* them may give it up at its first delivery.)
THEOREM DeadLetterEarnedHolds ==
    Backend = "redis" \/ OneGroup => (Spec => []DeadLetterEarned)
<1> SUFFICES ASSUME Backend = "redis" \/ OneGroup PROVE Spec => []DeadLetterEarned
  OBVIOUS
<1>1. Init => DeadInv
  <2> SUFFICES ASSUME Init PROVE DeadInv
    OBVIOUS
  <2>1. Counting
    BY CountingInit
  <2>2. DeadLetterEarned
    BY DEF Init, DeadLetterEarned
  <2>3. CountsEarned
    BY IdleBatch DEF Init, Zero, CountsEarned
  <2> QED
    BY <2>1, <2>2, <2>3 DEF DeadInv
<1>2. DeadInv /\ [Next]_vars => DeadInv'
  <2> SUFFICES ASSUME DeadInv, [Next]_vars PROVE DeadInv'
    OBVIOUS
  <2>1. Counting'
    BY CountingStep DEF DeadInv
  <2>2. DeadLetterEarned'
    BY DeadStep
  <2>3. CountsEarned'
    BY CountEarned, CounterShared, TwoBackends DEF CountsEarned
  <2> QED
    BY <2>1, <2>2, <2>3 DEF DeadInv
<1>3. DeadInv => DeadLetterEarned
  BY DEF DeadInv
<1> QED
  BY <1>1, <1>2, <1>3, PTL DEF Spec

-----------------------------------------------------------------------------
(* Types.                                                                   *)

\* Nothing is in the outbox, in the stream or dead that no run recorded.
RecordedFirst ==
    /\ published \cup dead \cup outbox.rows \subseteq recorded
    /\ outbox.marked \subseteq outbox.rows
    /\ \A p \in DOMAIN stream : stream[p] \in recorded

NoneEmpty == \A g \in Groups : \A i \in DOMAIN unacked[g] : unacked[g][i] # {}

FaultsBounded ==
    /\ faults \in [all : 0..(MaxFaults + 1), crashes : 0..MaxFaults]
    /\ faults.crashes <= faults.all

TypeInv ==
    Counting /\ RecordedFirst /\ NoneEmpty /\ dlq \subseteq Groups \X Events /\ FaultsBounded

LEMMA RecordedStep ==
    ASSUME Shape, RecordedFirst, [Next]_vars
    PROVE  RecordedFirst'
<1> USE DEF RecordedFirst
<1>1. stream \in Seq(Events) /\ DOMAIN stream = 1 .. Len(stream) /\ Len(stream) \in Nat
  BY LenProperties DEF Shape, BusOk
<1>2. DOMAIN outbox = {"rows", "todo", "marked"}
  BY DEF Shape, OutboxOk
<1>3. CASE UNCHANGED <<published, dead, outbox, stream>> /\ recorded \subseteq recorded'
  BY <1>3
<1>4. CASE SelectBatch
  <2>1. /\ outbox'.rows = Oldest(Unpublished, BatchLimit) /\ outbox'.marked = {}
        /\ UNCHANGED <<recorded, published, dead, stream>>
    BY <1>4 DEF SelectBatch, rows, bus
  <2>2. outbox'.rows \subseteq recorded
    BY <2>1 DEF Oldest, Unpublished
  <2> QED
    BY <2>1, <2>2
<1>5. CASE PublishOne \/ PublishFails
  <2>1. outbox.todo # <<>> /\ UNCHANGED <<recorded, published, dead>>
    BY <1>5 DEF PublishOne, PublishFails, rows
  <2> DEFINE e == Head(outbox.todo)
  <2>2. e \in outbox.rows /\ e \in Events
    BY <2>1, NextRow DEF Shape
  <2>3. /\ outbox'.rows = outbox.rows
        /\ outbox'.marked = outbox.marked \/ outbox'.marked = outbox.marked \cup {e}
    BY <1>2, <1>5 DEF PublishOne, PublishFails
  <2>4. stream' = stream \/ stream' = Append(stream, e)
    BY <1>5 DEF PublishOne, PublishFails
  <2> HIDE DEF e
  <2>5. \A p \in DOMAIN stream' : stream'[p] \in recorded
    <3>1. CASE stream' = stream
      BY <3>1
    <3>2. CASE stream' = Append(stream, e)
      <4>1. /\ DOMAIN stream' = 1 .. Len(stream) + 1 /\ stream'[Len(stream) + 1] = e
            /\ \A p \in 1 .. Len(stream) : stream'[p] = stream[p]
        BY <1>1, <2>2, <3>2, Added
      <4>2. \A p \in 1 .. Len(stream) + 1 : p \in 1 .. Len(stream) \/ p = Len(stream) + 1
        BY <1>1
      <4> QED
        BY <1>1, <2>2, <4>1, <4>2
    <3> QED
      BY <2>4, <3>1, <3>2
  <2> QED
    BY <2>1, <2>2, <2>3, <2>5
<1>6. CASE CommitBatch \/ CommitFails
  <2>1. /\ outbox' = NoOutbox /\ UNCHANGED <<recorded, dead, stream>>
        /\ published' \subseteq published \cup outbox.marked
    BY <1>6 DEF CommitBatch, CommitFails, rows, bus
  <2> QED
    BY <2>1, IdleBatch
<1>7. CASE Crash
  <2>1. outbox' = NoOutbox /\ UNCHANGED rows /\ (stream' = stream \/ stream' = <<>>)
    BY <1>7 DEF Crash, bus
  <2>2. DOMAIN <<>> = {}
    BY EmptySeq, LenProperties
  <2> QED
    BY <2>1, <2>2, IdleBatch DEF rows
<1>8. CASE MarkDead
  <2>1. batch.pc = "marking"
    BY <1>8 DEF MarkDead
  <2>2. PICK g \in Groups : batch.group = {g}
    BY <2>1, SomeoneAtWork DEF Shape
  <2>3. EventAt \in recorded
    BY <2>1, <2>2, CurrentEntry DEF EventAt
  <2> QED
    BY <1>8, <2>3 DEF MarkDead, bus
<1>9. ASSUME NEW g \in Groups,
             Reclaim(g) \/ Work(g) \/ ConsumeLost(g) \/ HandlerFails(g) \/ DeadLetterFails(g)
      PROVE  UNCHANGED <<recorded, published, dead, outbox, stream>>
  BY <1>9 DEF Work, Reclaim, Consume, ConsumeLost, Handle, Ack, DeadLetter, HandlerFails,
              DeadLetterFails, rows, bus
<1>10. CASE ConsumeFails \/ AckFails \/ MarkFails \/ UNCHANGED vars \/ \E e \in Events : Record(e)
  BY <1>3, <1>10 DEF ConsumeFails, AckFails, MarkFails, Record, vars, rows, bus
<1> QED
  BY <1>3, <1>4, <1>5, <1>6, <1>7, <1>8, <1>9, <1>10 DEF Next, Publish, Failure

LEMMA WithoutNonempty ==
    ASSUME NEW us \in Seq(SUBSET Nat), NEW P
    PROVE  \A k \in DOMAIN Without(us, P) : Without(us, P)[k] # {}
<1> DEFINE keep == {i \in DOMAIN us : us[i] \ P # {}}
           left == Ordered(keep)
<1>1. Len(us) \in Nat /\ DOMAIN us = 1 .. Len(us)
  BY LenProperties
<1>2. keep \in SUBSET (1 .. Len(us)) /\ IsFiniteSet(1 .. Len(us))
  BY <1>1, FS_Interval
<1>3. \A i \in keep : us[i] \ P # {}
  OBVIOUS
<1>4. Without(us, P) = [k \in DOMAIN left |-> us[left[k]] \ P]
  BY DEF Without
<1> HIDE DEF keep
<1>5. keep \in SUBSET Nat /\ IsFiniteSet(keep)
  <2>1. IsFiniteSet(keep)
    BY <1>2, FS_Subset
  <2> QED
    BY <1>1, <1>2, <2>1
<1>6. \A k \in DOMAIN left : left[k] \in keep
  BY <1>5, OrderedEnumerates, LenProperties, ElementOfSeq
<1> HIDE DEF left
<1> QED
  BY <1>3, <1>4, <1>6

LEMMA NoneEmptyStep ==
    ASSUME Shape, NoneEmpty, [Next]_vars
    PROVE  NoneEmpty'
<1>1. unacked \in [Groups -> Seq(SUBSET Nat)]
  BY DEF Shape, BusOk
<1>2. ASSUME NEW g \in Groups, NEW new, unacked' = [unacked EXCEPT ![g] = new],
             \A i \in DOMAIN new : new[i] # {}
      PROVE  NoneEmpty'
  BY <1>1, <1>2 DEF NoneEmpty
<1>3. ASSUME NEW g \in Groups, unacked' = Acked(g) PROVE NoneEmpty'
  BY <1>1, <1>2, <1>3, WithoutNonempty DEF Acked
<1>4. ASSUME NEW g \in Groups, NEW P \in SUBSET Nat, Deliver(g, P) PROVE NoneEmpty'
  <2>1. CASE P = {}
    <3>1. unacked' = [unacked EXCEPT ![g] = unacked[g]]
      BY <1>4, <2>1 DEF Deliver
    <3> QED
      BY <1>2, <3>1 DEF NoneEmpty
  <2>2. CASE P # {}
    <3> DEFINE us == Without(unacked[g], P)
               new == Append(us, P)
    <3>1. us \in Seq(SUBSET Nat) /\ \A i \in DOMAIN us : us[i] # {}
      BY <1>1, WithoutKeeps, WithoutNonempty
    <3>2. unacked' = [unacked EXCEPT ![g] = new]
      BY <1>4, <2>2 DEF Deliver
    <3> HIDE DEF us
    <3>3. /\ Len(us) \in Nat /\ DOMAIN us = 1 .. Len(us) /\ DOMAIN new = 1 .. Len(us) + 1
          /\ \A i \in 1 .. Len(us) : new[i] = us[i]
          /\ new[Len(us) + 1] = P
      BY <3>1, Added
    <3>4. \A i \in 1 .. Len(us) + 1 : i \in 1 .. Len(us) \/ i = Len(us) + 1
      BY <3>3
    <3>5. \A i \in DOMAIN new : new[i] # {}
      BY <2>2, <3>1, <3>3, <3>4
    <3> HIDE DEF new
    <3> QED
      BY <1>2, <3>2, <3>5
  <2> QED
    BY <2>1, <2>2
<1>5. CASE UNCHANGED unacked
  BY <1>5 DEF NoneEmpty
<1>6. CASE Crash
  <2>1. UNCHANGED unacked \/ unacked' = [g \in Groups |-> <<>>]
    BY <1>6 DEF Crash, bus
  <2>2. DOMAIN <<>> = {}
    BY EmptySeq, LenProperties
  <2> QED
    BY <1>5, <2>1, <2>2 DEF NoneEmpty
<1>7. ASSUME NEW g \in Groups, Reclaim(g) PROVE NoneEmpty'
  <2>1. PICK P \in Reclaimable(g) : Deliver(g, P)
    BY <1>7 DEF Reclaim
  <2>2. P \in SUBSET Pending(g)
    BY ReclaimsPending DEF Shape
  <2>3. P \in SUBSET Nat
    BY <2>2 DEF Shape, BusOk
  <2> QED
    BY <1>4, <2>1, <2>3
<1>8. ASSUME NEW g \in Groups, Consume(g) \/ ConsumeLost(g) PROVE NoneEmpty'
  <2>1. Deliver(g, Fresh(g))
    BY <1>8 DEF Consume, ConsumeLost
  <2>2. DOMAIN stream = 1 .. Len(stream) /\ Len(stream) \in Nat
    BY LenProperties DEF Shape, BusOk
  <2>3. Fresh(g) \in SUBSET Nat
    BY <2>2 DEF Fresh
  <2> QED
    BY <1>4, <2>1, <2>3
<1>9. ASSUME NEW g \in Groups,
             Handle(g) \/ Ack(g) \/ DeadLetter(g) \/ HandlerFails(g) \/ DeadLetterFails(g)
      PROVE  UNCHANGED unacked \/ unacked' = Acked(g)
  BY <1>9 DEF Handle, Ack, DeadLetter, HandlerFails, DeadLetterFails, bus
<1>10. CASE \/ ConsumeFails \/ AckFails \/ MarkFails \/ MarkDead \/ PublishFails \/ CommitFails
            \/ Publish \/ UNCHANGED vars \/ \E e \in Events : Record(e)
  BY <1>5, <1>10 DEF ConsumeFails, AckFails, MarkFails, MarkDead, PublishFails, CommitFails,
                     Publish, SelectBatch, PublishOne, CommitBatch, Record, vars, rows, bus
<1> QED
  BY <1>3, <1>5, <1>6, <1>7, <1>8, <1>9, <1>10 DEF Next, Work, Failure

LEMMA DlqTyped ==
    ASSUME Shape, dlq \subseteq Groups \X Events, [Next]_vars
    PROVE  dlq' \subseteq Groups \X Events
<1>1. CASE Restarted \/ Elsewhere
  BY <1>1 DEF Restarted, Elsewhere
<1>2. ASSUME NEW g \in Groups, Working(g) PROVE dlq' \subseteq Groups \X Events
  <2>1. EventAt \in Events
    BY <1>2, CurrentEntry DEF Working
  <2> QED
    BY <1>2, <2>1 DEF Working
<1>3. ASSUME NEW g \in Groups, Reclaim(g) \/ Consume(g) \/ ConsumeLost(g) PROVE dlq' = dlq
  BY <1>3 DEF Reclaim, Consume, ConsumeLost
<1> QED
  BY <1>1, <1>2, <1>3, StepKinds

LEMMA FaultsBoundedStep ==
    ASSUME FaultsBounded, [Next]_vars
    PROVE  FaultsBounded'
<1>1. MaxFaults \in Nat
  BY EventBound
<1>2. ASSUME NEW f, Fault(f) PROVE FaultsBounded'
  <2>1. /\ faults' = [all |-> faults.all + 1,
                      crashes |-> faults.crashes + (IF f = "crash" THEN 1 ELSE 0)]
        /\ faults.all < MaxFaults + 1 /\ (f = "crash" => faults.all < MaxFaults)
    BY <1>1, <1>2 DEF Fault, Limit, FaultsBounded
  <2>2. /\ faults.all \in 0 .. (MaxFaults + 1) /\ faults.crashes \in 0 .. MaxFaults
        /\ faults.crashes <= faults.all
    BY DEF FaultsBounded
  <2> QED
    BY <1>1, <2>1, <2>2 DEF FaultsBounded
<1>3. UNCHANGED faults \/ \E f \in AllFaults : Fault(f)
  BY FaultOrNot
<1> QED
  BY <1>2, <1>3 DEF FaultsBounded

LEMMA TypeStep == TypeInv /\ [Next]_vars => TypeInv'
BY CountingStep, RecordedStep, NoneEmptyStep, DlqTyped, FaultsBoundedStep DEF TypeInv, Counting

LEMMA TypeImplied ==
    ASSUME TypeInv
    PROVE  TypeOK
<1> USE DEF TypeInv, Counting
<1>1. /\ stream \in Seq(Events) /\ DOMAIN stream = 1 .. Len(stream) /\ Len(stream) \in Nat
      /\ \A g \in Groups : cursor[g] \in 0 .. Len(stream) /\ Pending(g) \subseteq 1 .. cursor[g]
  BY LenProperties DEF Shape, BusOk
<1>2. recorded \subseteq Events /\ woken \in [Groups -> [Events -> Nat]]
  BY DEF Shape, RowsOk
<1>3. cursor \in [Groups -> 0 .. Len(stream)]
  BY <1>1 DEF Shape, BusOk
<1>4. unacked \in [Groups -> Seq((SUBSET DOMAIN stream) \ {{}})]
  <2>1. unacked \in [Groups -> Seq(SUBSET Nat)]
    BY DEF Shape, BusOk
  <2>2. ASSUME NEW g \in Groups PROVE unacked[g] \in Seq((SUBSET DOMAIN stream) \ {{}})
    <3>1. \A i \in DOMAIN unacked[g] : unacked[g][i] \subseteq Pending(g)
      BY DEF Pending, ToSet
    <3>2. Pending(g) \subseteq DOMAIN stream
      BY <1>1
    <3>3. \A i \in DOMAIN unacked[g] : unacked[g][i] # {}
      BY DEF NoneEmpty
    <3>4. \A i \in DOMAIN unacked[g] : unacked[g][i] \in (SUBSET DOMAIN stream) \ {{}}
      <4> DEFINE us == unacked[g]
                 D  == DOMAIN stream
      <4>1. \A i \in DOMAIN us : us[i] \subseteq D /\ us[i] # {}
        BY <3>1, <3>2, <3>3
      <4> HIDE DEF us, D
      <4>2. \A i \in DOMAIN us : us[i] \in (SUBSET D) \ {{}}
        BY <4>1
      <4> QED
        BY <4>2 DEF us, D
    <3> QED
      BY <2>1, <3>4, AllOf
  <2> QED
    BY <2>1, <2>2
<1>5. /\ published \subseteq recorded /\ dead \subseteq recorded
      /\ outbox.rows \subseteq recorded /\ outbox.marked \subseteq outbox.rows
  BY DEF RecordedFirst
<1>6. outbox.todo \in Seq(outbox.rows)
  BY AllOf DEF Shape, OutboxOk
<1>7. batch.msgs \in Seq([pos : DOMAIN stream, count : Nat])
  <2>1. batch.msgs \in Seq([pos : Positions, count : Nat])
    BY DEF MessagesTyped
  <2>2. \A i \in DOMAIN batch.msgs : batch.msgs[i] \in [pos : Positions, count : Nat]
    BY <2>1, LenProperties, ElementOfSeq
  <2>3. ASSUME NEW i \in DOMAIN batch.msgs PROVE batch.msgs[i].pos \in DOMAIN stream
    <3>1. batch # NoBatch
      <4>1. DOMAIN <<>> = {}
        BY EmptySeq, LenProperties
      <4> QED
        BY <2>3, <4>1, IdleBatch
    <3>2. PICK g \in Groups : Busy(batch, g, Pending(g), cursor[g])
      BY <3>1 DEF Shape, BatchOk
    <3>3. batch.msgs[i].pos \in 1 .. cursor[g]
      BY <3>2 DEF Busy, Within
    <3> QED
      BY <1>1, <3>3
  <2>4. \A i \in DOMAIN batch.msgs : batch.msgs[i] \in [pos : DOMAIN stream, count : Nat]
    BY <2>2, <2>3
  <2> QED
    BY <2>1, <2>4, AllOf
<1>8. /\ batch.pc \in {"idle", "reading", "handling", "acking", "marking"}
      /\ batch.pc = "idle" <=> batch.group = {}
      /\ batch.group \subseteq Groups /\ Cardinality(batch.group) <= 1
  <2>1. CASE batch = NoBatch
    BY <2>1, IdleBatch, FS_EmptySet
  <2>2. ASSUME NEW g \in Groups, Busy(batch, g, Pending(g), cursor[g])
        PROVE  /\ batch.pc \in {"reading", "handling", "acking", "marking"}
               /\ batch.group = {g} /\ Cardinality({g}) = 1
    BY <2>2, FS_Singleton DEF Busy
  <2>3. CASE batch # NoBatch
    <3>1. PICK g \in Groups : Busy(batch, g, Pending(g), cursor[g])
      BY <2>3 DEF Shape, BatchOk
    <3>2. /\ batch.pc \in {"reading", "handling", "acking", "marking"}
          /\ batch.group = {g} /\ Cardinality({g}) = 1
      BY <2>2, <3>1
    <3> QED
      BY <3>2
  <2> QED
    BY <2>1, <2>3
<1>9. Len(stream) <= MaxEvents * (1 + MaxFaults)
  BY DEF Fits
<1>10. faults \in [all : 0..(MaxFaults + 1), crashes : 0..MaxFaults]
  BY DEF FaultsBounded
<1> QED
  BY <1>1, <1>2, <1>3, <1>4, <1>5, <1>6, <1>7, <1>8, <1>9, <1>10 DEF TypeOK, CountersOk

\* The outbox, the bus, the consumer's batch and every counter keep their types:
\* nothing is locked, marked, in the stream or dead that no run recorded, no
\* pending delivery is empty, and the stream never outgrows its positions.
THEOREM TypeCorrect == Spec => []TypeOK
<1>1. Init => TypeInv
  <2> SUFFICES ASSUME Init PROVE TypeInv
    OBVIOUS
  <2>1. Counting
    BY CountingInit
  <2>2. DOMAIN <<>> = {}
    BY EmptySeq, LenProperties
  <2>3. RecordedFirst
    BY <2>2, IdleBatch DEF Init, RecordedFirst
  <2>4. NoneEmpty
    BY <2>2 DEF Init, NoneEmpty
  <2>5. FaultsBounded
    BY EventBound DEF Init, FaultsBounded
  <2> QED
    BY <2>1, <2>3, <2>4, <2>5 DEF Init, TypeInv
<1>2. TypeInv /\ [Next]_vars => TypeInv'
  BY TypeStep
<1>3. TypeInv => TypeOK
  BY TypeImplied
<1> QED
  BY <1>1, <1>2, <1>3, PTL DEF Spec
=============================================================================
