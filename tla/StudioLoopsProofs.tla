------------------------- MODULE StudioLoopsProofs --------------------------
(***************************************************************************)
(* What is proved of StudioLoops for any number of processes, agents, apps, *)
(* runs, days and faults: however many reflectors rewrite the playbook at   *)
(* once, one version of it is active; a schedule fires once a day; what a   *)
(* person sets as a target stays; a run recommends once; the CEO's tasks    *)
(* reach their agents.                                                      *)
(*                                                                          *)
(* Behind the first two are invariants of their own.  The others rest on    *)
(* WorkInv, who executes which run, and on StepKinds: whatever a step is    *)
(* called, it leaves the runs alone, adds some, starts, continues or ends   *)
(* one, or is a person's decision about one.                                *)
(***************************************************************************)
EXTENDS StudioLoops, SequenceTheorems, FiniteSetTheorems,
        FunctionTheorems, WellFoundedInduction, TLAPS

-----------------------------------------------------------------------------
(* The playbook.                                                           *)

\* A playbook of n retired versions, and one after n rewrites.
Old(n) == { [version |-> v, active |-> FALSE] : v \in 1 .. n }
Playbook(n) == IF n = 0 THEN {} ELSE Old(n - 1) \cup {[version |-> n, active |-> TRUE]}

LEMMA PlaybookSize ==
    ASSUME NEW n \in Nat
    PROVE  Cardinality(Playbook(n)) = n /\ IsFiniteSet(Playbook(n))
<1> DEFINE row == [v \in 1 .. n |-> [version |-> v, active |-> IF v = n THEN TRUE ELSE FALSE]]
<1>1. \A v \in 1 .. n : row[v] \in Playbook(n) /\ row[v].version = v
  BY DEF Playbook, Old
<1>2. \A x \in Playbook(n) : \E v \in 1 .. n : row[v] = x
  <2> SUFFICES ASSUME NEW x \in Playbook(n) PROVE \E v \in 1 .. n : row[v] = x
    OBVIOUS
  <2>1. n \in 1 .. n
    BY DEF Playbook
  <2>2. CASE x = [version |-> n, active |-> TRUE]
    <3>1. row[n] = x
      BY <2>1, <2>2
    <3> QED
      BY <2>1, <3>1
  <2>3. ASSUME NEW v \in 1 .. n - 1, x = [version |-> v, active |-> FALSE]
        PROVE  \E u \in 1 .. n : row[u] = x
    <3>1. v \in 1 .. n /\ v # n
      OBVIOUS
    <3>2. row[v] = x
      BY <2>3, <3>1
    <3> QED
      BY <3>1, <3>2
  <2> QED
    BY <2>1, <2>2, <2>3 DEF Playbook, Old
<1>3. row \in Bijection(1 .. n, Playbook(n))
  <2> DOMAIN row = 1 .. n
    OBVIOUS
  <2> HIDE DEF row
  <2>1. row \in [1 .. n -> Playbook(n)]
    BY <1>1 DEF row
  <2>2. \A u, v \in 1 .. n : row[u] = row[v] => u = v
    BY <1>1
  <2> QED
    BY <1>2, <2>1, <2>2, Fun_IsBij
<1>4. IsFiniteSet(1 .. n) /\ Cardinality(1 .. n) = n
  BY FS_Interval
<1> QED
  BY <1>3, <1>4, FS_Bijection DEF ExistsBijection

\* Its versions are 1 to n, the last of them active.
LEMMA PlaybookRead ==
    ASSUME NEW n \in Nat, playbook = Playbook(n)
    PROVE  /\ Versions = 1 .. n
           /\ n = 0 => Actives = {}
           /\ n # 0 => Actives = {n}
<1>1. CASE n = 0
  BY <1>1 DEF Versions, Actives, Playbook
<1>2. CASE n # 0
  <2>1. 1 .. n = (1 .. n - 1) \cup {n}
    BY <1>2
  <2>2. \A row \in Old(n - 1) : row.version \in 1 .. n - 1 /\ ~row.active
    BY DEF Old
  <2>3. \A v \in 1 .. n - 1 : \E row \in Old(n - 1) : row.version = v
    <3> TAKE v \in 1 .. n - 1
    <3>1. [version |-> v, active |-> FALSE] \in Old(n - 1)
      BY DEF Old
    <3> QED
      BY <3>1
  <2> DEFINE last == [version |-> n, active |-> TRUE]
  <2>4. playbook = Old(n - 1) \cup {last}
    BY <1>2 DEF Playbook
  <2>5. last.version = n /\ last.active
    OBVIOUS
  <2> HIDE DEF last
  <2>6. Versions = 1 .. n
    BY <2>1, <2>2, <2>3, <2>4, <2>5 DEF Versions
  <2>7. Actives = {n}
    <3>1. { x \in playbook : x.active } = {last}
      BY <2>2, <2>4, <2>5
    <3> QED
      BY <2>5, <3>1 DEF Actives
  <2> QED
    BY <1>2, <2>6, <2>7
<1> QED
  BY <1>1, <1>2

LEMMA RowSet ==
    ASSUME NEW v, NEW active, NEW other
    PROVE  [[version |-> v, active |-> active] EXCEPT !.active = other]
              = [version |-> v, active |-> other]
OBVIOUS

\* A rewrite of the newest version is the next playbook.
LEMMA PlaybookRewritten ==
    ASSUME NEW n \in Nat
    PROVE  Retired(Playbook(n)) \cup {[version |-> n + 1, active |-> TRUE]}
              = Playbook(n + 1)
<1>1. Retired(Playbook(n)) = Old(n)
  <2>1. CASE n = 0
    BY <2>1 DEF Retired, Playbook, Old
  <2>2. CASE n # 0
    <3>1. 1 .. n = (1 .. n - 1) \cup {n}
      BY <2>2
    <3>2. \A row \in Old(n - 1) : [row EXCEPT !.active = FALSE] = row
      BY DEF Old
    <3>3. [[version |-> n, active |-> TRUE] EXCEPT !.active = FALSE]
             = [version |-> n, active |-> FALSE]
      BY RowSet
    <3>4. Retired(Playbook(n)) = Old(n - 1) \cup {[version |-> n, active |-> FALSE]}
      BY <2>2, <3>2, <3>3 DEF Retired, Playbook
    <3> QED
      BY <3>1, <3>4 DEF Old
  <2> QED
    BY <2>1, <2>2
<1> QED
  BY <1>1 DEF Playbook

\* What a reflector has read is a version there is, or none, whoever has
\* rewritten the playbook since: no version is ever dropped.
BasesRead(n) ==
    /\ DOMAIN work = Processes
    /\ \A p \in Processes : "base" \in DOMAIN work[p] /\ work[p].base \in 0 .. n

PlaybookInv == \E n \in Nat : playbook = Playbook(n) /\ BasesRead(n)

\* Of all steps, only the reflector's reading changes what a process has read,
\* but for those that end or begin an execution.
LEMMA BaseStep ==
    ASSUME NEW n \in Nat, BasesRead(n), playbook = Playbook(n), [Next]_vars,
           ~(\E p \in Processes : ReflectPersist(p))
    PROVE  playbook' = playbook /\ BasesRead(n)'
<1>1. CASE UNCHANGED <<playbook, work>>
  BY <1>1 DEF BasesRead
<1>2. ASSUME NEW p \in Processes, NEW e, work' = [work EXCEPT ![p] = e],
             "base" \in DOMAIN e, e.base \in 0 .. n
      PROVE  BasesRead(n)'
  BY <1>2 DEF BasesRead
<1>3. "base" \in DOMAIN NoRun /\ NoRun.base = 0 /\ 0 \in 0 .. n
  BY DEF NoRun
<1>4. ASSUME NEW p \in Processes
      PROVE  "base" \in DOMAIN work[p] /\ work[p].base \in 0 .. n
  BY DEF BasesRead
<1>5. ASSUME NEW p \in Processes, NEW r \in DOMAIN runs, Claim(p, r)
      PROVE  playbook' = playbook /\ BasesRead(n)'
  <2> DEFINE e == [NoRun EXCEPT !.run = r, !.step = "start", !.knew = seeded]
  <2>1. "base" \in DOMAIN e /\ e.base = 0
    BY DEF NoRun
  <2>2. work' = [work EXCEPT ![p] = e] /\ UNCHANGED playbook
    BY <1>5 DEF Claim, Books
  <2> HIDE DEF e
  <2> QED
    BY <1>2, <1>3, <2>1, <2>2
<1>6. ASSUME NEW p \in Processes, Produce(p)
      PROVE  playbook' = playbook /\ BasesRead(n)'
  <2>1. PICK o : work' = [work EXCEPT ![p] =
                    [work[p] EXCEPT !.step = "done", !.out = o.out, !.asks = o.asks]]
    BY <1>6 DEF Produce, Goes
  <2> DEFINE e == [work[p] EXCEPT !.step = "done", !.out = o.out, !.asks = o.asks]
  <2>2. "base" \in DOMAIN e /\ e.base = work[p].base
    BY <1>4
  <2>3. UNCHANGED playbook
    BY <1>6 DEF Produce, Books
  <2> HIDE DEF e
  <2>4. work' = [work EXCEPT ![p] = e]
    BY <2>1 DEF e
  <2> QED
    BY <1>2, <1>4, <2>2, <2>3, <2>4
<1>7. ASSUME NEW p \in Processes, CeoBrief(p)
      PROVE  playbook' = playbook /\ BasesRead(n)'
  <2>1. PICK out : work' = [work EXCEPT ![p] = [work[p] EXCEPT !.step = "done", !.out = out]]
    BY <1>7 DEF CeoBrief, Goes
  <2> DEFINE e == [work[p] EXCEPT !.step = "done", !.out = out]
  <2>2. "base" \in DOMAIN e /\ e.base = work[p].base
    BY <1>4
  <2>3. UNCHANGED playbook
    BY <1>7 DEF CeoBrief, Books
  <2> HIDE DEF e
  <2>4. work' = [work EXCEPT ![p] = e]
    BY <2>1 DEF e
  <2> QED
    BY <1>2, <1>4, <2>2, <2>3, <2>4
<1>8. ASSUME NEW p \in Processes, NEW step, work' = [work EXCEPT ![p] = [work[p] EXCEPT !.step = step]]
      PROVE  BasesRead(n)'
  <2> DEFINE e == [work[p] EXCEPT !.step = step]
  <2>1. "base" \in DOMAIN e /\ e.base = work[p].base
    BY <1>4
  <2> HIDE DEF e
  <2>2. work' = [work EXCEPT ![p] = e]
    BY <1>8 DEF e
  <2> QED
    BY <1>2, <1>4, <2>1, <2>2
<1>9. ASSUME NEW p \in Processes, CeoSeed(p) \/ ReflectLearn(p)
      PROVE  playbook' = playbook /\ BasesRead(n)'
  <2>1. UNCHANGED playbook
    BY <1>9 DEF CeoSeed, ReflectLearn
  <2>2. \/ \E step : work' = [work EXCEPT ![p] = [work[p] EXCEPT !.step = step]]
        \/ work' = [work EXCEPT ![p] = NoRun]
    BY <1>9 DEF CeoSeed, ReflectLearn, Goes, Fails
  <2> QED
    BY <1>2, <1>3, <1>8, <2>1, <2>2
<1>10. ASSUME NEW p \in Processes, Commit(p) \/ CutShort(p) \/ Fault(p)
       PROVE  playbook' = playbook /\ BasesRead(n)'
  <2>1. UNCHANGED playbook
    BY <1>10 DEF Commit, CutShort, Fault, Books
  <2>2. work' = [work EXCEPT ![p] = NoRun]
    BY <1>10 DEF Commit, CutShort, Concludes, Fault, Fails
  <2> QED
    BY <1>2, <1>3, <2>1, <2>2
<1>11. ASSUME NEW p \in Processes, ReflectCollect(p)
       PROVE  playbook' = playbook /\ BasesRead(n)'
  <2> DEFINE b == IF Actives = {} THEN 0
                  ELSE CHOOSE v \in Actives : \A u \in Actives : u <= v
             s == IF studio = "amz" THEN "collected" ELSE "learned"
             e == [work[p] EXCEPT !.step = s, !.base = b]
  <2>1. b \in 0 .. n
    <3>1. CASE n = 0
      BY <3>1, PlaybookRead
    <3>2. CASE n # 0
      <4>1. Actives = {n}
        BY <3>2, PlaybookRead
      <4> QED
        BY <4>1
    <3> QED
      BY <3>1, <3>2
  <2>2. work' = [work EXCEPT ![p] = e] /\ UNCHANGED playbook
    BY <1>11 DEF ReflectCollect, Goes, Books
  <2> HIDE DEF b, s
  <2>3. "base" \in DOMAIN e /\ e.base = b
    BY <1>4
  <2> HIDE DEF e
  <2> QED
    BY <1>2, <2>1, <2>2, <2>3
<1>12. CASE \/ \E p \in Processes : TickOpen(p) \/ TickCommit(p)
            \/ \E e \in events : Deliver(e)
            \/ \E a \in Triggered \cap Agents : Trigger(a)
            \/ \E r \in DOMAIN runs : Decide(r)
            \/ SetTarget \/ NextDay \/ UNCHANGED vars
  <2>1. UNCHANGED <<playbook, work>>
    BY <1>12 DEF TickOpen, TickCommit, Deliver, Trigger, Decide, SetTarget, NextDay,
                 Books, vars
  <2> QED
    BY <2>1, <1>1
<1> QED
  BY <1>5, <1>6, <1>7, <1>9, <1>10, <1>11, <1>12 DEF Next

LEMMA PlaybookInit == Init => PlaybookInv
<1> SUFFICES ASSUME Init PROVE PlaybookInv
  OBVIOUS
<1>1. Playbook(0) = {} /\ 0 \in Nat
  BY DEF Playbook
<1>2. BasesRead(0)
  BY DEF Init, BasesRead, NoRun
<1> QED
  BY <1>1, <1>2 DEF Init, PlaybookInv

LEMMA PlaybookStep == PlaybookInv /\ [Next]_vars => PlaybookInv'
<1> SUFFICES ASSUME NEW n \in Nat, playbook = Playbook(n), BasesRead(n), [Next]_vars
             PROVE  PlaybookInv'
  BY DEF PlaybookInv
<1>1. CASE ~(\E p \in Processes : ReflectPersist(p))
  BY <1>1, BaseStep DEF PlaybookInv
<1>2. ASSUME NEW p \in Processes, ReflectPersist(p) PROVE PlaybookInv'
  <2>1. work[p].base \in 0 .. n /\ "base" \in DOMAIN work[p]
    BY DEF BasesRead
  <2>2. \/ \E step : work' = [work EXCEPT ![p] = [work[p] EXCEPT !.step = step]]
        \/ work' = [work EXCEPT ![p] = NoRun]
    BY <1>2 DEF ReflectPersist, Goes, Fails
  <2>3. \A m \in Nat : m >= n => BasesRead(m)'
    <3> SUFFICES ASSUME NEW m \in Nat, m >= n PROVE BasesRead(m)'
      OBVIOUS
    <3>1. ASSUME NEW step,
                 work' = [work EXCEPT ![p] = [work[p] EXCEPT !.step = step]]
          PROVE  BasesRead(m)'
      BY <3>1, <2>1 DEF BasesRead
    <3>2. CASE work' = [work EXCEPT ![p] = NoRun]
      BY <3>2 DEF BasesRead, NoRun
    <3> QED
      BY <2>2, <3>1, <3>2
  <2>4. CASE UNCHANGED playbook
    BY <2>3, <2>4 DEF PlaybookInv
  <2>5. CASE /\ work[p].base + 1 \notin Versions
             /\ playbook' = Retired(playbook)
                    \cup {[version |-> work[p].base + 1, active |-> TRUE]}
    <3>1. work[p].base = n
      BY <2>1, <2>5, PlaybookRead
    <3>2. playbook' = Playbook(n + 1)
      BY <2>5, <3>1, PlaybookRewritten
    <3> QED
      BY <2>3, <3>2 DEF PlaybookInv
  <2> QED
    BY <1>2, <2>4, <2>5 DEF ReflectPersist
<1> QED
  BY <1>1, <1>2

\* The playbook has one active version, the newest of a history without gaps,
\* though reflectors of several processes read it, ask an LLM for minutes and
\* write it back in another transaction (node_persist of both reflectors).
THEOREM OnePlaybookHolds == Spec => []OnePlaybook
<1>1. Init => PlaybookInv
  BY PlaybookInit
<1>2. PlaybookInv /\ [Next]_vars => PlaybookInv'
  BY PlaybookStep
<1>3. PlaybookInv => OnePlaybook
  <2> SUFFICES ASSUME NEW n \in Nat, playbook = Playbook(n) PROVE OnePlaybook
    BY DEF PlaybookInv
  <2>1. Cardinality(playbook) = n /\ (playbook # {} => n # 0)
    BY PlaybookSize DEF Playbook
  <2> QED
    BY <2>1, PlaybookRead DEF OnePlaybook
<1> QED
  BY <1>1, <1>2, <1>3, PTL DEF Spec

-----------------------------------------------------------------------------
(* The scheduler.                                                          *)

Ticks == [held : SUBSET Scheduled, due : SUBSET Scheduled, now : Nat]

\* Every firing so far is one stamp after another, up to the last stamp.
Firings ==
    \A a \in Scheduled :
        /\ \A i, j \in DOMAIN fired[a] : i < j => fired[a][i] < fired[a][j]
        /\ \A i \in DOMAIN fired[a] : fired[a][i] \in 1 .. stamps[a]
        /\ stamps[a] = IF fired[a] = <<>> THEN 0 ELSE Last(fired[a])

\* What a tick found due is its own, and still due, until it commits or dies.
TicksOwn ==
    /\ \A p \in Processes : /\ tick[p].due \subseteq tick[p].held
                            /\ \A a \in tick[p].due : stamps[a] < tick[p].now
    /\ \A p, q \in Processes : p # q => tick[p].held \cap tick[q].held = {}

FiringTypes ==
    /\ day \in Nat \ {0}
    /\ stamps \in [Scheduled -> Nat]
    /\ fired \in [Scheduled -> Seq(Nat)]
    /\ tick \in [Processes -> Ticks]

FiringInv == FiringTypes /\ Firings /\ TicksOwn

\* One agent's firing.
LEMMA FireOne ==
    ASSUME NEW f \in Seq(Nat), NEW last \in Nat, NEW now \in Nat, last < now,
           \A i, j \in DOMAIN f : i < j => f[i] < f[j],
           \A i \in DOMAIN f : f[i] \in 1 .. last
    PROVE  LET g == Append(f, now)
           IN /\ g \in Seq(Nat) /\ g # <<>> /\ Last(g) = now
              /\ \A i, j \in DOMAIN g : i < j => g[i] < g[j]
              /\ \A i \in DOMAIN g : g[i] \in 1 .. now
<1> DEFINE g == Append(f, now)
<1>1. /\ g \in Seq(Nat) /\ g # <<>> /\ Len(g) = Len(f) + 1 /\ Len(f) \in Nat
      /\ DOMAIN g = 1 .. Len(f) + 1 /\ DOMAIN f = 1 .. Len(f)
      /\ \A i \in 1 .. Len(f) : g[i] = f[i]
      /\ g[Len(f) + 1] = now
  BY AppendProperties, LenProperties
<1> HIDE DEF g
<1>2. Last(g) = now
  BY <1>1 DEF Last
<1>3. \A i \in 1 .. Len(f) : g[i] \in 1 .. last
  BY <1>1
<1>4. \A i \in DOMAIN g : g[i] \in 1 .. now
  <2> SUFFICES ASSUME NEW i \in DOMAIN g PROVE g[i] \in 1 .. now
    OBVIOUS
  <2>1. CASE i \in 1 .. Len(f)
    <3>1. g[i] \in 1 .. last
      BY <1>3, <2>1
    <3> QED
      BY <3>1
  <2>2. CASE i = Len(f) + 1
    <3>1. g[i] = now
      BY <1>1, <2>2
    <3> QED
      BY <3>1
  <2> QED
    BY <1>1, <2>1, <2>2
<1>5. ASSUME NEW i \in DOMAIN g, NEW j \in DOMAIN g, i < j
      PROVE  g[i] < g[j]
  <2>1. i \in 1 .. Len(f)
    BY <1>1, <1>5
  <2>2. CASE j \in 1 .. Len(f)
    BY <1>1, <1>5, <2>1, <2>2
  <2>3. CASE j = Len(f) + 1
    BY <1>1, <1>3, <2>1, <2>3
  <2> QED
    BY <1>1, <2>2, <2>3
<1> QED
  BY <1>1, <1>2, <1>4, <1>5 DEF g

LEMMA FiringInit == Init => FiringInv
<1> SUFFICES ASSUME Init PROVE FiringInv
  OBVIOUS
<1>1. fired \in [Scheduled -> Seq(Nat)] /\ \A a \in Scheduled : fired[a] = <<>>
  BY EmptySeq DEF Init
<1>2. tick \in [Processes -> Ticks] /\ \A p \in Processes : tick[p].due = {} /\ tick[p].held = {}
  BY DEF Init, NoTick, Ticks
<1>3. \A a \in Scheduled : DOMAIN fired[a] = {}
  BY <1>1, EmptySeq, LenProperties
<1> QED
  BY <1>1, <1>2, <1>3 DEF Init, FiringInv, FiringTypes, Firings, TicksOwn

LEMMA FiringStep == FiringInv /\ [Next]_vars => FiringInv'
<1> SUFFICES ASSUME FiringInv, [Next]_vars PROVE FiringInv'
  OBVIOUS
<1> USE DEF FiringInv, FiringTypes
<1>1. CASE UNCHANGED <<day, stamps, fired, tick>>
  BY <1>1 DEF Firings, TicksOwn
<1>2. ASSUME NEW p \in Processes, tick' = [tick EXCEPT ![p] = NoTick],
             UNCHANGED <<day, stamps, fired>>
      PROVE  FiringInv'
  <2>1. NoTick \in Ticks /\ NoTick.held = {} /\ NoTick.due = {}
    BY DEF NoTick, Ticks
  <2>2. tick' \in [Processes -> Ticks]
    BY <1>2, <2>1
  <2>3. TicksOwn'
    BY <1>2, <2>1 DEF TicksOwn
  <2> QED
    BY <1>2, <2>2, <2>3 DEF Firings
<1>3. ASSUME NEW p \in Processes, TickOpen(p) PROVE FiringInv'
  <2> DEFINE new == [held |-> Free, due |-> { a \in Free : Due(a) }, now |-> day]
  <2>1. tick' = [tick EXCEPT ![p] = new] /\ UNCHANGED <<day, stamps, fired>>
    BY <1>3 DEF TickOpen
  <2>2. new \in Ticks /\ new.held = Free /\ new.due \subseteq Free /\ new.now = day
    BY DEF Ticks, Free
  <2>3. \A a \in new.due : stamps[a] < day
    BY DEF Due, Free
  <2> HIDE DEF new
  <2>4. \A q \in Processes : tick[q].held \cap Free = {}
    BY DEF Free
  <2>5. TicksOwn'
    BY <2>1, <2>2, <2>3, <2>4 DEF TicksOwn
  <2> QED
    BY <2>1, <2>2, <2>5 DEF Firings
<1>4. ASSUME NEW p \in Processes, TickCommit(p) PROVE FiringInv'
  <2>1. PICK S \in SUBSET tick[p].due :
           /\ stamps' = [a \in Scheduled |-> IF a \in S THEN tick[p].now ELSE stamps[a]]
           /\ fired' = [a \in Scheduled |-> IF a \in S THEN Append(fired[a], tick[p].now)
                                                       ELSE fired[a]]
    BY <1>4 DEF TickCommit
  <2>2. tick' = [tick EXCEPT ![p] = NoTick] /\ UNCHANGED day
    BY <1>4 DEF TickCommit
  <2>3. NoTick \in Ticks /\ NoTick.held = {} /\ NoTick.due = {}
    BY DEF NoTick, Ticks
  <2>4. tick[p].now \in Nat /\ S \subseteq Scheduled
    BY DEF Ticks
  <2>5. ASSUME NEW a \in Scheduled
        PROVE  /\ fired'[a] \in Seq(Nat) /\ stamps'[a] \in Nat
               /\ \A i, j \in DOMAIN fired'[a] : i < j => fired'[a][i] < fired'[a][j]
               /\ \A i \in DOMAIN fired'[a] : fired'[a][i] \in 1 .. stamps'[a]
               /\ stamps'[a] = IF fired'[a] = <<>> THEN 0 ELSE Last(fired'[a])
    <3>1. CASE a \in S
      <4>1. stamps[a] < tick[p].now /\ stamps[a] \in Nat /\ fired[a] \in Seq(Nat)
        BY <3>1 DEF TicksOwn
      <4>2. fired'[a] = Append(fired[a], tick[p].now) /\ stamps'[a] = tick[p].now
        BY <2>1, <3>1
      <4>3. /\ \A i, j \in DOMAIN fired[a] : i < j => fired[a][i] < fired[a][j]
            /\ \A i \in DOMAIN fired[a] : fired[a][i] \in 1 .. stamps[a]
        BY DEF Firings
      <4> DEFINE g == Append(fired[a], tick[p].now)
      <4>4. /\ g \in Seq(Nat) /\ g # <<>> /\ Last(g) = tick[p].now
            /\ \A i, j \in DOMAIN g : i < j => g[i] < g[j]
            /\ \A i \in DOMAIN g : g[i] \in 1 .. tick[p].now
        BY <2>4, <4>1, <4>3, FireOne
      <4>5. fired'[a] = g
        BY <4>2
      <4> HIDE DEF g
      <4> QED
        BY <2>4, <4>2, <4>4, <4>5
    <3>2. CASE a \notin S
      <4>1. fired'[a] = fired[a] /\ stamps'[a] = stamps[a]
        BY <2>1, <3>2
      <4> QED
        BY <4>1 DEF Firings
    <3> QED
      BY <3>1, <3>2
  <2>6. FiringTypes'
    BY <2>1, <2>2, <2>3, <2>5
  <2>7. Firings'
    BY <2>5 DEF Firings
  <2>8. TicksOwn'
    <3>1. \A q \in Processes : q # p => tick'[q] = tick[q]
      BY <2>2
    <3>2. tick'[p] = NoTick
      BY <2>2
    <3>3. \A q \in Processes : q # p => \A a \in tick[q].due : stamps'[a] = stamps[a]
      BY <2>1, <2>4 DEF TicksOwn, Ticks
    <3>4. ASSUME NEW q \in Processes
          PROVE  /\ tick'[q].due \subseteq tick'[q].held
                 /\ \A a \in tick'[q].due : stamps'[a] < tick'[q].now
      <4>1. CASE q = p
        BY <2>3, <3>2, <4>1
      <4>2. CASE q # p
        <5>1. tick'[q] = tick[q] /\ \A a \in tick[q].due : stamps'[a] = stamps[a]
          BY <3>1, <3>3, <4>2
        <5> QED
          BY <5>1 DEF TicksOwn
      <4> QED
        BY <4>1, <4>2
    <3>5. ASSUME NEW q \in Processes, NEW u \in Processes, q # u
          PROVE  tick'[q].held \cap tick'[u].held = {}
      <4>1. CASE q = p \/ u = p
        BY <2>3, <3>2, <4>1
      <4>2. CASE q # p /\ u # p
        BY <3>1, <3>5, <4>2 DEF TicksOwn
      <4> QED
        BY <4>1, <4>2
    <3> QED
      BY <3>4, <3>5 DEF TicksOwn
  <2> QED
    BY <2>6, <2>7, <2>8
<1>5. ASSUME NEW p \in Processes, Fault(p) PROVE FiringInv'
  <2>1. UNCHANGED <<day, stamps, fired>>
    BY <1>5 DEF Fault
  <2>2. UNCHANGED tick \/ tick' = [tick EXCEPT ![p] = NoTick]
    BY <1>5 DEF Fault
  <2> QED
    BY <2>1, <2>2, <1>1, <1>2
<1>6. CASE NextDay
  BY <1>6 DEF NextDay, Firings, TicksOwn
<1>7. ASSUME NEW p \in Processes,
             \/ \E r \in DOMAIN runs : Claim(p, r)
             \/ Produce(p) \/ ReflectCollect(p) \/ ReflectLearn(p) \/ ReflectPersist(p)
             \/ CeoSeed(p) \/ CeoBrief(p) \/ Commit(p) \/ CutShort(p)
      PROVE  UNCHANGED Clock
  BY <1>7 DEF Claim, Produce, ReflectCollect, ReflectLearn, ReflectPersist, CeoSeed,
              CeoBrief, Commit, CutShort
<1>8. CASE \/ \E e \in events : Deliver(e)
           \/ \E a \in Triggered \cap Agents : Trigger(a)
           \/ \E r \in DOMAIN runs : Decide(r)
           \/ SetTarget
  BY <1>1, <1>8 DEF Deliver, Trigger, Decide, SetTarget, Clock
<1>9. CASE UNCHANGED Clock
  BY <1>1, <1>9 DEF Clock
<1>10. CASE UNCHANGED vars
  BY <1>1, <1>10 DEF vars
<1> QED
  BY <1>3, <1>4, <1>5, <1>6, <1>7, <1>8, <1>9, <1>10 DEF Next

\* A schedule fires at most once a day and a run exists for every stamp, for any
\* number of processes that tick at once, die or have a run refused (tick_once).
THEOREM FiredOnceHolds == Spec => []FiredOnce
<1>1. Init => FiringInv
  BY FiringInit
<1>2. FiringInv /\ [Next]_vars => FiringInv'
  BY FiringStep
<1>3. FiringInv => FiredOnce
  <2> SUFFICES ASSUME FiringInv, NEW a \in Scheduled PROVE IsInjective(fired[a])
    BY DEF FiringInv, Firings, FiredOnce
  <2>1. /\ DOMAIN fired[a] \subseteq Nat
        /\ \A i \in DOMAIN fired[a] : fired[a][i] \in Nat
        /\ \A i, j \in DOMAIN fired[a] : i < j => fired[a][i] < fired[a][j]
    BY LenProperties, ElementOfSeq DEF FiringInv, FiringTypes, Firings
  <2> QED
    BY <2>1 DEF IsInjective
<1> QED
  BY <1>1, <1>2, <1>3, PTL DEF Spec

-----------------------------------------------------------------------------
(* Lists of what a run hands to the runner.                                *)

\* SetToSeq lists a finite set, every element once.
LEMMA Listed ==
    ASSUME NEW S, IsFiniteSet(S)
    PROVE  /\ Cardinality(S) \in Nat
           /\ SetToSeq(S) \in [1 .. Cardinality(S) -> S]
           /\ \A i, j \in 1 .. Cardinality(S) :
                 SetToSeq(S)[i] = SetToSeq(S)[j] => i = j
           /\ \A a \in S : \E i \in 1 .. Cardinality(S) : SetToSeq(S)[i] = a
<1> DEFINE n == Cardinality(S)
           q == SetToSeq(S)
<1>1. n \in Nat /\ ExistsBijection(1 .. n, S)
  BY FS_CardinalityType
<1>2. PICK f \in [1 .. n -> S] : IsInjective(f)
  BY <1>1 DEF ExistsBijection, Bijection, Injection, IsInjective
<1>3. q \in [1 .. n -> S] /\ IsInjective(q)
  BY <1>1, <1>2 DEF SetToSeq
<1> HIDE DEF q, n
<1>4. \A i, j \in 1 .. n : q[i] = q[j] => i = j
  BY <1>3 DEF IsInjective
<1>5. q \in Injection(1 .. n, S)
  BY <1>3, <1>4 DEF Injection
<1>6. Cardinality(1 .. n) = n /\ Cardinality(S) = n
  BY <1>1, FS_Interval DEF n
<1>7. q \in Surjection(1 .. n, S)
  BY <1>5, <1>6, FS_Injection
<1>8. \A a \in S : \E i \in 1 .. n : q[i] = a
  BY <1>7 DEF Surjection
<1> QED
  BY <1>1, <1>3, <1>4, <1>8 DEF n, q

\* One thing made of every element of a finite set: a finite set of things.
LEMMA Images ==
    ASSUME NEW S, IsFiniteSet(S), NEW f, DOMAIN f = S
    PROVE  IsFiniteSet({ f[x] : x \in S })
<1> DEFINE T == { f[x] : x \in S }
           g == [x \in S |-> f[x]]
<1>1. g \in [S -> T] /\ \A y \in T : \E x \in S : g[x] = y
  OBVIOUS
<1>2. g \in Surjection(S, T)
  BY <1>1 DEF Surjection
<1> QED
  BY <1>2, FS_Surjection

\* The list of such things.
LEMMA Lists ==
    ASSUME NEW S, IsFiniteSet(S), NEW f, DOMAIN f = S,
           NEW T, T = { f[x] : x \in S }
    PROVE  SetToSeq(T) \in Seq(T)
<1> DEFINE n == Cardinality(T)
           q == SetToSeq(T)
<1>1. IsFiniteSet(T)
  BY Images
<1>2. n \in Nat /\ q \in [1 .. n -> T]
  BY <1>1, Listed
<1> HIDE DEF n, q
<1>3. q \in Seq(T)
  BY <1>2, SeqDef
<1> QED
  BY <1>3 DEF q

\* Two lists in a row.
LEMMA Joined ==
    ASSUME NEW S, NEW s \in Seq(S), NEW T, NEW t \in Seq(T)
    PROVE  /\ s \o t \in Seq(S \cup T)
           /\ Len(s \o t) = Len(s) + Len(t)
           /\ \A i \in DOMAIN s : i \in DOMAIN (s \o t) /\ (s \o t)[i] = s[i]
           /\ \A i \in DOMAIN t : Len(s) + i \in DOMAIN (s \o t) /\ (s \o t)[Len(s) + i] = t[i]
           /\ \A i \in DOMAIN (s \o t) :
                 \/ i \in DOMAIN s
                 \/ i - Len(s) \in DOMAIN t /\ (s \o t)[i] = t[i - Len(s)]
<1>1. s \in Seq(S \cup T) /\ t \in Seq(S \cup T)
  <2>1. S \subseteq S \cup T /\ T \subseteq S \cup T
    OBVIOUS
  <2> QED
    BY <2>1, SeqMonotonic
<1>2. /\ s \o t \in Seq(S \cup T) /\ Len(s \o t) = Len(s) + Len(t)
      /\ \A i \in 1 .. Len(s) + Len(t) :
            (s \o t)[i] = IF i <= Len(s) THEN s[i] ELSE t[i - Len(s)]
  BY <1>1, ConcatProperties
<1>3. /\ DOMAIN s = 1 .. Len(s) /\ DOMAIN t = 1 .. Len(t)
      /\ Len(s) \in Nat /\ Len(t) \in Nat
      /\ DOMAIN (s \o t) = 1 .. Len(s) + Len(t)
  BY <1>2, LenProperties
<1> DEFINE u == s \o t
<1> HIDE DEF u
<1>4. \A i \in 1 .. Len(s) + Len(t) : u[i] = IF i <= Len(s) THEN s[i] ELSE t[i - Len(s)]
  BY <1>2 DEF u
<1>5. DOMAIN u = 1 .. Len(s) + Len(t)
  BY <1>3 DEF u
<1>6. \A i \in DOMAIN s : i \in DOMAIN u /\ u[i] = s[i]
  BY <1>3, <1>4, <1>5
<1>7. \A i \in DOMAIN t : Len(s) + i \in DOMAIN u /\ u[Len(s) + i] = t[i]
  <2> SUFFICES ASSUME NEW i \in 1 .. Len(t)
               PROVE  Len(s) + i \in DOMAIN u /\ u[Len(s) + i] = t[i]
    BY <1>3
  <2>1. Len(s) + i \in 1 .. Len(s) + Len(t) /\ ~(Len(s) + i <= Len(s)) /\ Len(s) + i - Len(s) = i
    BY <1>3
  <2> QED
    BY <1>4, <1>5, <2>1
<1>8. \A i \in DOMAIN u : i \in DOMAIN s \/ (i - Len(s) \in DOMAIN t /\ u[i] = t[i - Len(s)])
  BY <1>3, <1>4, <1>5
<1> QED
  BY <1>2, <1>6, <1>7, <1>8 DEF u

-----------------------------------------------------------------------------
(* Runs and the processes that execute them.                               *)

States == {"pending", "running", "awaiting", "completed", "failed", "stuck", "lost"}
Steps  == {"idle", "start", "collected", "learned", "seeded", "done"}
Recommendation == <<"pricing", "recommendation">>
Tasks == Seq([to : ValidTargets, title : Titles])

RunOf == [agent : Agents, state : States, granted : BOOLEAN, tasks : Tasks]

\* What run r hands to the runner when it is done.
Advises(e, r) ==
    \/ /\ runs[r].agent = "pricing"
       /\ \E a \in Apps : e.out = <<Event(r, Recommendation, a, Blank)>>
    \/ /\ runs[r].agent # "pricing" /\ ~e.asks
       /\ \A i \in DOMAIN e.out : e.out[i].type # Recommendation

\* What Outputs gives: events of the run; only pricing recommends, once, and
\* asks a person.
Delivered(o, r, agent) ==
    /\ \E S : o.out \in Seq(S)
    /\ \A i \in DOMAIN o.out : o.out[i].run = r
    /\ o.asks \in BOOLEAN
    /\ \/ agent = "pricing" /\ \E a \in Apps : o.out = <<Event(r, Recommendation, a, Blank)>>
       \/ agent # "pricing" /\ ~o.asks
             /\ \A i \in DOMAIN o.out : o.out[i].type # Recommendation

LEMMA OutputsKnown ==
    ASSUME NEW r, NEW agent \in Agents \ {"reflector", "ceo"}, NEW o \in Outputs(r, agent)
    PROVE  Delivered(o, r, agent)
<1> USE DEF Delivered
<1> DEFINE Plain(q) == /\ \E S : q \in Seq(S)
                       /\ \A i \in DOMAIN q : q[i].run = r /\ q[i].type # Recommendation
<1>1. ASSUME NEW q, Plain(q), o = Quiet(q), agent # "pricing"
      PROVE  /\ \E S : o.out \in Seq(S)
             /\ \A i \in DOMAIN o.out : o.out[i].run = r
             /\ o.asks \in BOOLEAN
             /\ agent # "pricing" /\ ~o.asks
             /\ \A i \in DOMAIN o.out : o.out[i].type # Recommendation
  <2>1. o.out = q /\ o.asks = FALSE
    BY <1>1 DEF Quiet
  <2> QED
    BY <1>1, <2>1
<1>2. Plain(<<>>)
  <2>1. <<>> \in Seq({}) /\ DOMAIN <<>> = {}
    BY EmptySeq, LenProperties
  <2> QED
    BY <2>1
<1>3. ASSUME NEW type, NEW about, NEW title, type # Recommendation
      PROVE  Plain(<<Event(r, type, about, title)>>)
  <2> DEFINE e == Event(r, type, about, title)
  <2>1. e.run = r /\ e.type = type
    BY DEF Event
  <2> HIDE DEF e
  <2>2. <<e>> \in Seq({e}) /\ DOMAIN <<e>> = {1} /\ <<e>>[1] = e
    OBVIOUS
  <2> QED
    BY <1>3, <2>1, <2>2 DEF e
<1>4. ASSUME NEW type, type # Recommendation
      PROVE  Plain(PerApp(r, type))
  <2> DEFINE f == [a \in Apps |-> Event(r, type, a, Blank)]
  <2>1. { f[a] : a \in Apps } = { Event(r, type, a, Blank) : a \in Apps }
    OBVIOUS
  <2>2. \A a \in Apps : f[a].run = r /\ f[a].type = type
    BY DEF Event
  <2>3. DOMAIN f = Apps
    OBVIOUS
  <2> HIDE DEF f
  <2>11. PICK T : T = { f[a] : a \in Apps }
    OBVIOUS
  <2>10. PICK q : q = SetToSeq(T)
    OBVIOUS
  <2>4. q \in Seq(T)
    BY <2>3, <2>10, <2>11, Finite, Lists
  <2>7. \A i \in DOMAIN q : q[i] \in T
    BY <2>4, LenProperties, ElementOfSeq
  <2>5. PerApp(r, type) = q
    BY <2>1, <2>10, <2>11 DEF PerApp
  <2>6. \A i \in DOMAIN q : q[i].run = r /\ q[i].type # Recommendation
    BY <1>4, <2>2, <2>7, <2>11
  <2> QED
    BY <2>4, <2>5, <2>6
<1>5. ASSUME NEW S \in SUBSET (Apps \X Metrics)
      PROVE  Plain(Anomalies(r, S))
  <2> DEFINE f == [m \in S |-> Event(r, <<"growth", "anomaly_detected">>, m[1], m[2])]
  <2>1. { f[m] : m \in S } = { Event(r, <<"growth", "anomaly_detected">>, m[1], m[2]) : m \in S }
    OBVIOUS
  <2>2. \A m \in S : f[m].run = r /\ f[m].type = <<"growth", "anomaly_detected">>
    BY DEF Event
  <2>3. DOMAIN f = S
    OBVIOUS
  <2>4. IsFiniteSet(S)
    BY Finite, FS_Product, FS_Subset
  <2> HIDE DEF f
  <2>11. PICK T : T = { f[m] : m \in S }
    OBVIOUS
  <2>10. PICK q : q = SetToSeq(T)
    OBVIOUS
  <2>5. q \in Seq(T)
    BY <2>3, <2>4, <2>10, <2>11, Lists
  <2>9. \A i \in DOMAIN q : q[i] \in T
    BY <2>5, LenProperties, ElementOfSeq
  <2>6. Anomalies(r, S) = q
    BY <2>1, <2>10, <2>11 DEF Anomalies
  <2>7. <<"growth", "anomaly_detected">> # Recommendation
    BY DEF Recommendation
  <2>8. \A i \in DOMAIN q : q[i].run = r /\ q[i].type # Recommendation
    BY <2>2, <2>7, <2>9, <2>11
  <2> QED
    BY <2>5, <2>6, <2>8
<1>6. ASSUME NEW s, NEW t, Plain(s), Plain(t) PROVE Plain(s \o t)
  <2>1. PICK S, T : s \in Seq(S) /\ t \in Seq(T)
    BY <1>6
  <2>2. /\ s \o t \in Seq(S \cup T)
        /\ \A i \in DOMAIN s : (s \o t)[i] = s[i]
        /\ \A i \in DOMAIN (s \o t) :
              i \in DOMAIN s \/ (i - Len(s) \in DOMAIN t /\ (s \o t)[i] = t[i - Len(s)])
    BY <2>1, Joined
  <2> QED
    BY <1>6, <2>2
<1>7. /\ <<"growth", "weekly_report">> # Recommendation
      /\ <<"marketing", "report">> # Recommendation
      /\ <<"qa", "smoke_failed">> # Recommendation
      /\ <<"analyst", "daily_report">> # Recommendation
      /\ \A v : <<"qa", v>> # Recommendation /\ <<"experiment", v>> # Recommendation
  BY DEF Recommendation
<1> HIDE DEF Plain
<1>8. CASE agent = "pricing"
  <2>1. Outputs(r, "pricing") = Recommends(r)
    BY DEF Outputs, Reporters
  <2> DEFINE given(a, priced) == [out |-> <<Event(r, Recommendation, a, Blank)>>, asks |-> priced]
  <2>5. Outputs(r, "pricing") = { given(a, priced) : a \in Apps, priced \in BOOLEAN }
    <3>1. Recommends(r) = { given(a, priced) : a \in Apps, priced \in BOOLEAN }
      BY DEF Recommends, Recommendation
    <3> HIDE DEF given
    <3> QED
      BY <2>1, <3>1
  <2>6. \A a, priced : given(a, priced).out = <<Event(r, Recommendation, a, Blank)>> /\ given(a, priced).asks = priced
    OBVIOUS
  <2> HIDE DEF given
  <2>2. PICK a \in Apps, priced \in BOOLEAN : o = given(a, priced)
    BY <1>8, <2>5
  <2> DEFINE e == Event(r, Recommendation, a, Blank)
  <2>3. o.out = <<e>> /\ o.asks = priced /\ e.run = r
    BY <2>2, <2>6 DEF Event
  <2> HIDE DEF e
  <2>4. <<e>> \in Seq({e}) /\ DOMAIN <<e>> = {1} /\ <<e>>[1] = e
    OBVIOUS
  <2>7. o.out \in Seq({e}) /\ \A i \in DOMAIN o.out : o.out[i].run = r
    BY <2>3, <2>4
  <2> QED
    BY <1>8, <2>3, <2>7 DEF e
<1>9. CASE agent = "growth-intel"
  <2>0. Outputs(r, "growth-intel") = GrowthReports(r)
    BY DEF Outputs, Reporters
  <2>1. PICK S \in SUBSET (Apps \X Metrics) :
           o = Quiet(Anomalies(r, S) \o PerApp(r, <<"growth", "weekly_report">>))
    BY <1>9, <2>0 DEF GrowthReports
  <2>2. Plain(Anomalies(r, S) \o PerApp(r, <<"growth", "weekly_report">>))
    BY <1>4, <1>5, <1>6, <1>7
  <2> QED
    BY <1>1, <1>9, <2>1, <2>2
<1>10. CASE agent = "growth-exec"
  <2>1. o = Quiet(<<>>) \/ \E lane : o = Quiet(<<Event(r, <<"experiment", lane>>, "new", Blank)>>)
    BY <1>10 DEF Outputs, Experiments
  <2> QED
    BY <1>1, <1>2, <1>3, <1>7, <1>10, <2>1
<1>11. CASE agent = "marketing"
  <2>0. Outputs(r, "marketing") = MarketingReport(r)
    BY DEF Outputs, Reporters
  <2>1. o = Quiet(PerApp(r, <<"marketing", "report">>))
    BY <1>11, <2>0 DEF MarketingReport
  <2> QED
    BY <1>1, <1>4, <1>7, <1>11, <2>1
<1>12. CASE agent = "qa"
  <2>1. o = Quiet(<<>>) \/ \E v : o = Quiet(<<Event(r, <<"qa", v>>, Blank, Blank)>>)
    BY <1>12 DEF Outputs, QaVerdict, SmokeTest
  <2> QED
    BY <1>1, <1>2, <1>3, <1>7, <1>12, <2>1
<1>13. CASE agent = "analyst-daily"
  <2>1. o = Quiet(<<>>) \/ o = Quiet(<<Event(r, <<"analyst", "daily_report">>, Blank, Blank)>>)
    BY <1>13 DEF Outputs, DailyReport
  <2> QED
    BY <1>1, <1>2, <1>3, <1>7, <1>13, <2>1
<1>14. CASE agent \in Reporters
  <2>1. o = Quiet(<<>>)
    BY <1>14 DEF Outputs, Reporters
  <2>2. agent # "pricing"
    BY <1>14 DEF Reporters
  <2> QED
    BY <1>1, <1>2, <2>1, <2>2
<1>15. agent \in {"pricing", "growth-intel", "growth-exec", "marketing", "qa", "analyst-daily"} \cup Reporters
  BY DEF Agents, AgentsOf
<1> QED
  BY <1>8, <1>9, <1>10, <1>11, <1>12, <1>13, <1>14, <1>15

\* An execution of run r, or none.
Fields == {"run", "step", "base", "knew", "out", "asks"}

Executes(e, r) ==
    /\ DOMAIN e = Fields
    /\ e.run = r /\ e.step \in Steps /\ e.knew \in BOOLEAN /\ e.asks \in BOOLEAN
    /\ \E S : e.out \in Seq(S)
    /\ \A i \in DOMAIN e.out : e.out[i].run = r
    /\ r = 0 => e = NoRun
    /\ e.step # "done" => e.out = <<>> /\ ~e.asks

\* Every running run has a process of its own.
Executed ==
    /\ work = [p \in Processes |-> work[p]]
    /\ \A p \in Processes : /\ work[p].run \in {0} \cup DOMAIN runs
                            /\ Executes(work[p], work[p].run)
    /\ \A p \in Processes : work[p].run # 0 => runs[work[p].run].state = "running"
    /\ \A p, q \in Processes : p # q /\ work[p].run # 0 => work[p].run # work[q].run
    /\ \A r \in DOMAIN runs : runs[r].state = "running" => \E p \in Processes : work[p].run = r

WorkInv == studio \in Studios /\ seeded \in BOOLEAN /\ runs \in Seq(RunOf) /\ Executed

-----------------------------------------------------------------------------
(* What a step does to the runs, whatever it is called.                    *)

Stays == UNCHANGED <<studio, runs, work, events, seeded, recommended>>

\* Runs are enqueued.
Adds ==
    /\ runs' \in Seq(RunOf) /\ DOMAIN runs \subseteq DOMAIN runs'
    /\ \A r \in DOMAIN runs : runs'[r] = runs[r]
    /\ \A r \in DOMAIN runs' \ DOMAIN runs : \E a \in Agents : runs'[r] = NewRun(a)
    /\ UNCHANGED <<studio, work, events, seeded, recommended>>

\* Run r becomes x.
Becomes(r, x) ==
    /\ r \in DOMAIN runs /\ runs' = [runs EXCEPT ![r] = x] /\ x \in RunOf
    /\ x.agent = runs[r].agent
    /\ studio' = studio

\* Process p turns to e.
Turns(p, e) ==
    /\ p \in Processes /\ work' = [work EXCEPT ![p] = e]
    /\ Executes(e, e.run)

Starts(p, r, e, x) ==
    /\ Becomes(r, x) /\ Turns(p, e)
    /\ work[p].run = 0 /\ runs[r].state = "pending"
    /\ x.state = "running" /\ x.granted = runs[r].granted
    /\ x.tasks = runs[r].tasks
    /\ e.run = r /\ e.step = "start" /\ e.knew = seeded
    /\ UNCHANGED <<events, seeded, recommended>>

Continues(p, r, e, x) ==
    /\ Becomes(r, x) /\ Turns(p, e)
    /\ work[p].run = r /\ e.run = r /\ e.step \notin {"idle", "start"}
    /\ x.state = runs[r].state /\ x.granted = runs[r].granted
    /\ \/ /\ x = runs[r] /\ runs[r].agent = "reflector"
          /\ e.out = <<>> /\ ~e.asks
       \/ /\ x = runs[r] /\ runs[r].agent \notin {"reflector", "ceo"}
          /\ Advises(e, r) /\ e.step = "done"
       \/ x = runs[r] /\ runs[r].agent = "ceo" /\ e.step = "seeded"
       \/ /\ runs[r].agent = "ceo" /\ e.step = "done"
          /\ e.out = Brief(r, x.tasks) /\ ~e.asks
    /\ UNCHANGED <<events, seeded, recommended>>

\* The first n events of out, whose types are registered.
Passes(out, in, n) ==
    /\ n \in 0 .. Len(out) /\ DOMAIN in = 1 .. n
    /\ \A i \in 1 .. n : in[i] = out[i] /\ out[i].type \in Schemas
    /\ in = out <=> n = Len(out)

\* The next one, if there is one, is refused.
Stops(out, n) ==
    n < Len(out) => /\ n + 1 \in DOMAIN out
                    /\ out[n + 1].type \notin Schemas \/ Loose(out[n + 1].type)

\* In which state the run of e ends when the first n of its events are committed.
Outcome(e, in, n, state) ==
    \/ in = e.out /\ state = IF e.asks THEN "awaiting" ELSE "completed"
    \/ state = "failed" /\ (in = <<>> \/ e.asks \/ (in # e.out /\ Stops(e.out, n)))

\* A commit of the events in, or the failure of one.
Records(p, r, in, n, state) ==
    \/ Clashes(in) /\ state = "stuck" /\ UNCHANGED <<events, seeded, recommended>>
    \/ /\ ~Clashes(in) /\ Outcome(work[p], in, n, state)
       /\ events' = events \cup ToSet(in)
       /\ recommended' = recommended \o Recommendations(r, in)
       /\ seeded' = (seeded \/ runs[r].agent = "ceo")

Ends(p, r, x) ==
    /\ Becomes(r, x) /\ Turns(p, NoRun)
    /\ work[p].run = r /\ x = [runs[r] EXCEPT !.state = x.state]
    /\ \/ x.state \in {"failed", "lost"} /\ UNCHANGED <<events, seeded, recommended>>
       \/ /\ work[p].step = "done"
          /\ \E in, n : /\ n \in Nat /\ Passes(work[p].out, in, n)
                         /\ Records(p, r, in, n, x.state)

Decides(r, x) ==
    /\ Becomes(r, x) /\ runs[r].state = "awaiting"
    /\ \/ x = [runs[r] EXCEPT !.state = "pending", !.granted = TRUE]
       \/ x = [runs[r] EXCEPT !.state = "failed"]
    /\ UNCHANGED <<work, events, seeded, recommended>>

\* A run that is enqueued.
LEMMA NewRunType ==
    ASSUME NEW a \in Agents
    PROVE  /\ NewRun(a) \in RunOf /\ NewRun(a).agent = a /\ NewRun(a).state = "pending"
           /\ ~NewRun(a).granted /\ NewRun(a).tasks = <<>>
<1>1. <<>> \in Tasks
  BY EmptySeq DEF Tasks
<1> QED
  BY <1>1 DEF NewRun, RunOf, States

LEMMA AddsOf ==
    ASSUME WorkInv, NEW N \in Seq(Agents),
           runs' = runs \o [i \in DOMAIN N |-> NewRun(N[i])],
           UNCHANGED <<studio, work, events, seeded, recommended>>
    PROVE  Adds
<1> DEFINE new == [i \in DOMAIN N |-> NewRun(N[i])]
<1>1. Len(N) \in Nat /\ DOMAIN N = 1 .. Len(N) /\ \A i \in DOMAIN N : N[i] \in Agents
  BY LenProperties, ElementOfSeq
<1>2. DOMAIN new = DOMAIN N /\ \A i \in DOMAIN N : new[i] = NewRun(N[i]) /\ new[i] \in RunOf
  BY <1>1, NewRunType
<1>3. new \in [1 .. Len(N) -> RunOf]
  BY <1>1, NewRunType
<1> HIDE DEF new
<1>4. new \in Seq(RunOf)
  BY <1>1, <1>3, SeqDef
<1>5. runs' = runs \o new
  BY DEF new
<1>6. runs \in Seq(RunOf)
  BY DEF WorkInv
<1>9. runs \o new \in Seq(RunOf)
  BY <1>4, <1>6, ConcatProperties
<1>10. /\ \A i \in DOMAIN runs : i \in DOMAIN (runs \o new) /\ (runs \o new)[i] = runs[i]
       /\ \A i \in DOMAIN (runs \o new) :
             \/ i \in DOMAIN runs
             \/ i - Len(runs) \in DOMAIN new /\ (runs \o new)[i] = new[i - Len(runs)]
  BY <1>4, <1>6, Joined
<1>7. /\ runs' \in Seq(RunOf)
      /\ \A i \in DOMAIN runs : i \in DOMAIN runs' /\ runs'[i] = runs[i]
      /\ \A i \in DOMAIN runs' :
            i \in DOMAIN runs \/ (i - Len(runs) \in DOMAIN new /\ runs'[i] = new[i - Len(runs)])
  BY <1>5, <1>9, <1>10
<1>8. \A r \in DOMAIN runs' \ DOMAIN runs : \E a \in Agents : runs'[r] = NewRun(a)
  <2> SUFFICES ASSUME NEW r \in DOMAIN runs', r \notin DOMAIN runs
               PROVE  \E a \in Agents : runs'[r] = NewRun(a)
    OBVIOUS
  <2>1. PICK i : i = r - Len(runs)
    OBVIOUS
  <2>2. i \in DOMAIN N /\ runs'[r] = new[i]
    BY <1>2, <1>7, <2>1
  <2> QED
    BY <1>1, <1>2, <2>2
<1> QED
  BY <1>7, <1>8 DEF Adds

LEMMA AddsOne ==
    ASSUME WorkInv, NEW a \in Agents, runs' = Append(runs, NewRun(a)),
           UNCHANGED <<studio, work, events, seeded, recommended>>
    PROVE  Adds
<1>1. NewRun(a) \in RunOf /\ runs \in Seq(RunOf)
  BY NewRunType DEF WorkInv
<1>2. /\ runs' \in Seq(RunOf) /\ Len(runs') = Len(runs) + 1
      /\ \A i \in 1 .. Len(runs) : runs'[i] = runs[i]
      /\ runs'[Len(runs) + 1] = NewRun(a)
  BY <1>1, AppendProperties
<1>3. /\ DOMAIN runs = 1 .. Len(runs) /\ Len(runs) \in Nat
      /\ DOMAIN runs' = 1 .. Len(runs) + 1
  BY <1>1, <1>2, LenProperties
<1> QED
  BY <1>2, <1>3 DEF Adds

LEMMA NoRunExecutes == Executes(NoRun, NoRun.run)
<1>1. <<>> \in Seq({}) /\ DOMAIN <<>> = {}
  BY EmptySeq, LenProperties
<1>2. /\ DOMAIN NoRun = Fields /\ NoRun.run = 0 /\ NoRun.step = "idle" /\ NoRun.knew = FALSE
      /\ NoRun.out = <<>> /\ NoRun.asks = FALSE
  BY DEF NoRun, Fields
<1> QED
  BY <1>1, <1>2 DEF Executes, Steps

\* Only agents of the studio get tasks.
LEMMA ExtractedTasks ==
    ASSUME NEW tasks \in Extracted
    PROVE  tasks \in Tasks
<1> DEFINE T == [to : ValidTargets, title : Titles]
           U == [to : Named \cap ValidTargets, title : Titles]
<1>1. U \subseteq T
  OBVIOUS
<1>2. MaxTasks \in Nat
  BY Bounds
<1> HIDE DEF T
<1>3. PICK n \in 0 .. MaxTasks : tasks \in [1 .. n -> U]
  BY DEF Extracted, TaskLists
<1> HIDE DEF U
<1>4. n \in Nat /\ tasks \in [1 .. n -> T]
  BY <1>1, <1>2, <1>3
<1>5. tasks \in Seq(T)
  BY <1>4, SeqDef
<1> QED
  BY <1>5 DEF Tasks, T

\* A brief: an event about the week, in the app studio, and one for each task.
Leads == IF studio = "amz" THEN 0 ELSE 1

LEMMA BriefKnown ==
    ASSUME NEW r, NEW tasks \in Tasks
    PROVE  /\ \E S : Brief(r, tasks) \in Seq(S)
           /\ \A i \in DOMAIN Brief(r, tasks) : Brief(r, tasks)[i].run = r
           /\ Len(Brief(r, tasks)) = Leads + Len(tasks)
           /\ \A i \in DOMAIN tasks :
                 /\ Leads + i \in DOMAIN Brief(r, tasks)
                 /\ Brief(r, tasks)[Leads + i]
                       = Event(r, TaskType(tasks[i].to), tasks[i].to, tasks[i].title)
           /\ \A k \in DOMAIN Brief(r, tasks) :
                 \/ Leads = 1 /\ k = 1
                       /\ Brief(r, tasks)[k] = Event(r, <<"ceo", "weekly_brief">>, Blank, Blank)
                 \/ k - Leads \in DOMAIN tasks
<1> DEFINE week == Event(r, <<"ceo", "weekly_brief">>, Blank, Blank)
           head == IF studio = "amz" THEN <<>> ELSE <<week>>
           give(i) == Event(r, TaskType(tasks[i].to), tasks[i].to, tasks[i].title)
           tail == [i \in DOMAIN tasks |-> give(i)]
           all == Brief(r, tasks)
<1>1. all = head \o tail
  BY DEF Brief
<1>2. week.run = r /\ \A i : give(i).run = r
  BY DEF Event
<1>3. Len(tasks) \in Nat /\ DOMAIN tasks = 1 .. Len(tasks)
  BY LenProperties DEF Tasks
<1> HIDE DEF all, week, give
<1>4. tail \in [1 .. Len(tasks) -> { give(i) : i \in DOMAIN tasks }] /\ DOMAIN tail = DOMAIN tasks
      /\ \A i \in DOMAIN tasks : tail[i] = give(i)
  BY <1>3
<1> HIDE DEF tail
<1>5. tail \in Seq({ give(i) : i \in DOMAIN tasks }) /\ Len(tail) = Len(tasks)
  <2> DEFINE G == { give(i) : i \in DOMAIN tasks }
             n == Len(tasks)
  <2>1. n \in Nat /\ tail \in [1 .. n -> G]
    BY <1>3, <1>4
  <2> HIDE DEF G, n
  <2>2. tail \in Seq(G)
    BY <2>1, SeqDef
  <2>3. DOMAIN tail = 1 .. n
    BY <2>1
  <2> QED
    BY <2>1, <2>2, <2>3, LenProperties DEF G, n
<1>6. /\ head \in Seq({week}) /\ Len(head) = Leads /\ Leads \in {0, 1}
      /\ \A k \in DOMAIN head : Leads = 1 /\ k = 1 /\ head[k] = week
  <2>1. <<>> \in Seq({week}) /\ Len(<<>>) = 0 /\ DOMAIN <<>> = {}
    BY EmptySeq, LenProperties
  <2>2. <<week>> \in Seq({week}) /\ Len(<<week>>) = 1 /\ DOMAIN <<week>> = {1} /\ <<week>>[1] = week
    OBVIOUS
  <2>3. CASE studio = "amz"
    <3>1. head = <<>> /\ Leads = 0
      BY <2>3 DEF Leads
    <3> QED
      BY <2>1, <3>1
  <2>4. CASE studio # "amz"
    <3>1. head = <<week>> /\ Leads = 1
      BY <2>4 DEF Leads
    <3> QED
      BY <2>2, <3>1
  <2> QED
    BY <2>3, <2>4
<1> HIDE DEF head
<1>7. PICK G : G = { give(i) : i \in DOMAIN tasks }
  OBVIOUS
<1>8. /\ head \o tail \in Seq({week} \cup G)
      /\ Len(head \o tail) = Len(head) + Len(tail)
      /\ \A i \in DOMAIN head : i \in DOMAIN (head \o tail) /\ (head \o tail)[i] = head[i]
      /\ \A i \in DOMAIN tail : Len(head) + i \in DOMAIN (head \o tail) /\ (head \o tail)[Len(head) + i] = tail[i]
      /\ \A i \in DOMAIN (head \o tail) :
            \/ i \in DOMAIN head
            \/ i - Len(head) \in DOMAIN tail /\ (head \o tail)[i] = tail[i - Len(head)]
  BY <1>5, <1>6, <1>7, Joined
<1>9. /\ all \in Seq({week} \cup G) /\ Len(all) = Leads + Len(tasks)
      /\ \A i \in DOMAIN head : i \in DOMAIN all /\ all[i] = head[i]
      /\ \A i \in DOMAIN tail : Leads + i \in DOMAIN all /\ all[Leads + i] = tail[i]
      /\ \A i \in DOMAIN all : \/ i \in DOMAIN head
                               \/ i - Leads \in DOMAIN tail /\ all[i] = tail[i - Leads]
  BY <1>1, <1>5, <1>6, <1>8
<1>10. \A i \in DOMAIN all : all[i].run = r
  <2> SUFFICES ASSUME NEW k \in DOMAIN all PROVE all[k].run = r
    OBVIOUS
  <2>1. CASE k \in DOMAIN head
    BY <1>2, <1>6, <1>9, <2>1
  <2>2. ASSUME NEW i, i \in DOMAIN tail, all[k] = tail[i] PROVE all[k].run = r
    BY <1>2, <1>4, <2>2
  <2> QED
    BY <1>9, <2>1, <2>2
<1>11. \A i \in DOMAIN tasks : Leads + i \in DOMAIN all /\ all[Leads + i] = give(i)
  BY <1>4, <1>9
<1>12. \A k \in DOMAIN all : (Leads = 1 /\ k = 1 /\ all[k] = week) \/ k - Leads \in DOMAIN tasks
  BY <1>4, <1>6, <1>9
<1> QED
  BY <1>9, <1>10, <1>11, <1>12 DEF all, week, give

\* What a commit accepts is the beginning of what the run hands over.
LEMMA AcceptedKnown ==
    ASSUME NEW S, NEW out \in Seq(S), NEW in \in Accepted(out)
    PROVE  \E n \in Nat : Passes(out, in, n) /\ Stops(out, n)
<1>1. Len(out) \in Nat /\ DOMAIN out = 1 .. Len(out)
  BY LenProperties
<1>2. PICK n \in 0 .. Len(out) :
         /\ in = SubSeq(out, 1, n)
         /\ \A i \in 1 .. n : out[i].type \in Schemas
         /\ n < Len(out) => out[n + 1].type \notin Schemas \/ Loose(out[n + 1].type)
  BY DEF Accepted
<1>3. n \in Nat /\ \A i \in 1 .. n : out[i] \in S
  BY <1>1, ElementOfSeq
<1>4. in \in Seq(S) /\ Len(in) = n /\ \A i \in 1 .. n : in[i] = out[i]
  <2>1. /\ in \in Seq(S)
        /\ Len(in) = IF 1 <= n THEN n - 1 + 1 ELSE 0
        /\ \A i \in 1 .. n - 1 + 1 : in[i] = out[1 + i - 1]
    BY <1>1, <1>2, <1>3, SubSeqProperties
  <2> QED
    BY <1>3, <2>1
<1>5. DOMAIN in = 1 .. n
  BY <1>4, LenProperties
<1>6. in = out <=> n = Len(out)
  BY <1>1, <1>4, SeqEqual
<1>7. n < Len(out) => n + 1 \in DOMAIN out
  BY <1>1, <1>3
<1> QED
  BY <1>2, <1>3, <1>4, <1>5, <1>6, <1>7 DEF Passes, Stops

LEMMA NothingPasses ==
    ASSUME NEW S, NEW out \in Seq(S)
    PROVE  Passes(out, <<>>, 0)
<1>1. Len(out) \in Nat /\ DOMAIN out = 1 .. Len(out)
  BY LenProperties
<1>2. DOMAIN <<>> = {} /\ <<>> \in Seq(S) /\ Len(<<>>) = 0 /\ 1 .. 0 = {}
  BY EmptySeq
<1>3. <<>> = out <=> 0 = Len(out)
  BY <1>1, <1>2, SeqEqual
<1> QED
  BY <1>1, <1>2, <1>3 DEF Passes

\* Every step is one of these.
LEMMA StepKinds ==
    ASSUME WorkInv, FiringTypes, [Next]_vars
    PROVE  \/ Stays \/ Adds
           \/ \E p, r, e, x : Starts(p, r, e, x) \/ Continues(p, r, e, x)
           \/ \E p, r, x : Ends(p, r, x)
           \/ \E r, x : Decides(r, x)
<1> DEFINE Kind == \/ Stays \/ Adds
                   \/ \E p, r, e, x : Starts(p, r, e, x) \/ Continues(p, r, e, x)
                   \/ \E p, r, x : Ends(p, r, x)
                   \/ \E r, x : Decides(r, x)
<1> SUFFICES Kind
  OBVIOUS
<1>1. /\ runs \in Seq(RunOf) /\ DOMAIN runs \subseteq Nat \ {0}
      /\ \A r \in DOMAIN runs : runs[r] \in RunOf
      /\ studio \in Studios
  BY LenProperties, ElementOfSeq DEF WorkInv
<1>2. /\ work = [p \in Processes |-> work[p]] /\ DOMAIN work = Processes
      /\ \A p \in Processes : /\ work[p].run \in {0} \cup DOMAIN runs
                              /\ Executes(work[p], work[p].run)
      /\ \A p \in Processes : work[p].run # 0 =>
            work[p].run \in DOMAIN runs /\ runs[work[p].run].state = "running"
      /\ \A p \in Processes : work[p].run = 0 => work[p] = NoRun
  BY DEF WorkInv, Executed, Executes
<1>3. ASSUME NEW p \in Processes, TickOpen(p) PROVE Kind
  BY <1>3 DEF TickOpen, Stays
<1>10. CASE SetTarget \/ NextDay \/ UNCHANGED vars
  BY <1>10 DEF SetTarget, NextDay, Clock, vars, Stays
<1>4. ASSUME NEW p \in Processes, TickCommit(p) PROVE Kind
  <2>1. PICK S \in SUBSET tick[p].due :
           runs' = runs \o [i \in DOMAIN SetToSeq(S) |-> NewRun(SetToSeq(S)[i])]
    BY <1>4 DEF TickCommit
  <2>2. S \subseteq Scheduled /\ S \subseteq Agents
    BY <1>1, ScheduledAgents DEF FiringTypes, Ticks, Agents
  <2>3. IsFiniteSet(S)
    BY <2>2, Finite, FS_Subset
  <2> DEFINE n == Cardinality(S)
  <2>4. n \in Nat /\ SetToSeq(S) \in [1 .. n -> S]
    BY <2>3, Listed
  <2> DEFINE N == SetToSeq(S)
  <2> HIDE DEF n, N
  <2>5. n \in Nat /\ N \in [1 .. n -> Agents]
    BY <2>2, <2>4 DEF N
  <2>6. N \in Seq(Agents)
    BY <2>5, SeqDef
  <2>7. runs' = runs \o [i \in DOMAIN N |-> NewRun(N[i])]
    BY <2>1 DEF N
  <2>8. UNCHANGED <<studio, work, events, seeded, recommended>>
    BY <1>4 DEF TickCommit
  <2>9. Adds
    BY <2>6, <2>7, <2>8, AddsOf
  <2> QED
    BY <2>9
<1>5. ASSUME NEW e \in events, Deliver(e) PROVE Kind
  <2>1. PICK a \in Agents : runs' = Append(runs, NewRun(a))
    BY <1>5 DEF Deliver
  <2>2. Adds
    BY <1>5, <2>1, AddsOne DEF Deliver, Clock
  <2> QED
    BY <2>2
<1>6. ASSUME NEW a \in Triggered \cap Agents, Trigger(a) PROVE Kind
  <2>2. Adds
    BY <1>6, AddsOne DEF Trigger, Clock
  <2> QED
    BY <2>2
<1>7. ASSUME NEW p \in Processes, NEW r \in DOMAIN runs, Claim(p, r) PROVE Kind
  <2> DEFINE x == [runs[r] EXCEPT !.state = "running"]
             e == [NoRun EXCEPT !.run = r, !.step = "start", !.knew = seeded]
  <2>1. /\ runs' = [runs EXCEPT ![r] = x] /\ work' = [work EXCEPT ![p] = e]
        /\ work[p].run = 0 /\ runs[r].state = "pending"
        /\ UNCHANGED <<studio, events, seeded, recommended>>
    BY <1>7 DEF Claim, Claimable, Clock
  <2>2. "running" \in States /\ runs[r] \in RunOf
    BY <1>1 DEF States
  <2>10. x = [runs[r] EXCEPT !.state = "running"]
    OBVIOUS
  <2>11. e = [NoRun EXCEPT !.run = r, !.step = "start", !.knew = seeded]
    OBVIOUS
  <2> HIDE DEF x, e
  <2>3. /\ x \in RunOf /\ x.state = "running" /\ x.agent = runs[r].agent
        /\ x.granted = runs[r].granted /\ x.tasks = runs[r].tasks
    BY <2>2, <2>10 DEF RunOf
  <2>4. /\ DOMAIN e = Fields /\ e.run = r /\ e.step = "start" /\ e.knew = seeded
        /\ e.out = <<>> /\ e.asks = FALSE
    BY <2>11 DEF NoRun, Fields
  <2>5. <<>> \in Seq({}) /\ DOMAIN <<>> = {} /\ r # 0
    BY <1>1, EmptySeq, LenProperties
  <2>7. Executes(e, r)
    BY <2>4, <2>5 DEF Executes, Steps, WorkInv
  <2>9. Starts(p, r, e, x)
    BY <2>1, <2>3, <2>4, <2>7 DEF Starts, Becomes, Turns
  <2> QED
    BY <2>9
<1>8. ASSUME NEW p \in Processes, NEW r, work[p].run = r, r # 0
      PROVE  /\ r \in DOMAIN runs /\ runs[r] \in RunOf /\ runs[r].state = "running"
             /\ Executes(work[p], r)
             /\ [runs EXCEPT ![r] = runs[r]] = runs
  <2>1. r \in DOMAIN runs /\ runs[r] \in RunOf /\ runs[r].state = "running" /\ Executes(work[p], r)
    BY <1>1, <1>2, <1>8
  <2> QED
    BY <1>1, <2>1, LenProperties
<1>9. ASSUME NEW p \in Processes, NEW r, work[p].run = r, r # 0, work[p].step # "done",
             runs[r].agent = "reflector",
             NEW s \in Steps \ {"idle", "start"}, NEW e,
             DOMAIN e = Fields, e.run = work[p].run, e.step = s, e.knew = work[p].knew,
             e.out = work[p].out, e.asks = work[p].asks,
             work' = [work EXCEPT ![p] = e],
             UNCHANGED <<studio, runs, events, seeded, recommended>>
      PROVE  Kind
  <2>1. r \in DOMAIN runs /\ runs[r] \in RunOf /\ Executes(work[p], r) /\ runs = [runs EXCEPT ![r] = runs[r]]
    BY <1>8, <1>9
  <2>2. e.out = <<>> /\ ~e.asks /\ Executes(e, r)
    BY <1>9, <2>1 DEF Executes
  <2>3. Continues(p, r, e, runs[r])
    BY <1>9, <2>1, <2>2 DEF Continues, Becomes, Turns
  <2> QED
    BY <2>3
<1>11. ASSUME NEW p \in Processes, NEW r, work[p].run = r, r # 0,
              NEW s \in {"failed", "lost"}, NEW x,
              x = [runs[r] EXCEPT !.state = s],
              runs' = [runs EXCEPT ![r] = x], work' = [work EXCEPT ![p] = NoRun],
              UNCHANGED <<studio, events, seeded, recommended>>
       PROVE  Kind
  <2>1. r \in DOMAIN runs /\ runs[r] \in RunOf
    BY <1>8, <1>11
  <2>2. x \in RunOf /\ x.state = s /\ x.agent = runs[r].agent
    BY <1>11, <2>1 DEF RunOf, States
  <2>3. Executes(NoRun, NoRun.run)
    BY NoRunExecutes
  <2>4. Ends(p, r, x)
    BY <1>11, <2>1, <2>2, <2>3 DEF Ends, Becomes, Turns
  <2> QED
    BY <2>4
<1>12. ASSUME NEW p \in Processes, work[p].run # 0, Fails(p),
              UNCHANGED <<studio, events, seeded, recommended>>
       PROVE  Kind
  <2>1. PICK r : r = work[p].run
    OBVIOUS
  <2>2. PICK x : x = [runs[r] EXCEPT !.state = "failed"]
    OBVIOUS
  <2>3. runs' = [runs EXCEPT ![r] = x] /\ work' = [work EXCEPT ![p] = NoRun]
    BY <1>12, <2>1, <2>2 DEF Fails
  <2> QED
    BY <1>11, <1>12, <2>1, <2>2, <2>3
<1>13. ASSUME NEW p \in Processes, NEW s \in Steps \ {"idle", "start"},
              work[p].run # 0, work[p].step # "done", runs[work[p].run].agent = "reflector",
              work' = [work EXCEPT ![p] = [work[p] EXCEPT !.step = s]],
              UNCHANGED <<studio, runs, events, seeded, recommended>>
       PROVE  Kind
  <2>1. PICK e : e = [work[p] EXCEPT !.step = s]
    OBVIOUS
  <2>2. DOMAIN work[p] = Fields
    BY <1>2 DEF Executes
  <2>3. /\ DOMAIN e = Fields /\ e.run = work[p].run /\ e.step = s /\ e.knew = work[p].knew
        /\ e.out = work[p].out /\ e.asks = work[p].asks
    BY <2>1, <2>2 DEF Fields
  <2>4. work' = [work EXCEPT ![p] = e]
    BY <1>13, <2>1
  <2> QED
    BY <1>9, <1>13, <2>3, <2>4
<1>14. ASSUME NEW p \in Processes, ReflectCollect(p) PROVE Kind
  <2>1. PICK s, b : work' = [work EXCEPT ![p] = [work[p] EXCEPT !.step = s, !.base = b]]
                    /\ s \in {"collected", "learned"}
    BY <1>14 DEF ReflectCollect, Goes
  <2>2. PICK e : e = [work[p] EXCEPT !.step = s, !.base = b]
    OBVIOUS
  <2>3. DOMAIN work[p] = Fields
    BY <1>2 DEF Executes
  <2>4. /\ DOMAIN e = Fields /\ e.run = work[p].run /\ e.step = s /\ e.knew = work[p].knew
        /\ e.out = work[p].out /\ e.asks = work[p].asks
    BY <2>2, <2>3 DEF Fields
  <2>5. work' = [work EXCEPT ![p] = e] /\ s \in Steps \ {"idle", "start"}
    BY <2>1, <2>2 DEF Steps
  <2>6. /\ work[p].run # 0 /\ work[p].step # "done" /\ runs[work[p].run].agent = "reflector"
        /\ UNCHANGED <<studio, runs, events, seeded, recommended>>
    BY <1>14 DEF ReflectCollect, At, Clock
  <2> QED
    BY <1>9, <2>4, <2>5, <2>6
<1>15. ASSUME NEW p \in Processes, ReflectLearn(p) \/ ReflectPersist(p) PROVE Kind
  <2>1. /\ work[p].run # 0 /\ work[p].step # "done" /\ runs[work[p].run].agent = "reflector"
        /\ UNCHANGED <<studio, events, seeded, recommended>>
    BY <1>15 DEF ReflectLearn, ReflectPersist, At, Clock
  <2>2. CASE Fails(p)
    BY <1>12, <2>1, <2>2
  <2>3. CASE /\ UNCHANGED runs
             /\ \E s \in {"learned", "done"} : Goes(p, [work[p] EXCEPT !.step = s])
    <3>1. PICK s \in {"learned", "done"} : Goes(p, [work[p] EXCEPT !.step = s])
      BY <2>3
    <3>2. s \in Steps \ {"idle", "start"} /\ work' = [work EXCEPT ![p] = [work[p] EXCEPT !.step = s]]
      BY <3>1 DEF Steps, Goes
    <3> QED
      BY <1>13, <2>1, <2>3, <3>2
  <2> QED
    BY <1>15, <2>2, <2>3 DEF ReflectLearn, ReflectPersist
<1>16. ASSUME NEW p \in Processes, Fault(p) PROVE Kind
  <2>1. UNCHANGED <<studio, events, seeded, recommended>>
    BY <1>16 DEF Fault
  <2>2. CASE work[p].run # 0 /\ Fails(p)
    BY <1>12, <2>1, <2>2
  <2>3. CASE /\ work' = [work EXCEPT ![p] = NoRun]
             /\ runs' = [r \in DOMAIN runs |->
                           IF r = work[p].run THEN [runs[r] EXCEPT !.state = "lost"]
                           ELSE runs[r]]
    <3>1. CASE work[p].run = 0
      <4>1. work' = work
        BY <1>2, <1>16, <2>3, <3>1
      <4>2. runs' = runs
        BY <1>1, <2>3, <3>1
      <4> QED
        BY <2>1, <4>1, <4>2 DEF Stays
    <3>2. CASE work[p].run # 0
      <4>1. PICK r : r = work[p].run
        OBVIOUS
      <4>2. PICK x : x = [runs[r] EXCEPT !.state = "lost"]
        OBVIOUS
      <4>3. runs' = [runs EXCEPT ![r] = x]
        BY <1>1, <2>3, <4>1, <4>2
      <4>4. r # 0 /\ work[p].run = r /\ work' = [work EXCEPT ![p] = NoRun]
        BY <2>3, <3>2, <4>1
      <4>5. \E s \in {"failed", "lost"} : x = [runs[r] EXCEPT !.state = s]
        BY <4>2
      <4> QED
        BY <1>11, <1>16, <2>1, <4>3, <4>4, <4>5
    <3> QED
      BY <3>1, <3>2
  <2>4. \/ work[p].run # 0 /\ Fails(p)
        \/ /\ work' = [work EXCEPT ![p] = NoRun]
           /\ runs' = [r \in DOMAIN runs |->
                         IF r = work[p].run THEN [runs[r] EXCEPT !.state = "lost"]
                         ELSE runs[r]]
    BY <1>16 DEF Fault
  <2> QED
    BY <2>2, <2>3, <2>4
<1>17. ASSUME NEW p \in Processes, Produce(p) PROVE Kind
  <2>1. PICK r : r = work[p].run
    OBVIOUS
  <2>2. /\ r # 0 /\ runs[r].agent \notin {"reflector", "ceo"}
        /\ UNCHANGED <<studio, runs, events, seeded, recommended>>
    BY <1>17, <2>1 DEF Produce, Clock
  <2>3. /\ r \in DOMAIN runs /\ runs[r] \in RunOf /\ Executes(work[p], r)
        /\ runs = [runs EXCEPT ![r] = runs[r]]
    BY <1>8, <2>1, <2>2
  <2>4. PICK o \in Outputs(r, runs[r].agent) :
           work' = [work EXCEPT ![p] = [work[p] EXCEPT !.step = "done", !.out = o.out, !.asks = o.asks]]
    BY <1>17, <2>1 DEF Produce, Goes
  <2>5. PICK e : e = [work[p] EXCEPT !.step = "done", !.out = o.out, !.asks = o.asks]
    OBVIOUS
  <2>6. PICK agent : agent = runs[r].agent
    OBVIOUS
  <2>7. agent \in Agents \ {"reflector", "ceo"}
    BY <2>2, <2>3, <2>6 DEF RunOf
  <2>8. Delivered(o, r, agent)
    <3>1. o \in Outputs(r, agent)
      BY <2>4, <2>6
    <3> QED
      BY <2>7, <3>1, OutputsKnown
  <2>9. /\ DOMAIN e = Fields /\ e.run = work[p].run /\ e.step = "done" /\ e.knew = work[p].knew
        /\ e.out = o.out /\ e.asks = o.asks
    BY <2>3, <2>5 DEF Executes, Fields
  <2>10. Executes(e, r) /\ Advises(e, r)
    BY <2>1, <2>2, <2>3, <2>6, <2>8, <2>9 DEF Executes, Advises, Steps, Delivered
  <2>11. Continues(p, r, e, runs[r])
    BY <2>1, <2>2, <2>3, <2>4, <2>5, <2>9, <2>10 DEF Continues, Becomes, Turns
  <2> QED
    BY <2>11
<1>18. ASSUME NEW p \in Processes, CeoSeed(p) PROVE Kind
  <2>1. PICK r : r = work[p].run
    OBVIOUS
  <2>2. PICK e : e = [work[p] EXCEPT !.step = "seeded"]
    OBVIOUS
  <2>3. /\ r # 0 /\ runs[r].agent = "ceo" /\ work[p].step = "start"
        /\ work' = [work EXCEPT ![p] = e]
        /\ UNCHANGED <<studio, runs, events, seeded, recommended>>
    BY <1>18, <2>1, <2>2 DEF CeoSeed, At, Goes, Clock
  <2>4. /\ r \in DOMAIN runs /\ runs[r] \in RunOf /\ Executes(work[p], r)
        /\ runs = [runs EXCEPT ![r] = runs[r]]
    BY <1>8, <2>1, <2>3
  <2>5. /\ DOMAIN e = Fields /\ e.run = work[p].run /\ e.step = "seeded" /\ e.knew = work[p].knew
        /\ e.out = work[p].out /\ e.asks = work[p].asks
    BY <2>2, <2>4 DEF Executes, Fields
  <2>6. Executes(e, r)
    BY <2>1, <2>3, <2>4, <2>5 DEF Executes, Steps
  <2>7. Continues(p, r, e, runs[r])
    BY <2>1, <2>3, <2>4, <2>5, <2>6 DEF Continues, Becomes, Turns
  <2> QED
    BY <2>7
<1>19. ASSUME NEW p \in Processes, CeoBrief(p) PROVE Kind
  <2>1. PICK r : r = work[p].run
    OBVIOUS
  <2>2. PICK tasks \in Extracted :
           /\ runs' = [runs EXCEPT ![r].tasks = tasks]
           /\ work' = [work EXCEPT ![p] = [work[p] EXCEPT !.step = "done", !.out = Brief(r, tasks)]]
    BY <1>19, <2>1 DEF CeoBrief, Goes
  <2>3. PICK x : x = [runs[r] EXCEPT !.tasks = tasks]
    OBVIOUS
  <2>4. PICK e : e = [work[p] EXCEPT !.step = "done", !.out = Brief(r, tasks)]
    OBVIOUS
  <2>5. /\ r # 0 /\ runs[r].agent = "ceo" /\ work[p].step = "seeded"
        /\ runs' = [runs EXCEPT ![r] = x] /\ work' = [work EXCEPT ![p] = e]
        /\ UNCHANGED <<studio, events, seeded, recommended>>
    BY <1>19, <2>1, <2>2, <2>3, <2>4 DEF CeoBrief, At, Clock
  <2>6. r \in DOMAIN runs /\ runs[r] \in RunOf /\ Executes(work[p], r)
    BY <1>8, <2>1, <2>5
  <2>7. tasks \in Tasks
    BY ExtractedTasks
  <2>8. /\ x \in RunOf /\ x.state = runs[r].state /\ x.agent = runs[r].agent
        /\ x.granted = runs[r].granted /\ x.tasks = tasks
    BY <2>3, <2>6, <2>7 DEF RunOf
  <2>9. /\ DOMAIN e = Fields /\ e.run = work[p].run /\ e.step = "done" /\ e.knew = work[p].knew
        /\ e.out = Brief(r, tasks) /\ e.asks = work[p].asks
    BY <2>4, <2>6 DEF Executes, Fields
  <2>10. (\E S : e.out \in Seq(S)) /\ \A i \in DOMAIN e.out : e.out[i].run = r
    <3>1. PICK b : b = Brief(r, tasks)
      OBVIOUS
    <3>2. (\E S : b \in Seq(S)) /\ \A i \in DOMAIN b : b[i].run = r
      BY <2>7, <3>1, BriefKnown
    <3> QED
      BY <2>9, <3>1, <3>2
  <2>11. Executes(e, r) /\ ~e.asks
    BY <2>1, <2>5, <2>6, <2>9, <2>10 DEF Executes, Steps
  <2>12. Continues(p, r, e, x)
    BY <2>1, <2>5, <2>6, <2>8, <2>9, <2>11 DEF Continues, Becomes, Turns
  <2> QED
    BY <2>12
<1>20. ASSUME NEW p \in Processes, work[p].run # 0, work[p].step = "done", studio' = studio,
              NEW in, NEW n \in Nat, NEW state,
              Passes(work[p].out, in, n), Outcome(work[p], in, n, state),
              Concludes(p, in, state)
       PROVE  Kind
  <2>1. PICK r : r = work[p].run
    OBVIOUS
  <2>2. /\ r # 0 /\ work' = [work EXCEPT ![p] = NoRun]
    BY <1>20, <2>1 DEF Concludes
  <2>3. r \in DOMAIN runs /\ runs[r] \in RunOf /\ Executes(NoRun, NoRun.run)
    BY <1>8, <1>20, <2>1, <2>2, NoRunExecutes
  <2>4. PICK s : s = IF Clashes(in) THEN "stuck" ELSE state
    OBVIOUS
  <2>5. s \in States
    BY <1>20, <2>4 DEF States, Outcome
  <2>6. PICK x : x = [runs[r] EXCEPT !.state = s]
    OBVIOUS
  <2>7. runs' = [runs EXCEPT ![r] = x]
    BY <1>20, <2>1, <2>4, <2>6 DEF Concludes
  <2>8. x \in RunOf /\ x.state = s /\ x.agent = runs[r].agent
    BY <2>3, <2>5, <2>6 DEF RunOf
  <2>9. Records(p, r, in, n, s)
    BY <1>20, <2>1, <2>4 DEF Records, Concludes
  <2>10. Becomes(r, x) /\ Turns(p, NoRun) /\ x = [runs[r] EXCEPT !.state = x.state]
    BY <1>20, <2>2, <2>3, <2>6, <2>7, <2>8 DEF Becomes, Turns
  <2>11. Ends(p, r, x)
    BY <1>20, <2>1, <2>8, <2>9, <2>10 DEF Ends
  <2> QED
    BY <2>11
<1>22. ASSUME NEW p \in Processes, work[p].run # 0
       PROVE  \E S : work[p].out \in Seq(S)
  BY <1>2, <1>22 DEF Executes
<1>23. ASSUME NEW p \in Processes, Commit(p) PROVE Kind
  <2> DEFINE state(in) == IF in # work[p].out THEN "failed"
                          ELSE IF work[p].asks THEN "awaiting" ELSE "completed"
  <2>1. PICK in \in Accepted(work[p].out) : Concludes(p, in, state(in))
    BY <1>23 DEF Commit
  <2>2. work[p].run # 0 /\ work[p].step = "done" /\ studio' = studio
    BY <1>23 DEF Commit, Clock
  <2>3. PICK n \in Nat : Passes(work[p].out, in, n) /\ Stops(work[p].out, n)
    BY <1>22, <2>2, AcceptedKnown
  <2>4. Outcome(work[p], in, n, state(in))
    BY <2>3 DEF Outcome
  <2> HIDE DEF state
  <2> QED
    BY <1>20, <2>1, <2>2, <2>3, <2>4
<1>24. ASSUME NEW p \in Processes, CutShort(p) PROVE Kind
  <2>1. work[p].run # 0 /\ work[p].step = "done" /\ studio' = studio
    BY <1>24 DEF CutShort, Clock
  <2>2. PICK S : work[p].out \in Seq(S)
    BY <1>22, <2>1
  <2>3. CASE Concludes(p, <<>>, "failed")
    <3>1. PICK in : in = <<>>
      OBVIOUS
    <3>2. 0 \in Nat /\ Passes(work[p].out, in, 0) /\ Outcome(work[p], in, 0, "failed")
      BY <2>2, <3>1, NothingPasses DEF Outcome
    <3> QED
      BY <1>20, <2>1, <2>3, <3>1, <3>2
  <2>4. CASE /\ work[p].asks /\ work[p].out \in Accepted(work[p].out)
             /\ Concludes(p, work[p].out, "failed")
    <3>1. PICK in : in = work[p].out
      OBVIOUS
    <3>2. PICK n \in Nat : Passes(work[p].out, in, n)
      BY <2>2, <2>4, <3>1, AcceptedKnown
    <3>3. Outcome(work[p], in, n, "failed") /\ Concludes(p, in, "failed")
      BY <2>4, <3>1 DEF Outcome
    <3> QED
      BY <1>20, <2>1, <3>2, <3>3
  <2> QED
    BY <1>24, <2>3, <2>4 DEF CutShort
<1>21. ASSUME NEW r \in DOMAIN runs, Decide(r) PROVE Kind
  <2>1. PICK x : /\ runs' = [runs EXCEPT ![r] = x]
                 /\ \/ x = [runs[r] EXCEPT !.state = "pending", !.granted = TRUE]
                    \/ x = [runs[r] EXCEPT !.state = "failed"]
    BY <1>21 DEF Decide
  <2>2. runs[r].state = "awaiting" /\ UNCHANGED <<studio, work, events, seeded, recommended>>
    BY <1>21 DEF Decide, Clock
  <2>3. runs[r] \in RunOf
    BY <1>1
  <2>4. x \in RunOf /\ x.agent = runs[r].agent
    BY <2>1, <2>3 DEF RunOf, States
  <2>5. Decides(r, x)
    BY <2>1, <2>2, <2>4 DEF Decides, Becomes
  <2> QED
    BY <2>5
<1> QED
  BY <1>3, <1>4, <1>5, <1>6, <1>7, <1>10, <1>14, <1>15, <1>16, <1>17, <1>18, <1>19,
     <1>21, <1>23, <1>24 DEF Next

-----------------------------------------------------------------------------
(* Runs and executions stay what they are.                                 *)

LEMMA SameStudio ==
    ASSUME studio' = studio
    PROVE  /\ Agents' = Agents /\ Tasks' = Tasks /\ Schemas' = Schemas /\ RunOf' = RunOf
           /\ ValidTargets' = ValidTargets
<1>1. ValidTargets' = ValidTargets /\ Agents' = Agents
  BY DEF ValidTargets, Agents
<1> QED
  BY <1>1 DEF Tasks, RunOf, Schemas

\* What Becomes and Turns say of every run and process.
LEMMA BecomesAt ==
    ASSUME WorkInv, NEW r, NEW x, Becomes(r, x)
    PROVE  /\ runs' \in Seq(RunOf) /\ DOMAIN runs' = DOMAIN runs
           /\ runs'[r] = x /\ \A q \in DOMAIN runs : q # r => runs'[q] = runs[q]
           /\ r \in DOMAIN runs /\ r # 0
           /\ \A q \in DOMAIN runs : runs'[q].agent = runs[q].agent
<1>1. runs \in Seq(RunOf) /\ DOMAIN runs = 1 .. Len(runs) /\ Len(runs) \in Nat
  BY LenProperties DEF WorkInv
<1>2. r \in 1 .. Len(runs)
  BY <1>1 DEF Becomes
<1>3. runs' = [runs EXCEPT ![r] = x] /\ x \in RunOf /\ x.agent = runs[r].agent
  BY DEF Becomes
<1>4. runs' \in Seq(RunOf) /\ DOMAIN runs' = DOMAIN runs
  BY <1>1, <1>2, <1>3, ExceptSeq
<1> QED
  BY <1>1, <1>2, <1>3, <1>4

LEMMA TurnsAt ==
    ASSUME WorkInv, NEW p, NEW e, Turns(p, e)
    PROVE  /\ p \in Processes /\ work' = [q \in Processes |-> work'[q]]
           /\ work'[p] = e /\ \A q \in Processes : q # p => work'[q] = work[q]
<1>1. work = [q \in Processes |-> work[q]]
  BY DEF WorkInv, Executed
<1> QED
  BY <1>1 DEF Turns

LEMMA Turned ==
    ASSUME WorkInv, NEW p, NEW r, NEW e, NEW x, Becomes(r, x), Turns(p, e),
           seeded' \in BOOLEAN,
           work[p].run = r \/ (work[p].run = 0 /\ runs[r].state # "running"),
           e.run \in {0, r}, e.run = r <=> x.state = "running"
    PROVE  WorkInv'
<1>1. /\ runs' \in Seq(RunOf) /\ DOMAIN runs' = DOMAIN runs
      /\ runs'[r] = x /\ \A q \in DOMAIN runs : q # r => runs'[q] = runs[q]
      /\ r \in DOMAIN runs /\ r # 0
  BY BecomesAt
<1>2. /\ p \in Processes /\ work' = [q \in Processes |-> work'[q]]
      /\ work'[p] = e /\ \A q \in Processes : q # p => work'[q] = work[q]
  BY TurnsAt
<1>3. studio' = studio /\ RunOf' = RunOf /\ Executes(e, e.run)
  BY SameStudio DEF Becomes, Turns
<1>4. /\ \A q \in Processes : /\ work[q].run \in {0} \cup DOMAIN runs
                              /\ Executes(work[q], work[q].run)
      /\ \A q \in Processes : work[q].run # 0 => runs[work[q].run].state = "running"
      /\ \A q, u \in Processes : q # u /\ work[q].run # 0 => work[q].run # work[u].run
      /\ \A q \in DOMAIN runs : runs[q].state = "running" => \E u \in Processes : work[u].run = q
  BY DEF WorkInv, Executed
<1>5. \A q \in Processes : q # p => work[q].run # r
  BY <1>1, <1>2, <1>4
<1>6. \A q \in Processes : /\ work'[q].run \in {0} \cup DOMAIN runs'
                           /\ Executes(work'[q], work'[q].run)
  BY <1>1, <1>2, <1>3, <1>4
<1>7. \A q \in Processes : work'[q].run # 0 => runs'[work'[q].run].state = "running"
  <2> SUFFICES ASSUME NEW q \in Processes, work'[q].run # 0
               PROVE  runs'[work'[q].run].state = "running"
    OBVIOUS
  <2>1. CASE q = p
    BY <1>1, <1>2, <2>1
  <2>2. CASE q # p
    BY <1>1, <1>2, <1>4, <1>5, <2>2
  <2> QED
    BY <2>1, <2>2
<1>8. \A q, u \in Processes : q # u /\ work'[q].run # 0 => work'[q].run # work'[u].run
  <2> SUFFICES ASSUME NEW q \in Processes, NEW u \in Processes, q # u, work'[q].run # 0
               PROVE  work'[q].run # work'[u].run
    OBVIOUS
  <2>1. CASE q = p \/ u = p
    BY <1>1, <1>2, <1>5, <2>1
  <2>2. CASE q # p /\ u # p
    BY <1>2, <1>4, <2>2
  <2> QED
    BY <2>1, <2>2
<1>9. \A q \in DOMAIN runs' : runs'[q].state = "running" => \E u \in Processes : work'[u].run = q
  <2> SUFFICES ASSUME NEW q \in DOMAIN runs, runs'[q].state = "running"
               PROVE  \E u \in Processes : work'[u].run = q
    BY <1>1
  <2>1. CASE q = r
    BY <1>1, <1>2, <2>1
  <2>2. CASE q # r
    <3>1. PICK u \in Processes : work[u].run = q
      BY <1>1, <1>4, <2>2
    <3>2. CASE u = p
      BY <1>1, <1>2, <2>2, <3>1, <3>2, LenProperties DEF WorkInv
    <3>3. CASE u # p
      BY <1>2, <3>1, <3>3
    <3> QED
      BY <3>2, <3>3
  <2> QED
    BY <2>1, <2>2
<1>10. Executed'
  BY <1>2, <1>6, <1>7, <1>8, <1>9 DEF Executed
<1> QED
  BY <1>1, <1>3, <1>10 DEF WorkInv

LEMMA WorkInit == Init => WorkInv
<1> SUFFICES ASSUME Init PROVE WorkInv
  OBVIOUS
<1>1. /\ runs = <<>> /\ work = [p \in Processes |-> NoRun] /\ studio \in Studios
      /\ seeded = FALSE
  BY DEF Init
<1>2. runs \in Seq(RunOf) /\ DOMAIN runs = {}
  BY <1>1, EmptySeq, LenProperties
<1>3. NoRun.run = 0
  BY DEF NoRun
<1>4. work = [p \in Processes |-> work[p]] /\ \A p \in Processes : work[p] = NoRun
  BY <1>1
<1>5. Executed
  BY <1>2, <1>3, <1>4, NoRunExecutes DEF Executed
<1> QED
  BY <1>1, <1>2, <1>5 DEF WorkInv

LEMMA WorkStep == WorkInv /\ FiringTypes /\ [Next]_vars => WorkInv'
<1> SUFFICES ASSUME WorkInv, FiringTypes, [Next]_vars PROVE WorkInv'
  OBVIOUS
<1>1. CASE Stays
  <2>1. RunOf' = RunOf
    BY <1>1, SameStudio DEF Stays
  <2> QED
    BY <1>1, <2>1 DEF Stays, WorkInv, Executed
<1>2. CASE Adds
  <2>1. /\ runs' \in Seq(RunOf) /\ DOMAIN runs \subseteq DOMAIN runs'
        /\ \A r \in DOMAIN runs : runs'[r] = runs[r]
        /\ \A r \in DOMAIN runs' \ DOMAIN runs : runs'[r].state = "pending"
        /\ UNCHANGED <<studio, work, seeded>>
    BY <1>2 DEF Adds, NewRun
  <2>2. RunOf' = RunOf
    BY <2>1, SameStudio
  <2>3. /\ \A p \in Processes : /\ work[p].run \in {0} \cup DOMAIN runs
                                /\ Executes(work[p], work[p].run)
        /\ \A p \in Processes : work[p].run # 0 => runs[work[p].run].state = "running"
        /\ \A r \in DOMAIN runs : runs[r].state = "running" => \E p \in Processes : work[p].run = r
    BY DEF WorkInv, Executed
  <2>4. \A p \in Processes : work[p].run # 0 => runs'[work[p].run].state = "running"
    BY <2>1, <2>3
  <2>5. \A r \in DOMAIN runs' : runs'[r].state = "running" => \E p \in Processes : work[p].run = r
    BY <2>1, <2>3
  <2>6. \A p \in Processes : work[p].run \in {0} \cup DOMAIN runs' /\ Executes(work[p], work[p].run)
    BY <2>1, <2>3
  <2>7. Executed'
    BY <2>1, <2>4, <2>5, <2>6 DEF Executed, WorkInv
  <2> QED
    BY <2>1, <2>2, <2>7 DEF WorkInv
<1>3. ASSUME NEW p, NEW r, NEW e, NEW x, Starts(p, r, e, x) PROVE WorkInv'
  <2>1. /\ Becomes(r, x) /\ Turns(p, e) /\ seeded' \in BOOLEAN
        /\ work[p].run = 0 /\ runs[r].state # "running" /\ e.run = r /\ x.state = "running"
    BY <1>3 DEF Starts, WorkInv
  <2> QED
    BY <2>1, Turned
<1>4. ASSUME NEW p, NEW r, NEW e, NEW x, Continues(p, r, e, x) PROVE WorkInv'
  <2>1. /\ Becomes(r, x) /\ Turns(p, e) /\ seeded' \in BOOLEAN
        /\ work[p].run = r /\ e.run = r /\ x.state = runs[r].state
    BY <1>4 DEF Continues, WorkInv
  <2>2. x.state = "running"
    BY <2>1, BecomesAt DEF Turns, WorkInv, Executed
  <2> QED
    BY <2>1, <2>2, Turned
<1>5. ASSUME NEW p, NEW r, NEW x, Ends(p, r, x) PROVE WorkInv'
  <2>1. /\ Becomes(r, x) /\ Turns(p, NoRun) /\ work[p].run = r
    BY <1>5 DEF Ends
  <2>2. x.state # "running" /\ seeded' \in BOOLEAN
    BY <1>5 DEF Ends, Records, Outcome, WorkInv
  <2>3. NoRun.run = 0 /\ r # 0
    BY <2>1, BecomesAt DEF NoRun
  <2> QED
    BY <2>1, <2>2, <2>3, Turned
<1>6. ASSUME NEW r, NEW x, Decides(r, x) PROVE WorkInv'
  <2>1. Becomes(r, x) /\ runs[r].state = "awaiting" /\ UNCHANGED <<work, seeded, studio>>
    BY <1>6 DEF Decides, Becomes
  <2>2. /\ runs' \in Seq(RunOf) /\ DOMAIN runs' = DOMAIN runs
        /\ runs'[r] = x /\ \A q \in DOMAIN runs : q # r => runs'[q] = runs[q]
        /\ r \in DOMAIN runs
    BY <2>1, BecomesAt
  <2>3. RunOf' = RunOf
    BY <2>1, SameStudio
  <2>4. runs[r] \in RunOf
    BY <2>2, ElementOfSeq, LenProperties DEF WorkInv
  <2>5. x.state # "running"
    BY <1>6, <2>4 DEF Decides, RunOf
  <2>6. Executed'
    BY <2>1, <2>2, <2>5 DEF Executed, WorkInv
  <2> QED
    BY <2>1, <2>2, <2>3, <2>6 DEF WorkInv
<1> QED
  BY <1>1, <1>2, <1>3, <1>4, <1>5, <1>6, StepKinds

-----------------------------------------------------------------------------
(* What commits leave.                                                     *)

\* A process that does not turn keeps its run as it is.
LEMMA Others ==
    ASSUME WorkInv, NEW r, NEW x, Becomes(r, x),
           NEW p, work[p].run = r \/ runs[r].state # "running",
           NEW q \in Processes, q # p, work[q].run # 0, p \in Processes \/ runs[r].state # "running"
    PROVE  /\ work[q].run \in DOMAIN runs /\ work[q].run # r
           /\ runs'[work[q].run] = runs[work[q].run]
<1>1. /\ \A u \in Processes : work[u].run \in {0} \cup DOMAIN runs
      /\ \A u \in Processes : work[u].run # 0 => runs[work[u].run].state = "running"
      /\ \A u, v \in Processes : u # v /\ work[u].run # 0 => work[u].run # work[v].run
  BY DEF WorkInv, Executed
<1>2. r # 0 /\ \A u \in DOMAIN runs : u # r => runs'[u] = runs[u]
  BY BecomesAt
<1> QED
  BY <1>1, <1>2

\* What process p ends with.
LEMMA EndsWith ==
    ASSUME WorkInv, NEW p, NEW r, NEW x, Ends(p, r, x)
    PROVE  /\ p \in Processes /\ r \in DOMAIN runs /\ r # 0 /\ runs[r].state = "running"
           /\ Executes(work[p], r) /\ runs[r] \in RunOf
           /\ x.agent = runs[r].agent /\ x.granted = runs[r].granted
           /\ x.tasks = runs[r].tasks
           /\ \E S : work[p].out \in Seq(S)
<1>1. /\ Becomes(r, x) /\ Turns(p, NoRun) /\ work[p].run = r
      /\ x = [runs[r] EXCEPT !.state = x.state]
  BY DEF Ends
<1>2. p \in Processes /\ r \in DOMAIN runs /\ r # 0
  BY <1>1, BecomesAt DEF Turns
<1>3. Executes(work[p], r) /\ runs[r].state = "running" /\ runs[r] \in RunOf
  BY <1>1, <1>2, LenProperties, ElementOfSeq DEF WorkInv, Executed
<1>4. x.agent = runs[r].agent /\ x.granted = runs[r].granted /\ x.tasks = runs[r].tasks
  BY <1>1, <1>3 DEF RunOf
<1> QED
  BY <1>2, <1>3, <1>4 DEF Executes

\* Every event is of a run there is, and of a type that is registered.
EventsInv == \A e \in events : e.run \in DOMAIN runs /\ e.type \in Schemas

LEMMA EventsStep == WorkInv /\ FiringTypes /\ EventsInv /\ [Next]_vars => EventsInv'
<1> SUFFICES ASSUME WorkInv, FiringTypes, EventsInv, [Next]_vars PROVE EventsInv'
  OBVIOUS
<1>1. ASSUME DOMAIN runs \subseteq DOMAIN runs', UNCHANGED <<studio, events>>
      PROVE  EventsInv'
  <2>1. Schemas' = Schemas
    BY <1>1, SameStudio
  <2> QED
    BY <1>1, <2>1 DEF EventsInv
<1>2. ASSUME NEW r, NEW x, Becomes(r, x) PROVE DOMAIN runs' = DOMAIN runs /\ studio' = studio
  BY <1>2, BecomesAt DEF Becomes
<1>3. CASE Stays \/ Adds
  BY <1>1, <1>3 DEF Stays, Adds
<1>4. ASSUME NEW p, NEW r, NEW e, NEW x, Starts(p, r, e, x) \/ Continues(p, r, e, x)
      PROVE  EventsInv'
  BY <1>1, <1>2, <1>4 DEF Starts, Continues
<1>5. ASSUME NEW r, NEW x, Decides(r, x) PROVE EventsInv'
  BY <1>1, <1>2, <1>5 DEF Decides
<1>6. ASSUME NEW p, NEW r, NEW x, Ends(p, r, x) PROVE EventsInv'
  <2>1. DOMAIN runs' = DOMAIN runs /\ studio' = studio
    BY <1>2, <1>6 DEF Ends
  <2>2. CASE UNCHANGED events
    BY <1>1, <2>1, <2>2
  <2>3. CASE \E in, n : n \in Nat /\ Passes(work[p].out, in, n) /\ events' = events \cup ToSet(in)
    <3>1. PICK in, n : /\ n \in Nat /\ Passes(work[p].out, in, n)
                       /\ events' = events \cup ToSet(in)
      BY <2>3
    <3>2. r \in DOMAIN runs /\ Executes(work[p], r) /\ \E S : work[p].out \in Seq(S)
      BY <1>6, EndsWith
    <3>3. 1 .. n \subseteq DOMAIN work[p].out
      BY <3>1, <3>2, LenProperties DEF Passes
    <3>4. \A i \in 1 .. n : in[i].run = r /\ in[i].type \in Schemas
      BY <3>1, <3>2, <3>3 DEF Executes, Passes
    <3>5. \A e \in ToSet(in) : e.run \in DOMAIN runs /\ e.type \in Schemas
      BY <3>1, <3>2, <3>4 DEF ToSet, Passes
    <3>6. Schemas' = Schemas
      BY <2>1, SameStudio
    <3> QED
      BY <2>1, <3>1, <3>5, <3>6 DEF EventsInv
  <2> QED
    BY <1>6, <2>2, <2>3 DEF Ends, Records
<1> QED
  BY <1>3, <1>4, <1>5, <1>6, StepKinds

\* The days, and what stands for a target.
DaysInv ==
    /\ day \in 1 .. MaxDay
    /\ insights \subseteq 1 .. MaxDay
    /\ targets \in {"absent", "seeded", "person"}

LEMMA DaysStep == DaysInv /\ [Next]_vars => DaysInv'
<1> SUFFICES ASSUME DaysInv, [Next]_vars PROVE DaysInv'
  OBVIOUS
<1>0. MaxDay \in Nat
  BY Bounds
<1>1. CASE UNCHANGED <<day, insights, targets>>
  BY <1>1 DEF DaysInv
<1>2. CASE \E p \in Processes :
              \/ TickOpen(p) \/ TickCommit(p) \/ Produce(p) \/ ReflectCollect(p)
              \/ ReflectPersist(p) \/ CeoBrief(p) \/ Commit(p) \/ CutShort(p)
              \/ \E r \in DOMAIN runs : Claim(p, r)
  BY <1>1, <1>2 DEF TickOpen, TickCommit, Produce, ReflectCollect, ReflectPersist, CeoBrief,
                    Commit, CutShort, Claim, Books, Clock
<1>3. ASSUME NEW p \in Processes, Fault(p) PROVE DaysInv'
  BY <1>1, <1>3 DEF Fault, Books
<1>4. CASE \/ \E e \in events : Deliver(e)
           \/ \E a \in Triggered \cap Agents : Trigger(a)
           \/ \E r \in DOMAIN runs : Decide(r)
           \/ UNCHANGED vars
  BY <1>1, <1>4 DEF Deliver, Trigger, Decide, Books, Clock, vars
<1>5. ASSUME NEW p \in Processes, CeoSeed(p) PROVE DaysInv'
  BY <1>5 DEF CeoSeed, DaysInv, Clock
<1>6. ASSUME NEW p \in Processes, ReflectLearn(p) PROVE DaysInv'
  <2>1. (UNCHANGED insights \/ insights' = insights \cup {day}) /\ UNCHANGED <<day, targets>>
    BY <1>6 DEF ReflectLearn, Clock
  <2> QED
    BY <2>1 DEF DaysInv
<1>7. CASE SetTarget
  BY <1>7 DEF SetTarget, DaysInv, Clock
<1>8. CASE NextDay
  <2>1. day' = day + 1 /\ day < MaxDay /\ UNCHANGED <<insights, targets>>
    BY <1>8 DEF NextDay, Books
  <2>2. day + 1 \in 1 .. MaxDay
    BY <1>0, <2>1 DEF DaysInv
  <2> QED
    BY <2>1, <2>2 DEF DaysInv
<1> QED
  BY <1>2, <1>3, <1>4, <1>5, <1>6, <1>7, <1>8 DEF Next

\* Every run is of an agent of the studio, exactly the running ones have a
\* process, and one only, and what is committed is of a type that is registered.
THEOREM TypesHold == Spec => []TypeOK
<1> DEFINE Inv == FiringInv /\ PlaybookInv /\ WorkInv /\ EventsInv /\ DaysInv
<1>1. Init => Inv
  <2> SUFFICES ASSUME Init PROVE EventsInv /\ DaysInv
    BY FiringInit, PlaybookInit, WorkInit
  <2>1. MaxDay \in Nat /\ 1 \in 1 .. MaxDay
    BY Bounds
  <2> QED
    BY <2>1 DEF Init, EventsInv, DaysInv
<1>2. Inv /\ [Next]_vars => Inv'
  BY FiringStep, PlaybookStep, WorkStep, EventsStep, DaysStep DEF FiringInv
<1>3. Inv => TypeOK
  <2> SUFFICES ASSUME Inv PROVE TypeOK
    OBVIOUS
  <2>1. playbook \subseteq [version : Nat \ {0}, active : BOOLEAN]
    <3>1. PICK n \in Nat : playbook = Playbook(n)
      BY DEF PlaybookInv
    <3>2. CASE n = 0
      BY <3>1, <3>2 DEF Playbook
    <3>3. CASE n # 0
      <4> DEFINE Rows == [version : Nat \ {0}, active : BOOLEAN]
      <4>1. \A v \in Nat \ {0}, b \in BOOLEAN : [version |-> v, active |-> b] \in Rows
        OBVIOUS
      <4>2. \A v \in 1 .. n - 1 : v \in Nat \ {0}
        BY <3>1
      <4>3. n \in Nat \ {0} /\ TRUE \in BOOLEAN /\ FALSE \in BOOLEAN
        BY <3>3
      <4> HIDE DEF Rows
      <4>4. Old(n - 1) \subseteq Rows
        BY <4>1, <4>2, <4>3 DEF Old
      <4>5. [version |-> n, active |-> TRUE] \in Rows
        BY <4>1, <4>3
      <4>6. playbook = Old(n - 1) \cup {[version |-> n, active |-> TRUE]}
        BY <3>1, <3>3 DEF Playbook
      <4> QED
        BY <4>4, <4>5, <4>6 DEF Rows
    <3> QED
      BY <3>2, <3>3
  <2>2. \A r \in DOMAIN runs :
           /\ runs[r].agent \in Agents /\ runs[r].state \in States
           /\ runs[r].state = "running" <=> \E p \in Processes : work[p].run = r
    <3> SUFFICES ASSUME NEW r \in DOMAIN runs
                 PROVE  /\ runs[r].agent \in Agents /\ runs[r].state \in States
                        /\ runs[r].state = "running" <=> \E p \in Processes : work[p].run = r
      OBVIOUS
    <3>1. runs[r] \in RunOf /\ r # 0
      BY ElementOfSeq, LenProperties DEF WorkInv
    <3>2. runs[r].state = "running" <=> \E p \in Processes : work[p].run = r
      BY <3>1 DEF WorkInv, Executed
    <3> QED
      BY <3>1, <3>2 DEF RunOf
  <2>3. \A p, q \in Processes : p # q => /\ work[p].run = 0 \/ work[p].run # work[q].run
                                         /\ tick[p].held \cap tick[q].held = {}
    BY DEF WorkInv, Executed, FiringInv, TicksOwn
  <2> QED
    BY <2>1, <2>2, <2>3 DEF TypeOK, EventsInv, DaysInv, States
<1> QED
  BY <1>1, <1>2, <1>3, PTL DEF Spec

-----------------------------------------------------------------------------
(* Recommendations.                                                        *)

Says(r, a) == \E i \in DOMAIN recommended : recommended[i] = <<r, a>>

\* A run that asks a person, or was granted, has recommended for an app; one
\* that was granted and is complete, for two.
Asked(r) ==
    /\ runs[r].granted \/ runs[r].state = "awaiting" =>
           runs[r].agent = "pricing" /\ \E a \in Apps : Says(r, a)
    /\ runs[r].granted /\ runs[r].state = "completed" =>
           \E a, b \in Apps : a # b /\ Says(r, a) /\ Says(r, b)

\* A recommendation has its event; there is no second one.
Recorded ==
    /\ \E S : recommended \in Seq(S)
    /\ IsInjective(recommended)
    /\ \A i \in DOMAIN recommended : \E r \in DOMAIN runs, a \in Apps :
          recommended[i] = <<r, a>> /\ Event(r, Recommendation, a, Blank) \in events

AdviceInv ==
    /\ \A p \in Processes : work[p].run # 0 /\ work[p].step = "done" =>
                                Advises(work[p], work[p].run)
    /\ Recorded
    /\ \A r \in DOMAIN runs : Asked(r)

LEMMA EventFields ==
    ASSUME NEW r, NEW type, NEW about, NEW title
    PROVE  LET e == Event(r, type, about, title)
           IN  e.run = r /\ e.type = type /\ e.about = about /\ e.title = title
BY DEF Event

\* The CEO recommends no price.
LEMMA BriefTypes ==
    ASSUME NEW r, NEW tasks \in Tasks
    PROVE  \A k \in DOMAIN Brief(r, tasks) : Brief(r, tasks)[k].type # Recommendation
<1> DEFINE all == Brief(r, tasks)
<1> SUFFICES ASSUME NEW k \in DOMAIN all PROVE all[k].type # Recommendation
  OBVIOUS
<1>1. Leads \in {0, 1} /\ \E S : all \in Seq(S)
  BY BriefKnown DEF Leads
<1>2. k \in Nat
  BY <1>1, LenProperties
<1>3. CASE all[k] = Event(r, <<"ceo", "weekly_brief">>, Blank, Blank)
  <2>1. all[k].type = <<"ceo", "weekly_brief">>
    BY <1>3, EventFields
  <2>2. <<"ceo", "weekly_brief">> # Recommendation
    BY DEF Recommendation
  <2> QED
    BY <2>1, <2>2
<1>4. CASE k - Leads \in DOMAIN tasks
  <2>1. PICK i : i = k - Leads
    OBVIOUS
  <2>2. i \in DOMAIN tasks /\ Leads + i = k
    BY <1>1, <1>2, <1>4, <2>1
  <2>3. all[Leads + i] = Event(r, TaskType(tasks[i].to), tasks[i].to, tasks[i].title)
    BY <2>2, BriefKnown
  <2>4. all[k].type = TaskType(tasks[i].to)
    BY <2>2, <2>3 DEF Event
  <2>5. TaskType(tasks[i].to) # Recommendation
    BY DEF TaskType, Recommendation
  <2> QED
    BY <2>4, <2>5
<1> QED
  BY <1>3, <1>4, BriefKnown

\* The recommendations of a list without any, and of one of them.
LEMMA NoAdvice ==
    ASSUME NEW r, NEW batch, \A i \in DOMAIN batch : batch[i].type # Recommendation
    PROVE  Recommendations(r, batch) = <<>>
<1> DEFINE I == { i \in DOMAIN batch : batch[i].type = Recommendation }
           at == SetToSeq(I)
<1>1. I = {}
  OBVIOUS
<1>2. IsFiniteSet(I) /\ Cardinality(I) = 0
  BY <1>1, FS_EmptySet
<1>3. at \in [1 .. 0 -> I]
  BY <1>2, Listed
<1>4. Recommendations(r, batch) = [k \in DOMAIN at |-> <<r, batch[at[k]].about>>]
  BY DEF Recommendations, Recommendation
<1> HIDE DEF at
<1>5. DOMAIN at = {}
  BY <1>3
<1> QED
  BY <1>4, <1>5

LEMMA OneAdvice ==
    ASSUME NEW r, NEW a, NEW batch, batch = <<Event(r, Recommendation, a, Blank)>>
    PROVE  Recommendations(r, batch) = <<<<r, a>>>>
<1> DEFINE I == { i \in DOMAIN batch : batch[i].type = Recommendation }
           at == SetToSeq(I)
<1>1. DOMAIN batch = {1} /\ batch[1].type = Recommendation /\ batch[1].about = a
  <2> DEFINE e == Event(r, Recommendation, a, Blank)
  <2>1. e.type = Recommendation /\ e.about = a
    BY DEF Event
  <2> HIDE DEF e
  <2>2. batch = <<e>>
    BY DEF e
  <2>3. DOMAIN <<e>> = {1} /\ <<e>>[1] = e
    OBVIOUS
  <2> QED
    BY <2>1, <2>2, <2>3
<1>2. I = {1}
  BY <1>1
<1>3. IsFiniteSet(I) /\ Cardinality(I) = 1
  BY <1>2, FS_Singleton
<1>4. at \in [1 .. 1 -> I]
  BY <1>3, Listed
<1>5. Recommendations(r, batch) = [k \in DOMAIN at |-> <<r, batch[at[k]].about>>]
  BY DEF Recommendations, Recommendation
<1> HIDE DEF at
<1>6. DOMAIN at = {1} /\ at[1] = 1
  <2>1. at \in [{1} -> {1}]
    <3>1. 1 .. 1 = {1}
      OBVIOUS
    <3> HIDE DEF I
    <3> QED
      BY <1>2, <1>4, <3>1
  <2> QED
    BY <2>1
<1>7. Recommendations(r, batch) = [k \in {1} |-> <<r, a>>]
  BY <1>1, <1>5, <1>6
<1> DEFINE y == <<r, a>>
           s == [k \in {1} |-> y]
<1> HIDE DEF y
<1>8. {1} = 1 .. 1 /\ 1 \in Nat
  OBVIOUS
<1>9. s \in [1 .. 1 -> {y}] /\ s[1] = y
  BY <1>8
<1> HIDE DEF s
<1>10. s \in Seq({y}) /\ Len(s) = 1
  <2>1. PICK n : n = 1
    OBVIOUS
  <2>2. n \in Nat /\ s \in [1 .. n -> {y}]
    BY <1>8, <1>9, <2>1
  <2>3. s \in Seq({y}) /\ DOMAIN s = 1 .. n
    BY <2>2, SeqDef
  <2> QED
    BY <2>1, <2>2, <2>3, LenProperties
<1>11. <<y>> \in Seq({y}) /\ Len(<<y>>) = 1 /\ <<y>>[1] = y
  OBVIOUS
<1>12. s = <<y>>
  BY <1>9, <1>10, <1>11, SeqEqual
<1> QED
  BY <1>7, <1>12 DEF s, y

\* One more recommendation behind the others, of which there is none like it.
LEMMA OneMore ==
    ASSUME NEW S, NEW q \in Seq(S), IsInjective(q), NEW y,
           \A i \in DOMAIN q : q[i] # y
    PROVE  /\ \E T : q \o <<y>> \in Seq(T)
           /\ IsInjective(q \o <<y>>)
           /\ \A i \in DOMAIN q : i \in DOMAIN (q \o <<y>>) /\ (q \o <<y>>)[i] = q[i]
           /\ \E i \in DOMAIN (q \o <<y>>) : (q \o <<y>>)[i] = y
           /\ \A i \in DOMAIN (q \o <<y>>) :
                 (i \in DOMAIN q /\ (q \o <<y>>)[i] = q[i]) \/ (q \o <<y>>)[i] = y
<1> DEFINE t == <<y>>
           u == q \o t
<1>1. t \in Seq({y}) /\ DOMAIN t = {1} /\ t[1] = y
  OBVIOUS
<1> HIDE DEF t
<1>2. /\ u \in Seq(S \cup {y})
      /\ \A i \in DOMAIN q : i \in DOMAIN u /\ u[i] = q[i]
      /\ \A i \in DOMAIN t : Len(q) + i \in DOMAIN u /\ u[Len(q) + i] = t[i]
      /\ \A i \in DOMAIN u : \/ i \in DOMAIN q
                             \/ i - Len(q) \in DOMAIN t /\ u[i] = t[i - Len(q)]
  BY <1>1, Joined
<1>3. Len(q) \in Nat /\ DOMAIN u \subseteq Nat
  BY <1>2, LenProperties
<1> HIDE DEF u
<1>4. \A i \in DOMAIN u : \/ i \in DOMAIN q /\ u[i] = q[i]
                          \/ i = Len(q) + 1 /\ u[i] = y
  BY <1>1, <1>2, <1>3
<1>5. \A i, j \in DOMAIN u : u[i] = u[j] => i = j
  BY <1>4 DEF IsInjective
<1>6. Len(q) + 1 \in DOMAIN u /\ u[Len(q) + 1] = y
  BY <1>1, <1>2
<1> QED
  BY <1>2, <1>4, <1>5, <1>6 DEF IsInjective, u, t

LEMMA AdviceInit == Init => AdviceInv
<1> SUFFICES ASSUME Init PROVE AdviceInv
  OBVIOUS
<1>1. /\ runs = <<>> /\ recommended = <<>> /\ \A p \in Processes : work[p] = NoRun
  BY DEF Init
<1>2. DOMAIN runs = {} /\ DOMAIN recommended = {} /\ NoRun.run = 0 /\ recommended \in Seq({})
  BY <1>1, EmptySeq DEF NoRun
<1> QED
  BY <1>1, <1>2 DEF AdviceInv, Recorded, IsInjective

\* What of it a step keeps that commits nothing.
LEMMA AdviceKept ==
    ASSUME AdviceInv, UNCHANGED <<events, recommended>>, DOMAIN runs \subseteq DOMAIN runs'
    PROVE  /\ Recorded'
           /\ \A r, a : Says(r, a)' <=> Says(r, a)
<1>1. \A r, a : Says(r, a)' <=> Says(r, a)
  BY DEF Says
<1> QED
  BY <1>1 DEF AdviceInv, Recorded

LEMMA AdviceStep == WorkInv /\ FiringTypes /\ AdviceInv /\ [Next]_vars => AdviceInv'
<1> SUFFICES ASSUME WorkInv, FiringTypes, AdviceInv, [Next]_vars PROVE AdviceInv'
  OBVIOUS
<1> DEFINE Ready(p) == work[p].run # 0 /\ work[p].step = "done" => Advises(work[p], work[p].run)
<1>1. /\ \A p \in Processes : Ready(p)
      /\ Recorded
      /\ \A q \in DOMAIN runs : Asked(q)
      /\ \A p \in Processes : work[p].run \in {0} \cup DOMAIN runs
      /\ \A q \in DOMAIN runs : runs[q] \in RunOf
      /\ \A p \in Processes : work[p].run # 0 => runs[work[p].run].state = "running"
  BY ElementOfSeq, LenProperties DEF AdviceInv, WorkInv, Executed
<1>2. Recorded' /\ (\A p \in Processes : Ready(p)') /\ (\A q \in DOMAIN runs' : Asked(q)')
         => AdviceInv'
  BY DEF AdviceInv
<1>3. ASSUME NEW p \in Processes, work'[p] = work[p],
             work[p].run # 0 => runs'[work[p].run].agent = runs[work[p].run].agent
      PROVE  Ready(p)'
  BY <1>1, <1>3 DEF Advises
<1>4. CASE Stays
  BY <1>4 DEF Stays, AdviceInv, Recorded, Asked, Says, Advises
<1>5. CASE Adds
  <2>1. /\ DOMAIN runs \subseteq DOMAIN runs' /\ UNCHANGED <<work, events, recommended>>
        /\ \A q \in DOMAIN runs : runs'[q] = runs[q]
        /\ \A q \in DOMAIN runs' \ DOMAIN runs : ~runs'[q].granted /\ runs'[q].state = "pending"
    BY <1>5 DEF Adds, NewRun
  <2>2. Recorded' /\ \A r, a : Says(r, a)' <=> Says(r, a)
    BY <2>1, AdviceKept
  <2>3. \A q \in DOMAIN runs' : Asked(q)'
    BY <1>1, <2>1, <2>2 DEF Asked
  <2>4. \A p \in Processes : Ready(p)'
    BY <1>1, <1>3, <2>1
  <2> QED
    BY <1>2, <2>2, <2>3, <2>4
<1>6. ASSUME NEW r, NEW x, Becomes(r, x), UNCHANGED <<events, recommended>>,
             x.granted = runs[r].granted, x.state \notin {"awaiting", "completed"}
      PROVE  /\ Recorded' /\ \A q \in DOMAIN runs' : Asked(q)'
             /\ DOMAIN runs' = DOMAIN runs
             /\ \A q \in DOMAIN runs : runs'[q].agent = runs[q].agent
  <2>1. /\ runs'[r] = x /\ \A q \in DOMAIN runs : q # r => runs'[q] = runs[q]
        /\ DOMAIN runs' = DOMAIN runs /\ r \in DOMAIN runs
        /\ \A q \in DOMAIN runs : runs'[q].agent = runs[q].agent
    BY <1>6, BecomesAt
  <2>2. Recorded' /\ \A q, a : Says(q, a)' <=> Says(q, a)
    BY <1>6, <2>1, AdviceKept
  <2>3. \A q \in DOMAIN runs' : Asked(q)'
    BY <1>1, <1>6, <2>1, <2>2 DEF Asked
  <2> QED
    BY <2>1, <2>2, <2>3
<1>7. ASSUME NEW p, NEW r, NEW e, NEW x, Starts(p, r, e, x) PROVE AdviceInv'
  <2>1. /\ Becomes(r, x) /\ Turns(p, e) /\ UNCHANGED <<events, recommended>>
        /\ x.granted = runs[r].granted /\ x.state = "running" /\ e.step = "start"
    BY <1>7 DEF Starts
  <2>2. /\ Recorded' /\ \A q \in DOMAIN runs' : Asked(q)'
        /\ \A q \in DOMAIN runs : runs'[q].agent = runs[q].agent
    BY <1>6, <2>1
  <2>3. p \in Processes /\ work'[p] = e /\ \A q \in Processes : q # p => work'[q] = work[q]
    BY <2>1, TurnsAt
  <2>4. \A q \in Processes : Ready(q)'
    BY <1>1, <1>3, <2>1, <2>2, <2>3
  <2> QED
    BY <1>2, <2>2, <2>4
<1>8. ASSUME NEW p, NEW r, NEW e, NEW x, Continues(p, r, e, x) PROVE AdviceInv'
  <2>1. /\ Becomes(r, x) /\ Turns(p, e) /\ UNCHANGED <<events, recommended>>
        /\ x.granted = runs[r].granted /\ x.state = runs[r].state
        /\ work[p].run = r /\ e.run = r
    BY <1>8 DEF Continues
  <2>2. p \in Processes /\ work'[p] = e /\ \A q \in Processes : q # p => work'[q] = work[q]
    BY <2>1, TurnsAt
  <2>3. r \in DOMAIN runs /\ r # 0 /\ runs[r].state = "running" /\ x \in RunOf
        /\ runs'[r] = x /\ x.agent = runs[r].agent
    <3>1. r \in DOMAIN runs /\ r # 0 /\ runs'[r] = x
      BY <2>1, BecomesAt
    <3> QED
      BY <1>1, <2>1, <2>2, <3>1 DEF Becomes
  <2>4. /\ Recorded' /\ \A q \in DOMAIN runs' : Asked(q)'
        /\ \A q \in DOMAIN runs : runs'[q].agent = runs[q].agent
    BY <1>6, <2>1, <2>3
  <2>5. e.step = "done" => Advises(e, r)
    <3>1. CASE x = runs[r] /\ runs[r].agent = "reflector" /\ e.out = <<>> /\ ~e.asks
      <4>1. DOMAIN <<>> = {}
        OBVIOUS
      <4> QED
        BY <3>1, <4>1 DEF Advises
    <3>2. CASE Advises(e, r)
      BY <3>2
    <3>3. CASE e.step = "seeded"
      BY <3>3
    <3>4. CASE runs[r].agent = "ceo" /\ e.out = Brief(r, x.tasks) /\ ~e.asks
      <4>1. PICK t : t = x.tasks
        OBVIOUS
      <4>2. t \in Tasks
        BY <2>3, <4>1 DEF RunOf
      <4>3. \A k \in DOMAIN Brief(r, t) : Brief(r, t)[k].type # Recommendation
        BY <4>2, BriefTypes
      <4> QED
        BY <3>4, <4>1, <4>3 DEF Advises
    <3> QED
      BY <1>8, <3>1, <3>2, <3>3, <3>4 DEF Continues
  <2>6. Ready(p)'
    BY <2>1, <2>2, <2>3, <2>5 DEF Advises
  <2>7. \A q \in Processes : q # p => Ready(q)'
    BY <1>1, <1>3, <2>2, <2>4
  <2> QED
    BY <1>2, <2>4, <2>6, <2>7
<1>9. ASSUME NEW r, NEW x, Decides(r, x) PROVE AdviceInv'
  <2>1. /\ Becomes(r, x) /\ runs[r].state = "awaiting" /\ UNCHANGED <<work, events, recommended>>
    BY <1>9 DEF Decides
  <2>2. /\ runs'[r] = x /\ \A q \in DOMAIN runs : q # r => runs'[q] = runs[q]
        /\ DOMAIN runs' = DOMAIN runs /\ r \in DOMAIN runs
        /\ \A q \in DOMAIN runs : runs'[q].agent = runs[q].agent
    BY <2>1, BecomesAt
  <2>3. Recorded' /\ \A q, a : Says(q, a)' <=> Says(q, a)
    BY <2>1, <2>2, AdviceKept
  <2>4. x.state \in {"pending", "failed"} /\ x.agent = runs[r].agent
    BY <1>1, <1>9, <2>2 DEF Decides, RunOf
  <2>5. \A q \in DOMAIN runs' : Asked(q)'
    BY <1>1, <2>1, <2>2, <2>3, <2>4 DEF Asked
  <2>6. \A p \in Processes : Ready(p)'
    BY <1>1, <1>3, <2>1, <2>2
  <2> QED
    BY <1>2, <2>3, <2>5, <2>6
<1>10. ASSUME NEW p, NEW r, NEW x, Ends(p, r, x) PROVE AdviceInv'
  <2>1. /\ Becomes(r, x) /\ Turns(p, NoRun) /\ work[p].run = r /\ NoRun.run = 0
    BY <1>10 DEF Ends, NoRun
  <2>2. /\ p \in Processes /\ r \in DOMAIN runs /\ r # 0 /\ runs[r].state = "running"
        /\ Executes(work[p], r)
        /\ x.agent = runs[r].agent /\ x.granted = runs[r].granted
    BY <1>10, EndsWith
  <2>3. /\ runs'[r] = x /\ \A q \in DOMAIN runs : q # r => runs'[q] = runs[q]
        /\ DOMAIN runs' = DOMAIN runs
        /\ \A q \in DOMAIN runs : runs'[q].agent = runs[q].agent
    BY <2>1, BecomesAt
  <2>4. work'[p] = NoRun /\ \A q \in Processes : q # p => work'[q] = work[q]
    BY <2>1, TurnsAt
  <2>5. \A q \in Processes : Ready(q)'
    BY <1>1, <1>3, <2>1, <2>2, <2>3, <2>4
  <2>6. CASE x.state \in {"failed", "lost", "stuck"} /\ UNCHANGED <<events, recommended>>
    BY <1>2, <1>6, <2>1, <2>2, <2>5, <2>6
  <2> DEFINE out == work[p].out
  <2>7. ASSUME NEW in, NEW n \in Nat, Passes(out, in, n),
               work[p].step = "done", ~Clashes(in), Outcome(work[p], in, n, x.state),
               events' = events \cup ToSet(in),
               recommended' = recommended \o Recommendations(r, in)
        PROVE  AdviceInv'
    <3>1. Advises(work[p], r)
      BY <1>1, <2>1, <2>2, <2>7
    <3>2. Passes(out, in, n)
      BY <2>7
    <3>3. PICK S : recommended \in Seq(S)
      BY <1>1 DEF Recorded
    <3> HIDE DEF out
    <3>4. CASE \A i \in DOMAIN in : in[i].type # Recommendation
      <4>1. Recommendations(r, in) = <<>>
        BY <3>4, NoAdvice
      <4>2. recommended' = recommended
        BY <2>7, <3>3, <4>1, ConcatEmptySeq
      <4>3. \A q, a : Says(q, a)' <=> Says(q, a)
        BY <4>2 DEF Says
      <4>4. events \subseteq events'
        BY <2>7
      <4>5. Recorded'
        BY <1>1, <2>3, <4>2, <4>4 DEF Recorded
      <4>6. x.state \in {"awaiting", "completed"} => runs[r].agent # "pricing" /\ x.state = "completed"
        <5>1. SUFFICES ASSUME in = out
                       PROVE runs[r].agent # "pricing" /\ ~work[p].asks
          BY <2>7 DEF Outcome, out
        <5>2. CASE runs[r].agent = "pricing"
          <6>1. PICK a \in Apps : out = <<Event(r, Recommendation, a, Blank)>>
            BY <3>1, <5>2 DEF Advises, out
          <6> DEFINE e == Event(r, Recommendation, a, Blank)
          <6>2. e.type = Recommendation
            BY EventFields
          <6> HIDE DEF e
          <6>3. out = <<e>> /\ DOMAIN <<e>> = {1} /\ <<e>>[1] = e
            BY <6>1 DEF e
          <6> QED
            BY <3>4, <5>1, <6>2, <6>3
        <5>3. CASE runs[r].agent # "pricing"
          BY <3>1, <5>3 DEF Advises
        <5> QED
          BY <5>2, <5>3
      <4>7. Asked(r)'
        BY <1>1, <2>2, <2>3, <4>3, <4>6 DEF Asked
      <4>8. \A q \in DOMAIN runs' : q # r => Asked(q)'
        BY <1>1, <2>3, <4>3 DEF Asked
      <4> QED
        BY <1>2, <2>5, <4>5, <4>7, <4>8
    <3>5. CASE \E i \in DOMAIN in : in[i].type = Recommendation
      <4>1. PICK i \in DOMAIN in : in[i].type = Recommendation
        BY <3>5
      <4>2. i \in DOMAIN out /\ out[i].type = Recommendation /\ i \in 1 .. n
        <5>1. PICK T : out \in Seq(T)
          BY <2>2 DEF Executes, out
        <5> QED
          BY <3>2, <4>1, <5>1, LenProperties DEF Passes
      <4>3. runs[r].agent = "pricing"
        BY <3>1, <4>2 DEF Advises, out
      <4>4. PICK a \in Apps : out = <<Event(r, Recommendation, a, Blank)>>
        BY <3>1, <4>3 DEF Advises, out
      <4> DEFINE e == Event(r, Recommendation, a, Blank)
      <4>5. e.type = Recommendation /\ e.run = r /\ e.about = a
        BY EventFields
      <4> HIDE DEF e
      <4>6. out = <<e>> /\ DOMAIN <<e>> = {1} /\ <<e>>[1] = e /\ Len(<<e>>) = 1
        BY <4>4 DEF e
      <4>7. in = out
        BY <3>2, <4>2, <4>6 DEF Passes
      <4>8. e \notin events /\ ToSet(in) = {e}
        <5>1. \A k \in DOMAIN in : in[k] \notin events
          BY <2>7 DEF Clashes
        <5> QED
          BY <4>6, <4>7, <5>1 DEF ToSet
      <4>9. recommended' = recommended \o <<<<r, a>>>>
        BY <2>7, <4>4, <4>7, OneAdvice
      <4>10. \A k \in DOMAIN recommended : recommended[k] # <<r, a>>
        <5> SUFFICES ASSUME NEW k \in DOMAIN recommended, recommended[k] = <<r, a>>
                     PROVE  FALSE
          OBVIOUS
        <5>1. PICK q \in DOMAIN runs, b \in Apps :
                 recommended[k] = <<q, b>> /\ Event(q, Recommendation, b, Blank) \in events
          BY <1>1 DEF Recorded
        <5>2. q = r /\ b = a
          BY <5>1
        <5> QED
          BY <4>8, <5>1, <5>2 DEF e
      <4>11. PICK y : y = <<r, a>>
        OBVIOUS
      <4>12. /\ \E T : recommended' \in Seq(T)
             /\ IsInjective(recommended')
             /\ \A k \in DOMAIN recommended :
                   k \in DOMAIN recommended' /\ recommended'[k] = recommended[k]
             /\ \E k \in DOMAIN recommended' : recommended'[k] = y
             /\ \A k \in DOMAIN recommended' :
                   (k \in DOMAIN recommended /\ recommended'[k] = recommended[k]) \/ recommended'[k] = y
        <5>1. IsInjective(recommended) /\ \A k \in DOMAIN recommended : recommended[k] # y
          BY <1>1, <4>10, <4>11 DEF Recorded
        <5>2. recommended' = recommended \o <<y>>
          BY <4>9, <4>11
        <5> QED
          BY <3>3, <5>1, <5>2, OneMore
      <4>13. Says(r, a)' /\ ~Says(r, a) /\ \A q, b : Says(q, b) => Says(q, b)'
        BY <4>10, <4>11, <4>12 DEF Says
      <4>14. Recorded'
        <5>1. ASSUME NEW k \in DOMAIN recommended'
              PROVE  \E q \in DOMAIN runs', b \in Apps :
                        recommended'[k] = <<q, b>> /\ Event(q, Recommendation, b, Blank) \in events'
          <6>1. CASE k \in DOMAIN recommended /\ recommended'[k] = recommended[k]
            BY <1>1, <2>3, <2>7, <6>1 DEF Recorded
          <6>2. CASE recommended'[k] = y
            <7>1. Event(r, Recommendation, a, Blank) \in events'
              BY <2>7, <4>8 DEF e
            <7> QED
              BY <2>2, <2>3, <4>11, <6>2, <7>1
          <6> QED
            BY <4>12, <6>1, <6>2
        <5> QED
          BY <4>12, <5>1 DEF Recorded
      <4>15. Asked(r)'
        <5>1. runs'[r].agent = "pricing" /\ \E b \in Apps : Says(r, b)'
          BY <2>2, <2>3, <4>3, <4>13
        <5>2. ASSUME runs'[r].granted
              PROVE  \E b, c \in Apps : b # c /\ Says(r, b)' /\ Says(r, c)'
          <6>1. PICK b \in Apps : Says(r, b)
            BY <1>1, <2>2, <2>3, <5>2 DEF Asked
          <6> QED
            BY <4>13, <6>1
        <5> QED
          BY <5>1, <5>2 DEF Asked
      <4>16. \A q \in DOMAIN runs' : q # r => Asked(q)'
        BY <1>1, <2>3, <4>13 DEF Asked
      <4> QED
        BY <1>2, <2>5, <4>14, <4>15, <4>16
    <3> QED
      BY <3>4, <3>5
  <2> QED
    BY <1>10, <2>6, <2>7 DEF Ends, Records
<1> QED
  BY <1>4, <1>5, <1>7, <1>8, <1>9, <1>10, StepKinds

\* One run recommends a price for an app once, however often it is granted and
\* executes again: the key of the event keeps it (pricing_recommendation_agent
\* under the runner's outbox).
THEOREM RecommendsOnce == Spec => []RecommendedOnce
<1> DEFINE Inv == FiringInv /\ WorkInv /\ AdviceInv
<1>1. Init => Inv
  BY FiringInit, WorkInit, AdviceInit
<1>2. Inv /\ [Next]_vars => Inv'
  BY FiringStep, WorkStep, AdviceStep DEF FiringInv
<1>3. Inv => RecommendedOnce
  <2> SUFFICES ASSUME AdviceInv, NEW r \in DOMAIN runs, runs[r].granted, runs[r].state = "completed"
               PROVE  Cardinality({ a \in Apps : <<r, a>> \in ToSet(recommended) }) > 1
    BY DEF RecommendedOnce, AdviceInv, Recorded
  <2> DEFINE A == { a \in Apps : <<r, a>> \in ToSet(recommended) }
  <2>1. PICK a \in Apps, b \in Apps : a # b /\ Says(r, a) /\ Says(r, b)
    BY DEF AdviceInv, Asked
  <2>2. {a, b} \subseteq A
    BY <2>1 DEF Says, ToSet
  <2>3. IsFiniteSet(A) /\ Cardinality(A) \in Nat
    BY Finite, FS_Subset, FS_CardinalityType
  <2> HIDE DEF A
  <2>4. IsFiniteSet({a}) /\ Cardinality({a}) = 1
    BY FS_Singleton
  <2>5. b \notin {a} /\ {a} \cup {b} = {a, b}
    BY <2>1
  <2>6. IsFiniteSet({a, b}) /\ Cardinality({a, b}) = 2
    <3>1. /\ IsFiniteSet({a} \cup {b})
          /\ Cardinality({a} \cup {b}) = IF b \in {a} THEN Cardinality({a}) ELSE Cardinality({a}) + 1
      BY <2>4, FS_AddElement
    <3>2. Cardinality({a} \cup {b}) = 2
      BY <2>4, <2>5, <3>1
    <3> QED
      BY <2>5, <3>1, <3>2
  <2>7. Cardinality({a, b}) <= Cardinality(A)
    BY <2>2, <2>3, FS_Subset
  <2> QED
    BY <2>3, <2>6, <2>7 DEF A
<1> QED
  BY <1>1, <1>2, <1>3, PTL DEF Spec

-----------------------------------------------------------------------------
(* The tasks of a brief.                                                   *)

\* The tasks of t that an event of run r has given to their agent.
Reached(r, t) ==
    { i \in DOMAIN t : \E e \in events : /\ e.run = r /\ e.title = t[i].title
                                         /\ Subscribers(e.type) = {t[i].to} }

\* What TasksReach says of one run.
Reaches(r) ==
    LET t == runs[r].tasks
    IN /\ runs[r].state = "completed" => Reached(r, t) = DOMAIN t
       /\ runs[r].state = "failed" =>
             \/ Reached(r, t) = {}
             \/ \E n \in DOMAIN t :
                   /\ t[n].to \in {"marketing", "hub-dev"} \/ studio = "amz"
                   /\ Reached(r, t) = { i \in DOMAIN t : \E j \in 1 .. n - 1 : t[j] = t[i] }
       /\ runs[r].state = "stuck" => ~IsInjective(t)

\* A run of the CEO asks nobody, and has no event before it ends.
Told(r) ==
    /\ ~runs[r].granted /\ runs[r].state # "awaiting"
    /\ runs[r].state \in {"pending", "running", "stuck", "lost"} => \A e \in events : e.run # r
    /\ Reaches(r)

Briefed(p) ==
    work[p].run # 0 /\ work[p].step = "done" /\ runs[work[p].run].agent = "ceo" =>
        work[p].out = Brief(work[p].run, runs[work[p].run].tasks) /\ ~work[p].asks

BriefInv ==
    /\ \A p \in Processes : Briefed(p)
    /\ \A r \in DOMAIN runs : runs[r].agent = "ceo" => Told(r)

LEMMA SameSubscribers ==
    ASSUME studio' = studio
    PROVE  \A type : Subscribers(type)' = Subscribers(type)
BY DEF Subscribers, ValidTargets

LEMMA NothingReached ==
    ASSUME NEW r, NEW t, \A e \in events : e.run # r
    PROVE  Reached(r, t) = {}
BY DEF Reached

\* The type of a task is registered unless it is for one of two agents; then
\* the agent, and nobody else, hears of it.
LEMMA TaskTypes ==
    ASSUME studio \in {"amz", "app"}, NEW a \in ValidTargets
    PROVE  /\ TaskType(a) \notin Schemas => a \in {"marketing", "hub-dev"}
           /\ TaskType(a) \in Schemas => Subscribers(TaskType(a)) = {a}
           /\ TaskType(a) # <<"ceo", "weekly_brief">>
<1>1. CASE studio = "amz"
  <2>1. ValidTargets = {"monitor", "scout", "analyst", "pricer", "repricer", "crosslister",
                        "admanager", "qa", "dev"}
    BY <1>1 DEF ValidTargets
  <2>2. TaskType(a) = <<"task", a>>
    BY <2>1 DEF TaskType, Suffix
  <2>3. TaskType(a) \in Schemas
    BY <1>1, <2>2 DEF Schemas
  <2>4. Subscribers(TaskType(a)) = { b \in ValidTargets : <<"task", b>> = TaskType(a) }
    BY <1>1, <2>2 DEF Subscribers
  <2> QED
    BY <2>2, <2>3, <2>4
<1>2. CASE studio = "app"
  <2> DEFINE F == {"growth-intel", "growth-exec", "pricing", "dev", "qa"}
  <2>1. a \in F \cup {"marketing", "hub-dev"}
    BY <1>2 DEF ValidTargets
  <2>2. /\ Suffix("growth-intel") = "growth_intel" /\ Suffix("growth-exec") = "growth_exec"
        /\ Suffix("hub-dev") = "hub_dev" /\ Suffix("pricing") = "pricing"
        /\ Suffix("dev") = "dev" /\ Suffix("qa") = "qa" /\ Suffix("marketing") = "marketing"
    BY DEF Suffix
  <2>3. \A b, c \in F \cup {"marketing", "hub-dev"} : Suffix(b) = Suffix(c) => b = c
    BY <2>2
  <2>4. \A b, c \in F \cup {"marketing", "hub-dev"} : TaskType(b) = TaskType(c) => b = c
    BY <2>3 DEF TaskType
  <2>5. TaskType(a) # <<"ceo", "weekly_brief">>
    BY DEF TaskType
  <2>6. TaskType(a) = <<"task", Suffix(a)>>
    BY DEF TaskType
  <2>7. Subscribers(TaskType(a)) = { b \in F : TaskType(b) = TaskType(a) }
    BY <1>2, <2>6 DEF Subscribers
  <2>8. a \in F => Subscribers(TaskType(a)) = {a}
    BY <2>1, <2>4, <2>7
  <2>9. a \in F => Suffix(a) \in {"growth_intel", "pricing", "growth_exec", "dev", "qa"}
    BY <2>2
  <2>10. a \in F => TaskType(a) \in Schemas
    BY <1>2, <2>6, <2>9 DEF Schemas
  <2>11. a \notin F => Suffix(a) \in {"marketing", "hub_dev"}
    BY <2>1, <2>2
  <2>12. a \notin F => TaskType(a) \notin Schemas
    BY <1>2, <2>6, <2>11 DEF Schemas
  <2> QED
    BY <2>1, <2>5, <2>8, <2>10, <2>12
<1> QED
  BY <1>1, <1>2

\* The event k of a brief that is accepted gives task i, if it is one, to its
\* agent exactly if it is that task, or one that equals it.
LEMMA BriefReaches ==
    ASSUME studio \in {"amz", "app"}, NEW r, NEW t \in Tasks,
           NEW k \in DOMAIN Brief(r, t), Brief(r, t)[k].type \in Schemas,
           NEW i \in DOMAIN t
    PROVE  /\ Brief(r, t)[k].title = t[i].title
           /\ Subscribers(Brief(r, t)[k].type) = {t[i].to}
           <=> k - Leads \in DOMAIN t /\ t[k - Leads] = t[i]
<1> DEFINE T == [to : ValidTargets, title : Titles]
           e == Brief(r, t)[k]
<1>1. /\ Leads \in {0, 1} /\ k \in Nat
  BY BriefKnown, LenProperties DEF Leads
<1>2. \A j \in DOMAIN t : t[j] \in T
  BY ElementOfSeq, LenProperties DEF Tasks
<1>3. \A x, y \in T : x.to = y.to /\ x.title = y.title => x = y
  OBVIOUS
<1>4. \A x \in T : x.to \in ValidTargets
  OBVIOUS
<1> HIDE DEF T
<1>5. CASE k - Leads \in DOMAIN t
  <2>1. PICK j : j = k - Leads
    OBVIOUS
  <2>2. j \in DOMAIN t /\ Leads + j = k
    BY <1>1, <1>5, <2>1
  <2>3. e = Event(r, TaskType(t[j].to), t[j].to, t[j].title)
    BY <2>2, BriefKnown
  <2>4. e.type = TaskType(t[j].to) /\ e.title = t[j].title
    BY <2>3, EventFields
  <2>5. Subscribers(e.type) = {t[j].to}
    BY <1>2, <1>4, <2>2, <2>4, TaskTypes
  <2>6. e.title = t[i].title /\ Subscribers(e.type) = {t[i].to} <=> t[j] = t[i]
    BY <1>2, <1>3, <2>2, <2>4, <2>5
  <2> QED
    BY <1>5, <2>1, <2>6
<1>6. CASE k - Leads \notin DOMAIN t
  <2>1. Leads = 1 /\ e = Event(r, <<"ceo", "weekly_brief">>, Blank, Blank)
    BY <1>6, BriefKnown
  <2>2. e.type = <<"ceo", "weekly_brief">>
    BY <2>1, EventFields
  <2>3. Subscribers(<<"ceo", "weekly_brief">>) = {}
    BY DEF Subscribers
  <2> QED
    BY <1>6, <2>2, <2>3
<1> QED
  BY <1>5, <1>6

\* What a commit of the first n events of a brief gives to the agents.
LEMMA BriefCommitted ==
    ASSUME studio \in {"amz", "app"}, studio' = studio, NEW r, NEW t \in Tasks,
           NEW in, NEW n \in Nat, Passes(Brief(r, t), in, n),
           \A e \in events : e.run # r, events' = events \cup ToSet(in)
    PROVE  /\ in = Brief(r, t) => Reached(r, t)' = DOMAIN t
           /\ in # Brief(r, t) /\ Stops(Brief(r, t), n) =>
                 \E m \in DOMAIN t :
                     /\ t[m].to \in {"marketing", "hub-dev"} \/ studio' = "amz"
                     /\ Reached(r, t)' = { i \in DOMAIN t : \E j \in 1 .. m - 1 : t[j] = t[i] }
<1> DEFINE out == Brief(r, t)
           By == { i \in DOMAIN t : \E j \in 1 .. n - Leads : j \in DOMAIN t /\ t[j] = t[i] }
<1>1. /\ Leads \in {0, 1} /\ Len(out) = Leads + Len(t) /\ DOMAIN out = 1 .. Len(out)
      /\ Len(t) \in Nat /\ DOMAIN t = 1 .. Len(t)
      /\ \A k \in DOMAIN out : out[k].run = r
  BY BriefKnown, LenProperties DEF Leads, Tasks
<1>2. /\ n \in 0 .. Len(out) /\ DOMAIN in = 1 .. n
      /\ \A k \in 1 .. n : k \in DOMAIN out /\ in[k] = out[k] /\ out[k].type \in Schemas
      /\ in = out <=> n = Len(out)
  BY <1>1 DEF Passes
<1>3. \A type : Subscribers(type)' = Subscribers(type)
  BY SameSubscribers
<1>4. Reached(r, t)' = { i \in DOMAIN t : \E e \in events' : /\ e.run = r /\ e.title = t[i].title
                                                             /\ Subscribers(e.type) = {t[i].to} }
  BY <1>3 DEF Reached
<1> HIDE DEF out
<1>5. \A e : e \in events' /\ e.run = r <=> \E k \in 1 .. n : e = out[k]
  BY <1>1, <1>2 DEF ToSet
<1>6. ASSUME NEW k \in 1 .. n, NEW i \in DOMAIN t
      PROVE  /\ out[k].title = t[i].title /\ Subscribers(out[k].type) = {t[i].to}
             <=> k - Leads \in DOMAIN t /\ t[k - Leads] = t[i]
  <2>1. k \in DOMAIN Brief(r, t) /\ Brief(r, t)[k].type \in Schemas
    BY <1>2 DEF out
  <2>2. /\ Brief(r, t)[k].title = t[i].title /\ Subscribers(Brief(r, t)[k].type) = {t[i].to}
        <=> k - Leads \in DOMAIN t /\ t[k - Leads] = t[i]
    BY <2>1, BriefReaches
  <2> QED
    BY <2>2 DEF out
<1>7. ASSUME NEW i \in DOMAIN t
      PROVE  (\E e \in events' : /\ e.run = r /\ e.title = t[i].title
                                 /\ Subscribers(e.type) = {t[i].to})
             <=> \E j \in 1 .. n - Leads : j \in DOMAIN t /\ t[j] = t[i]
  <2>1. ASSUME NEW e \in events', e.run = r, e.title = t[i].title,
               Subscribers(e.type) = {t[i].to}
        PROVE  \E j \in 1 .. n - Leads : j \in DOMAIN t /\ t[j] = t[i]
    <3>1. PICK k \in 1 .. n : e = out[k]
      BY <1>5, <2>1
    <3>2. k - Leads \in DOMAIN t /\ t[k - Leads] = t[i]
      BY <1>6, <2>1, <3>1
    <3>3. k - Leads \in 1 .. n - Leads
      BY <1>1, <3>1, <3>2
    <3> QED
      BY <3>2, <3>3
  <2>2. ASSUME NEW j \in 1 .. n - Leads, j \in DOMAIN t, t[j] = t[i]
        PROVE  \E e \in events' : /\ e.run = r /\ e.title = t[i].title
                                  /\ Subscribers(e.type) = {t[i].to}
    <3>1. PICK k : k = Leads + j
      OBVIOUS
    <3>2. k \in 1 .. n /\ k - Leads = j
      BY <1>1, <3>1
    <3>3. out[k].title = t[i].title /\ Subscribers(out[k].type) = {t[i].to}
      BY <1>6, <2>2, <3>2
    <3>4. out[k] \in events' /\ out[k].run = r
      BY <1>1, <1>2, <1>5, <3>2
    <3> QED
      BY <3>3, <3>4
  <2> QED
    BY <2>1, <2>2
<1>8. Reached(r, t)' = By
  BY <1>4, <1>7
<1>9. CASE in = out
  <2>1. n - Leads = Len(t)
    BY <1>1, <1>2, <1>9
  <2>2. By = DOMAIN t
    BY <1>1, <2>1
  <2> QED
    BY <1>8, <1>9, <2>2 DEF out
<1>10. CASE in # out /\ Stops(out, n)
  <2>1. /\ n < Len(out) /\ n + 1 \in DOMAIN out
        /\ out[n + 1].type \notin Schemas \/ Loose(out[n + 1].type)
    BY <1>1, <1>2, <1>10 DEF Stops
  <2>2. n + 1 - Leads \in DOMAIN t
    <3> SUFFICES ASSUME n + 1 - Leads \notin DOMAIN t PROVE FALSE
      OBVIOUS
    <3>0. PICK k : k = n + 1
      OBVIOUS
    <3>5. k \in DOMAIN Brief(r, t)
      BY <2>1, <3>0 DEF out
    <3>6. k - Leads \notin DOMAIN t
      BY <1>1, <3>0
    <3>7. Leads = 1 /\ k = 1 /\ Brief(r, t)[k] = Event(r, <<"ceo", "weekly_brief">>, Blank, Blank)
      BY <3>5, <3>6, BriefKnown
    <3>1. Leads = 1 /\ n + 1 = 1 /\ out[n + 1] = Event(r, <<"ceo", "weekly_brief">>, Blank, Blank)
      BY <3>0, <3>7 DEF out
    <3>2. out[n + 1].type = <<"ceo", "weekly_brief">>
      BY <3>1, EventFields
    <3>3. studio # "amz"
      BY <3>1 DEF Leads
    <3>4. <<"ceo", "weekly_brief">> \in Schemas /\ ~Loose(<<"ceo", "weekly_brief">>)
      BY <3>3 DEF Schemas, Loose
    <3> QED
      BY <2>1, <3>2, <3>4
  <2>3. PICK m : m = n + 1 - Leads
    OBVIOUS
  <2>4. m \in DOMAIN t /\ Leads + m = n + 1 /\ m - 1 = n - Leads
    BY <1>1, <2>2, <2>3
  <2>5. out[Leads + m] = Event(r, TaskType(t[m].to), t[m].to, t[m].title)
    BY <2>4, BriefKnown DEF out
  <2>6. out[n + 1].type = TaskType(t[m].to)
    BY <2>4, <2>5, EventFields
  <2>7. t[m] \in [to : ValidTargets, title : Titles]
    BY <2>4, ElementOfSeq, LenProperties DEF Tasks
  <2>8. t[m].to \in {"marketing", "hub-dev"} \/ studio' = "amz"
    <3>1. studio # "amz" => ~Loose(TaskType(t[m].to))
      BY DEF Loose, TaskType
    <3> QED
      BY <2>1, <2>6, <2>7, <3>1, TaskTypes
  <2>9. \A j \in 1 .. m - 1 : j \in DOMAIN t
    BY <1>1, <2>4
  <2>10. By = { i \in DOMAIN t : \E j \in 1 .. m - 1 : t[j] = t[i] }
    BY <2>4, <2>9
  <2> QED
    BY <1>8, <1>10, <2>4, <2>8, <2>10 DEF out
<1> QED
  BY <1>9, <1>10 DEF out

\* A brief whose events clash with each other names a task twice.
LEMMA BriefClashes ==
    ASSUME studio \in {"amz", "app"}, NEW r, NEW t \in Tasks,
           NEW in, NEW n \in Nat, Passes(Brief(r, t), in, n),
           \A e \in events : e.run # r, Clashes(in)
    PROVE  ~IsInjective(t)
<1> DEFINE out == Brief(r, t)
           T == [to : ValidTargets, title : Titles]
<1>1. /\ Leads \in {0, 1} /\ Len(out) = Leads + Len(t) /\ DOMAIN out = 1 .. Len(out)
      /\ Len(t) \in Nat /\ DOMAIN t = 1 .. Len(t)
      /\ \A k \in DOMAIN out : out[k].run = r
  BY BriefKnown, LenProperties DEF Leads, Tasks
<1>2. /\ DOMAIN in = 1 .. n
      /\ \A k \in 1 .. n : k \in DOMAIN out /\ in[k] = out[k]
  BY <1>1 DEF Passes
<1>3. \A x, y \in T : x.to = y.to /\ x.title = y.title => x = y
  OBVIOUS
<1>4. \A j \in DOMAIN t : t[j] \in T
  BY ElementOfSeq, LenProperties DEF Tasks
<1>9. \A x \in T : x.to \in ValidTargets
  OBVIOUS
<1> HIDE DEF T
<1>5. PICK k \in 1 .. n, l \in 1 .. n : k # l /\ out[k] = out[l]
  <2>1. ~(\E k \in DOMAIN in : in[k] \in events)
    BY <1>1, <1>2
  <2> QED
    BY <1>2, <2>1 DEF Clashes
<1>6. ASSUME NEW k1 \in DOMAIN out
      PROVE  \/ Leads = 1 /\ k1 = 1 /\ out[k1].type = <<"ceo", "weekly_brief">>
             \/ \E j \in DOMAIN t : /\ k1 = Leads + j /\ out[k1].type = TaskType(t[j].to)
                                    /\ out[k1].about = t[j].to /\ out[k1].title = t[j].title
                                    /\ out[k1].type # <<"ceo", "weekly_brief">>
  <2>1. CASE k1 - Leads \in DOMAIN t
    <3>1. PICK j : j = k1 - Leads
      OBVIOUS
    <3>2. j \in DOMAIN t /\ Leads + j = k1
      BY <1>1, <2>1, <3>1
    <3>3. out[k1] = Event(r, TaskType(t[j].to), t[j].to, t[j].title)
      BY <3>2, BriefKnown
    <3>4. /\ out[k1].type = TaskType(t[j].to) /\ out[k1].about = t[j].to
          /\ out[k1].title = t[j].title
      BY <3>3, EventFields
    <3>5. TaskType(t[j].to) # <<"ceo", "weekly_brief">>
      BY <1>4, <1>9, <3>2, TaskTypes
    <3> QED
      BY <3>2, <3>4, <3>5
  <2>2. CASE k1 - Leads \notin DOMAIN t
    BY <2>2, BriefKnown, EventFields
  <2> QED
    BY <2>1, <2>2
<1>7. k \in DOMAIN out /\ l \in DOMAIN out
  BY <1>2
<1> HIDE DEF out
<1>8. PICK i \in DOMAIN t, j \in DOMAIN t :
         k = Leads + i /\ l = Leads + j /\ t[i].to = t[j].to /\ t[i].title = t[j].title
  BY <1>5, <1>6, <1>7
<1>10. i # j /\ t[i] = t[j]
  BY <1>3, <1>4, <1>5, <1>8
<1> QED
  BY <1>10 DEF IsInjective

LEMMA SameBrief ==
    ASSUME studio' = studio
    PROVE  \A r, t : Brief(r, t)' = Brief(r, t)
BY DEF Brief

\* A run that stays as it is, while only others get events.
LEMMA ToldKept ==
    ASSUME studio' = studio, NEW r, runs'[r] = runs[r], events \subseteq events',
           \A e \in events' : e \notin events => e.run # r, Told(r)
    PROVE  Told(r)'
<1>1. PICK t : t = runs[r].tasks
  OBVIOUS
<1>2. Reached(r, t)' = Reached(r, t)
  BY SameSubscribers DEF Reached
<1>3. (\A e \in events : e.run # r) => \A e \in events' : e.run # r
  OBVIOUS
<1>4. Reaches(r)'
  BY <1>1, <1>2 DEF Reaches, Told
<1> QED
  BY <1>3, <1>4 DEF Told

\* A run that has no events, and has not committed any.
LEMMA ToldSilent ==
    ASSUME NEW r, ~runs'[r].granted, runs'[r].state \notin {"awaiting", "completed"},
           \A e \in events' : e.run # r,
           runs'[r].state = "stuck" => ~IsInjective(runs'[r].tasks)
    PROVE  Told(r)'
<1>1. PICK t : t = runs'[r].tasks
  OBVIOUS
<1>2. Reached(r, t)' = {}
  BY DEF Reached
<1>3. Reaches(r)'
  BY <1>1, <1>2 DEF Reaches
<1> QED
  BY <1>3 DEF Told

LEMMA BriefInit == Init => BriefInv
<1> SUFFICES ASSUME Init PROVE BriefInv
  OBVIOUS
<1>1. runs = <<>> /\ \A p \in Processes : work[p] = NoRun
  BY DEF Init
<1>2. DOMAIN runs = {} /\ NoRun.run = 0
  BY <1>1 DEF NoRun
<1> QED
  BY <1>1, <1>2 DEF BriefInv, Briefed

LEMMA BriefStep == WorkInv /\ FiringTypes /\ EventsInv /\ BriefInv /\ [Next]_vars => BriefInv'
<1> SUFFICES ASSUME WorkInv, FiringTypes, EventsInv, BriefInv, [Next]_vars PROVE BriefInv'
  OBVIOUS
<1> DEFINE Tells(q) == runs[q].agent = "ceo" => Told(q)
<1>1. /\ \A p \in Processes : Briefed(p)
      /\ \A q \in DOMAIN runs : Tells(q)
      /\ \A p \in Processes : work[p].run \in {0} \cup DOMAIN runs
      /\ \A q \in DOMAIN runs : runs[q] \in RunOf
      /\ \A p \in Processes : work[p].run # 0 => runs[work[p].run].state = "running"
      /\ studio \in {"amz", "app"}
  BY KnownStudios, ElementOfSeq, LenProperties DEF BriefInv, WorkInv, Executed
<1>2. (\A p \in Processes : Briefed(p)') /\ (\A q \in DOMAIN runs' : Tells(q)') => BriefInv'
  BY DEF BriefInv
<1>3. ASSUME NEW p \in Processes, work'[p] = work[p], studio' = studio,
             work[p].run # 0 => runs'[work[p].run] = runs[work[p].run]
      PROVE  Briefed(p)'
  BY <1>1, <1>3, SameBrief DEF Briefed
<1>4. ASSUME NEW q \in DOMAIN runs, runs'[q] = runs[q], studio' = studio,
             events \subseteq events', \A e \in events' : e \notin events => e.run # q
      PROVE  Tells(q)'
  BY <1>1, <1>4, ToldKept
<1>5. CASE Stays
  <2>1. UNCHANGED <<studio, runs, work, events>>
    BY <1>5 DEF Stays
  <2>2. \A p \in Processes : Briefed(p)'
    BY <1>3, <2>1
  <2>3. \A q \in DOMAIN runs' : Tells(q)'
    BY <1>4, <2>1
  <2> QED
    BY <1>2, <2>2, <2>3
<1>6. CASE Adds
  <2>1. /\ DOMAIN runs \subseteq DOMAIN runs' /\ UNCHANGED <<studio, work, events>>
        /\ \A q \in DOMAIN runs : runs'[q] = runs[q]
        /\ \A q \in DOMAIN runs' \ DOMAIN runs : ~runs'[q].granted /\ runs'[q].state = "pending"
    BY <1>6 DEF Adds, NewRun
  <2>2. \A p \in Processes : Briefed(p)'
    BY <1>1, <1>3, <2>1
  <2>3. ASSUME NEW q \in DOMAIN runs' PROVE Tells(q)'
    <3>1. CASE q \in DOMAIN runs
      BY <1>4, <2>1, <3>1
    <3>2. CASE q \notin DOMAIN runs
      <4>1. \A e \in events' : e.run # q
        BY <2>1, <3>2 DEF EventsInv
      <4>2. ~runs'[q].granted /\ runs'[q].state = "pending"
        BY <2>1, <3>2
      <4> QED
        BY <4>1, <4>2, ToldSilent
    <3> QED
      BY <3>1, <3>2
  <2> QED
    BY <1>2, <2>2, <2>3
<1>7. ASSUME NEW r, NEW x, Becomes(r, x)
      PROVE  /\ runs'[r] = x /\ \A q \in DOMAIN runs : q # r => runs'[q] = runs[q]
             /\ DOMAIN runs' = DOMAIN runs /\ r \in DOMAIN runs /\ r # 0
             /\ studio' = studio /\ x.agent = runs[r].agent
             /\ events' = events => \A q \in DOMAIN runs : q # r => Tells(q)'
  <2>1. /\ runs'[r] = x /\ \A q \in DOMAIN runs : q # r => runs'[q] = runs[q]
        /\ DOMAIN runs' = DOMAIN runs /\ r \in DOMAIN runs /\ r # 0
        /\ studio' = studio /\ x.agent = runs[r].agent
    BY <1>7, BecomesAt DEF Becomes
  <2>2. events' = events => \A q \in DOMAIN runs : q # r => Tells(q)'
    BY <1>4, <2>1
  <2> QED
    BY <2>1, <2>2
<1>8. ASSUME NEW p \in Processes, NEW r, NEW x, Becomes(r, x), NEW e, Turns(p, e),
             work[p].run = r \/ runs[r].state # "running",
             NEW q \in Processes, q # p
      PROVE  Briefed(q)'
  <2>1. work'[q] = work[q]
    BY <1>8, TurnsAt
  <2>2. work[q].run # 0 => runs'[work[q].run] = runs[work[q].run]
    BY <1>8, Others
  <2> QED
    BY <1>3, <1>7, <1>8, <2>1, <2>2
<1>9. ASSUME NEW p, NEW r, NEW e, NEW x, Starts(p, r, e, x) PROVE BriefInv'
  <2>1. /\ Becomes(r, x) /\ Turns(p, e) /\ UNCHANGED events
        /\ x.granted = runs[r].granted /\ x.state = "running" /\ e.step = "start"
        /\ runs[r].state = "pending"
    BY <1>9 DEF Starts
  <2>2. p \in Processes /\ work'[p] = e
    BY <2>1, TurnsAt
  <2>3. Briefed(p)'
    BY <2>1, <2>2 DEF Briefed
  <2>4. \A q \in Processes : Briefed(q)'
    BY <1>8, <2>1, <2>2, <2>3
  <2>5. Tells(r)'
    <3> SUFFICES ASSUME runs'[r].agent = "ceo" PROVE Told(r)'
      OBVIOUS
    <3>1. Told(r)
      BY <1>1, <1>7, <2>1
    <3>2. ~runs'[r].granted /\ runs'[r].state = "running" /\ \A e1 \in events' : e1.run # r
      BY <1>7, <2>1, <3>1 DEF Told
    <3> QED
      BY <3>2, ToldSilent
  <2>6. \A q \in DOMAIN runs' : Tells(q)'
    BY <1>7, <2>1, <2>5
  <2> QED
    BY <1>2, <2>4, <2>6
<1>10. ASSUME NEW p, NEW r, NEW e, NEW x, Continues(p, r, e, x) PROVE BriefInv'
  <2>1. /\ Becomes(r, x) /\ Turns(p, e) /\ UNCHANGED events
        /\ x.granted = runs[r].granted /\ x.state = runs[r].state
        /\ work[p].run = r /\ e.run = r
    BY <1>10 DEF Continues
  <2>2. p \in Processes /\ work'[p] = e
    BY <2>1, TurnsAt
  <2>3. runs[r].state = "running" /\ runs'[r] = x /\ x.agent = runs[r].agent /\ studio' = studio
    BY <1>1, <1>7, <2>1, <2>2
  <2>4. Briefed(p)'
    <3>1. CASE runs[r].agent # "ceo"
      BY <2>1, <2>2, <2>3, <3>1 DEF Briefed
    <3>2. CASE e.step = "seeded"
      BY <2>2, <3>2 DEF Briefed
    <3>3. CASE e.out = Brief(r, x.tasks) /\ ~e.asks
      BY <2>1, <2>2, <2>3, <3>3, SameBrief DEF Briefed
    <3> QED
      BY <1>10, <3>1, <3>2, <3>3 DEF Continues
  <2>5. \A q \in Processes : Briefed(q)'
    BY <1>8, <2>1, <2>2, <2>4
  <2>6. Tells(r)'
    <3> SUFFICES ASSUME runs'[r].agent = "ceo" PROVE Told(r)'
      OBVIOUS
    <3>1. Told(r)
      BY <1>1, <1>7, <2>1, <2>3
    <3>2. ~runs'[r].granted /\ runs'[r].state = "running" /\ \A e1 \in events' : e1.run # r
      BY <2>1, <2>3, <3>1 DEF Told
    <3> QED
      BY <3>2, ToldSilent
  <2>7. \A q \in DOMAIN runs' : Tells(q)'
    BY <1>7, <2>1, <2>6
  <2> QED
    BY <1>2, <2>5, <2>7
<1>11. ASSUME NEW r, NEW x, Decides(r, x) PROVE BriefInv'
  <2>1. Becomes(r, x) /\ runs[r].state = "awaiting" /\ UNCHANGED <<work, events>>
    BY <1>11 DEF Decides
  <2>2. runs'[r].agent # "ceo"
    BY <1>1, <1>7, <2>1 DEF Told
  <2>3. \A q \in DOMAIN runs' : Tells(q)'
    BY <1>7, <2>1, <2>2
  <2>4. ASSUME NEW q \in Processes PROVE Briefed(q)'
    <3>1. work[q].run # 0 => runs'[work[q].run] = runs[work[q].run]
      BY <1>1, <1>7, <2>1
    <3> QED
      BY <1>3, <1>7, <2>1, <3>1
  <2> QED
    BY <1>2, <2>3, <2>4
<1>12. ASSUME NEW p, NEW r, NEW x, Ends(p, r, x) PROVE BriefInv'
  <2>1. /\ Becomes(r, x) /\ Turns(p, NoRun) /\ work[p].run = r /\ NoRun.run = 0
    BY <1>12 DEF Ends, NoRun
  <2>2. /\ p \in Processes /\ r \in DOMAIN runs /\ r # 0 /\ runs[r].state = "running"
        /\ Executes(work[p], r) /\ runs[r] \in RunOf
        /\ x.agent = runs[r].agent /\ x.granted = runs[r].granted /\ x.tasks = runs[r].tasks
    BY <1>12, EndsWith
  <2>3. work'[p] = NoRun /\ runs'[r] = x /\ DOMAIN runs' = DOMAIN runs /\ studio' = studio
    BY <1>7, <2>1, TurnsAt
  <2>4. \A q \in Processes : Briefed(q)'
    BY <1>8, <2>1, <2>2, <2>3 DEF Briefed
  <2> DEFINE Silent == x.state \in {"failed", "lost"} /\ UNCHANGED events
             Ended(in, n) == /\ n \in Nat /\ Passes(work[p].out, in, n)
                             /\ work[p].step = "done" /\ Records(p, r, in, n, x.state)
  <2>0. Silent \/ \E in, n : Ended(in, n)
    BY <1>12 DEF Ends
  <2>5. PICK in, n : n \in Nat /\ Passes(work[p].out, in, n) /\ (Silent \/ Ended(in, n))
    <3>1. PICK S : work[p].out \in Seq(S)
      BY <2>2 DEF Executes
    <3>2. 0 \in Nat /\ Passes(work[p].out, <<>>, 0)
      BY <3>1, NothingPasses
    <3> QED
      BY <2>0, <3>2
  <2>6. UNCHANGED events \/ events' = events \cup ToSet(in)
    BY <2>5 DEF Records
  <2>7. \A e \in ToSet(in) : e.run = r
    <3>1. PICK S : work[p].out \in Seq(S)
      BY <2>2 DEF Executes
    <3>2. 1 .. n \subseteq DOMAIN work[p].out
      BY <2>5, <3>1, LenProperties DEF Passes
    <3> QED
      BY <2>2, <2>5, <3>2 DEF Executes, Passes, ToSet
  <2>8. events \subseteq events' /\ \A e \in events' : e \notin events => e.run = r
    BY <2>6, <2>7
  <2>9. ASSUME NEW q \in DOMAIN runs, q # r PROVE Tells(q)'
    BY <1>4, <1>7, <2>1, <2>8, <2>9
  <2>10. Tells(r)'
    <3> SUFFICES ASSUME runs'[r].agent = "ceo" PROVE Told(r)'
      OBVIOUS
    <3>1. Told(r) /\ Briefed(p)
      BY <1>1, <2>2, <2>3
    <3>2. ~runs[r].granted /\ \A e \in events : e.run # r
      BY <2>2, <3>1 DEF Told
    <3>3. PICK t : t = runs[r].tasks
      OBVIOUS
    <3>4. t \in Tasks
      BY <2>2, <3>3 DEF RunOf
    <3>5. work[p].step = "done" => work[p].out = Brief(r, t) /\ ~work[p].asks
      BY <2>1, <2>2, <2>3, <3>1, <3>3 DEF Briefed
    <3>6. CASE x.state \in {"failed", "lost"} /\ UNCHANGED events
      <4>1. ~runs'[r].granted /\ runs'[r].state \in {"failed", "lost"}
            /\ \A e \in events' : e.run # r
        BY <2>2, <2>3, <3>2, <3>6
      <4> QED
        BY <4>1, ToldSilent
    <3>7. CASE work[p].step = "done" /\ Clashes(in) /\ x.state = "stuck" /\ UNCHANGED events
      <4>1. Passes(Brief(r, t), in, n)
        BY <2>5, <3>5, <3>7
      <4>2. ~IsInjective(t)
        BY <1>1, <2>5, <3>2, <3>4, <3>7, <4>1, BriefClashes
      <4>3. /\ ~runs'[r].granted /\ runs'[r].state = "stuck"
            /\ runs'[r].tasks = t /\ \A e \in events' : e.run # r
        BY <2>2, <2>3, <3>2, <3>3, <3>7
      <4> QED
        BY <4>2, <4>3, ToldSilent
    <3>8. CASE /\ work[p].step = "done"
               /\ Outcome(work[p], in, n, x.state)
               /\ events' = events \cup ToSet(in)
      <4>1. Passes(Brief(r, t), in, n) /\ work[p].out = Brief(r, t) /\ ~work[p].asks
        BY <2>5, <3>5, <3>8
      <4>2. /\ in = Brief(r, t) => Reached(r, t)' = DOMAIN t
            /\ in # Brief(r, t) /\ Stops(Brief(r, t), n) =>
                  \E m \in DOMAIN t :
                      /\ t[m].to \in {"marketing", "hub-dev"} \/ studio' = "amz"
                      /\ Reached(r, t)' = { i \in DOMAIN t : \E j \in 1 .. m - 1 : t[j] = t[i] }
        BY <1>1, <2>3, <2>5, <3>2, <3>4, <3>8, <4>1, BriefCommitted
      <4>3. runs'[r].tasks = t /\ ~runs'[r].granted
            /\ \/ runs'[r].state = "completed" /\ in = Brief(r, t)
               \/ /\ runs'[r].state = "failed"
                  /\ in = <<>> \/ (in # Brief(r, t) /\ Stops(Brief(r, t), n))
        BY <2>2, <2>3, <3>2, <3>3, <3>8, <4>1 DEF Outcome
      <4>5. in = <<>> => Reached(r, t)' = {}
        <5>1. in = <<>> => events' = events
          BY <3>8 DEF ToSet
        <5> QED
          BY <3>2, <5>1 DEF Reached
      <4>4. Reaches(r)'
        BY <4>2, <4>3, <4>5 DEF Reaches
      <4> QED
        BY <4>3, <4>4 DEF Told
    <3> QED
      BY <2>5, <3>6, <3>7, <3>8 DEF Records
  <2>11. \A q \in DOMAIN runs' : Tells(q)'
    BY <2>3, <2>9, <2>10
  <2> QED
    BY <1>2, <2>4, <2>11
<1> QED
  BY <1>5, <1>6, <1>9, <1>10, <1>11, <1>12, StepKinds

\* What the CEO delegates in a run that completes wakes the agent it names and
\* nobody else; a run that fails over a task delegated the tasks before it, and
\* one is stuck only over two tasks of one key (node_publish of the CEO, the
\* runner's outbox, the event registry).
THEOREM TasksGetThere == Spec => []TasksReach
<1> DEFINE Inv == FiringInv /\ WorkInv /\ EventsInv /\ BriefInv
<1>1. Init => Inv
  <2> SUFFICES ASSUME Init PROVE EventsInv
    BY FiringInit, WorkInit, BriefInit
  <2> QED
    BY DEF Init, EventsInv
<1>2. Inv /\ [Next]_vars => Inv'
  BY FiringStep, WorkStep, EventsStep, BriefStep DEF FiringInv
<1>3. Inv => TasksReach
  <2> SUFFICES ASSUME BriefInv, NEW r \in DOMAIN runs, runs[r].agent = "ceo"
               PROVE  Reaches(r)
    BY DEF TasksReach, Reaches, Reached
  <2> QED
    BY DEF BriefInv, Told
<1> QED
  BY <1>1, <1>2, <1>3, PTL DEF Spec

=============================================================================
