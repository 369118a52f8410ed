------------------------- MODULE ConversationProofs -------------------------
(***************************************************************************)
(* What is proved of Conversation for every set of agents, names, posts     *)
(* and limits: agents of another studio are woken only by people who name   *)
(* them, and a call never takes another call's answer.                      *)
(***************************************************************************)
EXTENDS Conversation, SequenceTheorems, TLAPS

\* Every name somebody may use, and everybody a name may lead to.
Names == Words \cup { a[2] : a \in Agents \cup Bots }
Reach == Agents \cup Bots \cup { ByShort(word) : word \in Names } \cup {Nobody}

Vias == {"slack", "telegram", "none"}
Steps == {"idle", "think", "force", "execute", "calling", "format", "chain"}

Deliveries == [to : Openings, reply : BOOLEAN]
Woken == [agent : Reach, via : Vias]
Executions == [agent : Reach, via : Vias, step : Steps, done : Nat,
               iteration : Nat, said : Seq(Names)]

\* The types the proofs below rest on.
Typed ==
    /\ posts \in [slack : Nat, telegram : Nat]
    /\ tasks \in Seq(Deliveries)
    /\ owner \in Reach
    /\ queue \in Seq(Woken)
    /\ active \in Executions
    /\ client \in [id : Nat, asked : Nat, got : Nat]

-----------------------------------------------------------------------------
(* Names and types.                                                        *)

LEMMA NamesLead ==
    ASSUME NEW word \in Names
    PROVE  ByShort(word) \in Reach
BY DEF Reach

LEMMA StudioLeads ==
    ASSUME NEW studio, NEW word \in Names
    PROVE  InStudio(studio, word) \in Reach
BY NamesLead DEF InStudio, Reach

LEMMA OpeningsName ==
    ASSUME NEW to \in Openings
    PROVE  to[2] \in Names
BY DEF Openings, Names

LEMMA AddressedLeads ==
    ASSUME NEW to \in Openings, NEW known \in BOOLEAN
    PROVE  Addressed(to, known) \in Reach
BY OpeningsName, StudioLeads, NamesLead DEF Addressed, Reach

\* Removing an element of a sequence adds none.
LEMMA Removing ==
    ASSUME NEW S, NEW s \in Seq(S), NEW i \in DOMAIN s
    PROVE  /\ RemoveAt(s, i) \in Seq(S)
           /\ \A j \in DOMAIN RemoveAt(s, i) :
                 \E k \in DOMAIN s : RemoveAt(s, i)[j] = s[k]
<1> DEFINE a == SubSeq(s, 1, i - 1)
           b == SubSeq(s, i + 1, Len(s))
<1>1. Len(s) \in Nat /\ i \in Nat /\ i \in 1 .. Len(s) /\ DOMAIN s = 1 .. Len(s)
  BY LenProperties
<1>2. \A k \in 1 .. Len(s) : s[k] \in S
  BY ElementOfSeq
<1>3. /\ a \in Seq(S) /\ Len(a) = i - 1
      /\ \A k \in 1 .. i - 1 : a[k] = s[k]
  BY <1>1, <1>2, SubSeqProperties
<1>4. /\ b \in Seq(S) /\ Len(b) = Len(s) - i
      /\ \A k \in 1 .. Len(s) - i : b[k] = s[i + k]
  <2>1. \A k \in i + 1 .. Len(s) : s[k] \in S
    BY <1>1, <1>2
  <2> QED
    BY <1>1, <2>1, SubSeqProperties
<1> HIDE DEF a, b
<1>5. /\ a \o b \in Seq(S) /\ Len(a \o b) = Len(s) - 1
      /\ \A j \in 1 .. Len(s) - 1 :
            (a \o b)[j] = IF j <= i - 1 THEN a[j] ELSE b[j - (i - 1)]
  <2>1. /\ a \o b \in Seq(S) /\ Len(a \o b) = Len(a) + Len(b)
        /\ \A j \in 1 .. Len(a) + Len(b) :
              (a \o b)[j] = IF j <= Len(a) THEN a[j] ELSE b[j - Len(a)]
    BY <1>3, <1>4, ConcatProperties
  <2>2. Len(a) + Len(b) = Len(s) - 1
    BY <1>1, <1>3, <1>4
  <2> QED
    BY <2>1, <2>2, <1>3
<1>6. DOMAIN (a \o b) = 1 .. Len(s) - 1
  BY <1>5, LenProperties
<1>7. ASSUME NEW j \in 1 .. Len(s) - 1
      PROVE  \E k \in 1 .. Len(s) : (a \o b)[j] = s[k]
  <2>0. j \in Nat
    BY <1>1
  <2>1. CASE j <= i - 1
    BY <2>1, <1>1, <1>3, <1>5
  <2>2. CASE j > i - 1
    <3>1. (a \o b)[j] = s[i + (j - (i - 1))] /\ i + (j - (i - 1)) \in 1 .. Len(s)
      <4> DEFINE k == j - (i - 1)
      <4>1. k \in 1 .. Len(s) - i /\ i + k \in 1 .. Len(s)
        BY <2>2, <2>0, <1>1
      <4>2. (a \o b)[j] = b[k] /\ b[k] = s[i + k]
        BY <2>2, <2>0, <4>1, <1>1, <1>4, <1>5
      <4> QED
        BY <4>1, <4>2
    <3> QED
      BY <3>1
  <2>3. j <= i - 1 \/ j > i - 1
    BY <2>0, <1>1
  <2> QED
    BY <2>1, <2>2, <2>3
<1> QED
  BY <1>1, <1>5, <1>6, <1>7 DEF RemoveAt, a, b

LEMMA RepliesTyped == \A said \in Replies : said \in Seq(Names)
<1> SUFFICES ASSUME NEW n \in 0 .. MaxSaid, NEW said \in [1 .. n -> { a[2] : a \in Agents }]
             PROVE  said \in Seq(Names)
  BY DEF Replies
<1>1. n \in Nat /\ said \in [1 .. n -> Names]
  BY Limits DEF Names
<1> QED
  BY <1>1, SeqDef

LEMMA NobodyReached == Nobody \in Reach
BY DEF Reach

LEMMA NoRunTyped == NoRun \in Executions
BY NobodyReached, EmptySeq DEF NoRun, Executions, Vias, Steps

LEMMA WaitingTyped ==
    ASSUME Typed, NEW agent \in Reach, NEW via \in Vias
    PROVE  /\ Append(queue, Run(agent, via)) \in Seq(Woken)
           /\ Len(Append(queue, Run(agent, via))) = Len(queue) + 1
           /\ \A i \in 1 .. Len(queue) : Append(queue, Run(agent, via))[i] = queue[i]
           /\ Append(queue, Run(agent, via))[Len(queue) + 1] = Run(agent, via)
<1>1. Run(agent, via) \in Woken
  BY DEF Run, Woken
<1> QED
  BY <1>1, AppendProperties DEF Typed

LEMMA TaskTyped ==
    ASSUME Typed, NEW i \in DOMAIN tasks
    PROVE  tasks[i].to \in Openings
<1>1. tasks[i] \in Deliveries
  BY LenProperties, ElementOfSeq DEF Typed
<1> QED
  BY <1>1 DEF Deliveries

LEMMA SlackPosted == Typed => (posts.slack > 0) \in BOOLEAN
BY DEF Typed

LEMMA InitTyped == Init => Typed
<1> SUFFICES ASSUME Init PROVE Typed
  OBVIOUS
<1>1. tasks \in Seq(Deliveries) /\ queue \in Seq(Woken)
  BY EmptySeq DEF Init
<1> QED
  BY <1>1, NoRunTyped, NobodyReached DEF Init, Typed, NoCall

LEMMA GoesTyped ==
    ASSUME Typed, NEW step \in Steps
    PROVE  /\ Goes(step) \in Executions
           /\ Goes(step).step = step
           /\ Goes(step).agent = active.agent /\ Goes(step).via = active.via
           /\ Goes(step).iteration = active.iteration
<1> DEFINE gone == [active EXCEPT !.step = step]
<1>1. /\ gone \in Executions /\ gone.step = step /\ active.done \in Nat
      /\ gone.agent = active.agent /\ gone.via = active.via
      /\ gone.iteration = active.iteration
  BY DEF Typed, Executions
<1>2. Goes(step) = [gone EXCEPT !.done = active.done + 1]
  BY DEF Goes
<1> HIDE DEF gone
<1> QED
  BY <1>1, <1>2 DEF Executions

LEMMA NextTyped == Typed /\ [Next]_vars => Typed'
<1> SUFFICES ASSUME Typed, [Next]_vars PROVE Typed'
  OBVIOUS
<1>1. CASE UNCHANGED vars
  BY <1>1 DEF vars, Typed
<1>2. ASSUME NEW to \in Openings, Post(to) PROVE Typed'
  <2>1. PICK reply \in BOOLEAN : tasks' = Append(tasks, [to |-> to, reply |-> reply])
    BY <1>2, SlackPosted DEF Post
  <2>2. [to |-> to, reply |-> reply] \in Deliveries
    BY DEF Deliveries
  <2>3. tasks' \in Seq(Deliveries)
    BY <2>1, <2>2, AppendProperties DEF Typed
  <2> QED
    BY <1>2, <2>3 DEF Post, Pipe, Typed
<1>3. ASSUME NEW word \in Words, TelegramMessage(word) PROVE Typed'
  <2>1. ByShort(word) \in Reach /\ "telegram" \in Vias
    BY NamesLead DEF Names, Vias
  <2> QED
    BY <1>3, <2>1, WaitingTyped DEF TelegramMessage, Pipe, Typed
<1>4. ASSUME NEW i \in DOMAIN tasks, ProcessMention(i) PROVE Typed'
  <2>1. \A known \in BOOLEAN, speaker \in {owner, Nobody} :
           Routed(tasks[i], known, speaker) \in Reach /\ "slack" \in Vias
    BY TaskTyped, AddressedLeads, NobodyReached DEF Routed, Typed, Vias
  <2>2. tasks' \in Seq(Deliveries)
    BY <1>4, Removing DEF ProcessMention, Typed
  <2>3. queue' \in Seq(Woken)
    <3>1. PICK known \in BOOLEAN, speaker \in {owner, Nobody} :
             \/ UNCHANGED queue
             \/ queue' = IF Routed(tasks[i], known, speaker) # Nobody
                   THEN Append(queue, Run(Routed(tasks[i], known, speaker), "slack"))
                   ELSE queue
      BY <1>4 DEF ProcessMention
    <3>2. Append(queue, Run(Routed(tasks[i], known, speaker), "slack")) \in Seq(Woken)
      BY <2>1, WaitingTyped
    <3> QED
      BY <3>1, <3>2 DEF Typed
  <2> QED
    BY <1>4, <2>2, <2>3 DEF ProcessMention, Pipe, Typed
<1>5. CASE LoadContext
  <2>1. Head(queue) \in Woken /\ Tail(queue) \in Seq(Woken)
    BY <1>5, HeadTailProperties DEF LoadContext, Typed
  <2>2. active' \in Executions
    BY <1>5, <2>1, EmptySeq DEF LoadContext, NoRun, Woken, Executions, Steps
  <2> QED
    BY <1>5, <2>1, <2>2 DEF LoadContext, Thread, Pipe, Typed
<1>6. CASE Think
  <2>1. active' \in Executions
    <3>1. CASE \E said \in Replies : active' = [Goes("format") EXCEPT !.said = said]
      <4>1. Goes("format") \in Executions
        BY GoesTyped DEF Steps
      <4> QED
        BY <3>1, <4>1, RepliesTyped DEF Executions
    <3>2. ASSUME NEW step \in {"force", "execute"},
                 active' = [Goes(step) EXCEPT !.iteration = @ + 1]
          PROVE  active' \in Executions
      <4>1. Goes(step) \in Executions
        BY GoesTyped DEF Steps
      <4> QED
        BY <3>2, <4>1 DEF Executions
    <3> QED
      BY <1>6, <3>1, <3>2 DEF Think
  <2> QED
    BY <1>6, <2>1 DEF Think, Aside, Thread, Typed
<1>7. CASE ForceRespond \/ ExecuteTool
  <2>1. Goes("format") \in Executions /\ Goes("think") \in Executions
    BY GoesTyped DEF Steps
  <2>2. active' \in Executions
    BY <1>7, <2>1, EmptySeq DEF ForceRespond, ExecuteTool, Executions
  <2> QED
    BY <1>7, <2>2 DEF ForceRespond, ExecuteTool, Aside, Thread, Pipe, Typed
<1>8. CASE CallChild
  <2>1. active' \in Executions
    BY <1>8 DEF CallChild, Executions, Steps, Typed
  <2> QED
    BY <1>8, <2>1 DEF CallChild, Aside, Thread, Typed
<1>9. CASE ReadLine \/ CallFails
  <2>1. Goes("think") \in Executions
    BY GoesTyped DEF Steps
  <2>2. active' \in Executions
    BY <1>9, <2>1 DEF ReadLine, CallFails, Typed
  <2>3. client' \in [id : Nat, asked : Nat, got : Nat]
    <3>1. \/ client' = client
          \/ client' = [client EXCEPT !.got = client.id]
          \/ client' = [client EXCEPT !.asked = 0]
      BY <1>9 DEF ReadLine, CallFails, Matches
    <3> QED
      BY <3>1 DEF Typed
  <2> QED
    BY <1>9, <2>2, <2>3 DEF ReadLine, CallFails, Aside, Thread, Typed
<1>10. CASE FormatResponse
  <2>1. active' \in Executions /\ active.agent \in Reach
    BY <1>10 DEF FormatResponse, Executions, Steps, Typed
  <2> QED
    BY <1>10, <2>1 DEF FormatResponse, Thread, Pipe, Typed
<1>11. CASE Chain
  <2>1. Head(active.said) \in Names /\ Tail(active.said) \in Seq(Names)
    BY <1>11, HeadTailProperties DEF Chain, Typed, Executions
  <2>2. InStudio(active.agent[1], Head(active.said)) \in Reach /\ "slack" \in Vias
    BY <2>1, StudioLeads DEF Vias
  <2>3. queue' \in Seq(Woken)
    <3>1. \/ UNCHANGED queue
          \/ queue' = Append(queue, Run(InStudio(active.agent[1], Head(active.said)), "slack"))
      BY <1>11 DEF Chain
    <3> QED
      BY <2>2, <3>1, WaitingTyped DEF Typed
  <2>4. active' \in Executions
    BY <1>11, <2>1 DEF Chain, Typed, Executions
  <2> QED
    BY <1>11, <2>3, <2>4 DEF Chain, Thread, Pipe, Typed
<1>12. CASE Finish \/ TimeOut \/ Restart
  <2>1. client' \in [id : Nat, asked : Nat, got : Nat]
    <3>1. [client EXCEPT !.asked = 0] \in [id : Nat, asked : Nat, got : Nat]
      BY DEF Typed
    <3>2. [client EXCEPT !.asked = 0, !.got = 0] \in [id : Nat, asked : Nat, got : Nat]
      BY <3>1
    <3>3. CASE Finish
      BY <3>3 DEF Finish, Pipe, Typed
    <3>4. CASE TimeOut
      BY <3>2, <3>4 DEF TimeOut
    <3>5. CASE Restart
      BY <3>5 DEF Restart, NoCall
    <3> QED
      BY <1>12, <3>3, <3>4, <3>5
  <2>2. UNCHANGED <<posts, tasks, owner, queue>> /\ active' = NoRun
    BY <1>12 DEF Finish, TimeOut, Restart, Aside, Thread
  <2> QED
    BY <2>1, <2>2, NoRunTyped DEF Typed
<1>13. CASE \/ \E i \in DOMAIN child.todo : ChildAnswers(i)
            \/ ChildLogs \/ ChildDies \/ ApiDies
  BY <1>13, EmptySeq
     DEF ChildAnswers, ChildLogs, ChildDies, ApiDies, Aside, Thread, Pipe, Typed
<1> QED
  BY <1>1, <1>2, <1>3, <1>4, <1>5, <1>6, <1>7, <1>8, <1>9, <1>10, <1>11, <1>12,
     <1>13 DEF Next, Execution

-----------------------------------------------------------------------------
(* The call to the child.                                                  *)

\* What a call relies on: while one is under way, it is the last one and has no
\* answer yet.
CallInv ==
    /\ AnswersMatch
    /\ active.step = "calling" => client.asked = client.id /\ client.got = 0

\* A conversation goes on with the answer to its own call, whatever earlier
\* calls have left in the pipe, for any number of calls, lines and faults
\* (StdioMcpClient._call).
THEOREM AnswersAreMatched == Spec => []AnswersMatch
<1>1. Init => CallInv
  BY DEF Init, CallInv, AnswersMatch, NoCall, NoRun
<1>2. Typed /\ CallInv /\ [Next]_vars => CallInv'
  <2> SUFFICES ASSUME Typed, CallInv, [Next]_vars PROVE CallInv'
    OBVIOUS
  <2> USE DEF CallInv, AnswersMatch
  <2>1. CASE UNCHANGED client /\ (active' = active \/ active'.step # "calling")
    BY <2>1
  <2>2. CASE LoadContext \/ FormatResponse \/ Chain \/ Finish
    <3>1. UNCHANGED client
      BY <2>2 DEF LoadContext, FormatResponse, Chain, Finish, Aside, Pipe
    <3>2. active'.step # "calling"
      <4>0. CASE LoadContext
        BY <4>0 DEF LoadContext, NoRun
      <4>1. CASE Finish
        BY <4>1 DEF Finish, NoRun
      <4>2. CASE FormatResponse
        BY <4>2 DEF FormatResponse, Typed, Executions
      <4>3. CASE Chain
        BY <4>3 DEF Chain, Typed, Executions
      <4> QED
        BY <2>2, <4>0, <4>1, <4>2, <4>3
    <3> QED
      BY <2>1, <3>1, <3>2
  <2>3. CASE ForceRespond \/ ExecuteTool
    <3>1. UNCHANGED client
      BY <2>3 DEF ForceRespond, ExecuteTool, Pipe
    <3>2. active'.step # "calling"
      <4>1. /\ Goes("format").step = "format" /\ Goes("think").step = "think"
            /\ Goes("format") \in Executions
        BY GoesTyped DEF Steps
      <4> QED
        BY <2>3, <4>1 DEF ForceRespond, ExecuteTool, Executions
    <3> QED
      BY <2>1, <3>1, <3>2
  <2>4. CASE Think
    <3>1. active'.step # "calling"
      <4>1. \A step \in Steps : Goes(step).step = step /\ Goes(step) \in Executions
        BY GoesTyped
      <4>2. PICK step \in {"format", "force", "execute"} :
               \/ \E said : active' = [Goes(step) EXCEPT !.said = said]
               \/ active' = [Goes(step) EXCEPT !.iteration = @ + 1]
        BY <2>4 DEF Think
      <4>3. Goes(step).step = step /\ Goes(step) \in Executions
        BY <4>1 DEF Steps
      <4> QED
        BY <4>2, <4>3 DEF Executions
    <3>2. client'.got = 0
      BY <2>4 DEF Think, Typed
    <3> QED
      BY <3>1, <3>2
  <2>5. CASE CallChild
    BY <2>5 DEF CallChild, Typed
  <2>6. CASE ReadLine
    <3>1. Goes("think").step = "think"
      BY GoesTyped DEF Steps
    <3> QED
      BY <2>6, <3>1 DEF ReadLine, Matches, Typed
  <2>7. CASE CallFails
    <3>1. Goes("think").step = "think"
      BY GoesTyped DEF Steps
    <3> QED
      BY <2>7, <3>1 DEF CallFails, Typed
  <2>8. CASE TimeOut \/ Restart
    <3>1. active'.step = "idle"
      BY <2>8 DEF TimeOut, Restart, NoRun
    <3>2. client'.got = 0
      <4>1. CASE TimeOut
        BY <4>1 DEF TimeOut, Typed
      <4>2. CASE Restart
        BY <4>2 DEF Restart, NoCall
      <4> QED
        BY <2>8, <4>1, <4>2
    <3> QED
      BY <3>1, <3>2
  <2>9. CASE \/ \E to \in Openings : Post(to)
             \/ \E word \in Words : TelegramMessage(word)
             \/ \E i \in DOMAIN tasks : ProcessMention(i)
             \/ \E i \in DOMAIN child.todo : ChildAnswers(i)
             \/ ChildLogs \/ ChildDies \/ ApiDies \/ UNCHANGED vars
    <3>1. UNCHANGED <<client, active>>
      BY <2>9 DEF Post, TelegramMessage, ProcessMention, ChildAnswers, ChildLogs,
                  ChildDies, ApiDies, Pipe, vars
    <3> QED
      BY <3>1, <2>1
  <2> QED
    BY <2>2, <2>3, <2>4, <2>5, <2>6, <2>7, <2>8, <2>9 DEF Next, Execution
<1> QED
  BY <1>1, <1>2, InitTyped, NextTyped, PTL DEF Spec, CallInv

-----------------------------------------------------------------------------
(* The studio of a thread.                                                 *)

Ours(agent) == agent[1] = channel

\* As long as people name only the channel's agents: what waits in the API's
\* tasks names none but them, and everybody the thread knows is one of them.
StudioInv ==
    channel # "other" /\ ~strayed =>
        /\ \A i \in DOMAIN tasks : ~Foreign(tasks[i].to)
        /\ owner = Nobody \/ Ours(owner)
        /\ \A i \in DOMAIN queue : queue[i].via = "slack" => Ours(queue[i].agent)
        /\ active.via = "slack" => Ours(active.agent)

LEMMA AddressedOurs ==
    ASSUME NEW to \in Openings, ~Foreign(to), NEW known \in BOOLEAN,
           known \/ ~Shared(to[2])
    PROVE  Addressed(to, known) = Nobody \/ Ours(Addressed(to, known))
BY DEF Foreign, Addressed, InStudio, Ours, Shared

\* A thread in a studio's channel wakes the agents of that studio only, unless
\* a person names another one's, or a name of both studios while Slack does not
\* answer what the channel is (resolve_agent_from_mention,
\* _resolve_thread_agent, node_format_response).
THEOREM StudioIsKept == Spec => []StudioKept
<1>1. Init => StudioInv
  BY DEF Init, StudioInv, NoRun
<1>2. Typed /\ StudioInv /\ [Next]_vars => StudioInv'
  <2> SUFFICES ASSUME Typed, StudioInv, [Next]_vars, channel' # "other", ~strayed'
               PROVE  StudioInv'
    BY DEF StudioInv
  <2>0. channel' = channel /\ ~strayed
    <3>1. CASE \E to \in Openings : Post(to)
      BY <3>1 DEF Post
    <3>2. CASE (\E word \in Words : TelegramMessage(word)) \/ ApiDies
      BY <3>2 DEF TelegramMessage, ApiDies
    <3>8. ASSUME NEW i \in DOMAIN tasks, ProcessMention(i) PROVE channel' = channel /\ ~strayed
      <4>1. \E X : strayed' = strayed \/ strayed' = (strayed \/ X)
        BY <3>8 DEF ProcessMention
      <4>3. strayed => strayed'
        BY <4>1
      <4>2. channel' = channel
        BY <3>8 DEF ProcessMention
      <4> QED
        BY <4>2, <4>3
    <3>3. CASE Execution
      BY <3>3 DEF Execution, LoadContext, Think, ForceRespond, ExecuteTool, CallChild,
                  ReadLine, CallFails, FormatResponse, Chain, Finish, Aside, Thread
    <3>4. CASE (\E i \in DOMAIN child.todo : ChildAnswers(i)) \/ ChildLogs \/ ChildDies
      <4>1. UNCHANGED Thread
        BY <3>4 DEF ChildAnswers, ChildLogs, ChildDies, Aside
      <4> QED
        BY <4>1 DEF Thread
    <3>7. CASE UNCHANGED vars
      BY <3>7 DEF vars
    <3>5. CASE TimeOut
      BY <3>5 DEF TimeOut, Aside, Thread
    <3>6. CASE Restart
      BY <3>6 DEF Restart, Thread
    <3> QED
      BY <3>1, <3>2, <3>3, <3>4, <3>5, <3>6, <3>7, <3>8 DEF Next
  <2>. USE <2>0 DEF StudioInv, Ours
  <2>1. CASE UNCHANGED <<tasks, owner, queue, active>>
    BY <2>1 DEF Foreign
  <2>2. ASSUME NEW to \in Openings, Post(to) PROVE StudioInv'
    <3>1. PICK reply \in BOOLEAN : tasks' = Append(tasks, [to |-> to, reply |-> reply])
      BY <2>2, SlackPosted DEF Post
    <3>2. [to |-> to, reply |-> reply] \in Deliveries /\ tasks \in Seq(Deliveries)
      BY DEF Deliveries, Typed
    <3>3. /\ DOMAIN tasks' = 1 .. Len(tasks) + 1 /\ Len(tasks) \in Nat
          /\ DOMAIN tasks = 1 .. Len(tasks)
          /\ \A i \in 1 .. Len(tasks) : tasks'[i] = tasks[i]
          /\ tasks'[Len(tasks) + 1].to = to
      BY <3>1, <3>2, AppendProperties, LenProperties
    <3>4. ~Foreign(to)
      BY <2>2 DEF Post
    <3>5. \A i \in DOMAIN tasks' : ~Foreign(tasks'[i].to)
      BY <3>3, <3>4
    <3> QED
      BY <2>2, <3>5 DEF Post, Foreign
  <2>3. ASSUME NEW agent \in Reach, NEW via \in Vias, via = "slack" => Ours(agent),
               queue' = Append(queue, Run(agent, via))
        PROVE  \A i \in DOMAIN queue' : queue'[i].via = "slack" => Ours(queue'[i].agent)
    <3>1. /\ DOMAIN queue' = 1 .. Len(queue) + 1 /\ Len(queue) \in Nat
          /\ DOMAIN queue = 1 .. Len(queue)
      BY <2>3, WaitingTyped, LenProperties DEF Typed
    <3>2. /\ \A i \in 1 .. Len(queue) : queue'[i] = queue[i]
          /\ queue'[Len(queue) + 1] = [agent |-> agent, via |-> via]
      BY <2>3, WaitingTyped DEF Run
    <3> QED
      BY <2>3, <3>1, <3>2
  <2>4. ASSUME NEW word \in Words, TelegramMessage(word) PROVE StudioInv'
    <3>1. ByShort(word) \in Reach /\ "telegram" \in Vias
      BY NamesLead DEF Names, Vias
    <3>2. \A i \in DOMAIN queue' : queue'[i].via = "slack" => Ours(queue'[i].agent)
      BY <2>4, <2>3, <3>1 DEF TelegramMessage
    <3> QED
      BY <2>4, <3>2 DEF TelegramMessage, Foreign
  <2>5. ASSUME NEW i \in DOMAIN tasks, ProcessMention(i) PROVE StudioInv'
    <3>0. PICK known \in BOOLEAN, speaker \in {owner, Nobody} :
             \/ UNCHANGED queue
             \/ /\ known \/ ~Shared(tasks[i].to[2])
                /\ queue' = IF Routed(tasks[i], known, speaker) # Nobody
                    THEN Append(queue, Run(Routed(tasks[i], known, speaker), "slack"))
                    ELSE queue
      BY <2>5 DEF ProcessMention
    <3>1. Routed(tasks[i], known, speaker) \in Reach /\ "slack" \in Vias
      BY TaskTyped, AddressedLeads, NobodyReached DEF Routed, Typed, Vias
    <3>2. known \/ ~Shared(tasks[i].to[2]) =>
             \/ Routed(tasks[i], known, speaker) = Nobody
             \/ Ours(Routed(tasks[i], known, speaker))
      BY TaskTyped, AddressedOurs DEF Routed
    <3>3. \A j \in DOMAIN tasks' : ~Foreign(tasks'[j].to)
      BY <2>5, Removing DEF ProcessMention, Foreign, Typed
    <3>4. \A j \in DOMAIN queue' : queue'[j].via = "slack" => Ours(queue'[j].agent)
      BY <2>3, <3>0, <3>1, <3>2
    <3> QED
      BY <2>5, <3>3, <3>4 DEF ProcessMention, Foreign
  <2>6. CASE LoadContext
    <3>1. /\ Head(queue) = queue[1] /\ 1 \in DOMAIN queue
          /\ \A i \in DOMAIN queue' : i + 1 \in DOMAIN queue /\ queue'[i] = queue[i + 1]
      BY <2>6, HeadTailProperties, LenProperties, EmptySeq DEF LoadContext, Typed
    <3>2. active'.agent = Head(queue).agent /\ active'.via = Head(queue).via
      BY <2>6 DEF LoadContext, NoRun
    <3> QED
      BY <2>6, <3>1, <3>2 DEF LoadContext, Thread, Foreign
  <2>7. CASE \/ Think \/ ForceRespond \/ ExecuteTool \/ CallChild \/ ReadLine
             \/ CallFails \/ Finish \/ TimeOut
    <3>1. UNCHANGED <<tasks, owner, queue>>
      BY <2>7 DEF Think, ForceRespond, ExecuteTool, CallChild, ReadLine, CallFails,
                  Finish, TimeOut, Aside, Thread
    <3>2. active' = NoRun \/ (active'.agent = active.agent /\ active'.via = active.via)
      <4>1. \A step \in Steps : /\ Goes(step) \in Executions
                                /\ Goes(step).agent = active.agent
                                /\ Goes(step).via = active.via
        BY GoesTyped
      <4>2. CASE Think
        <5>1. PICK step \in {"format", "force", "execute"} :
                 \/ \E said : active' = [Goes(step) EXCEPT !.said = said]
                 \/ active' = [Goes(step) EXCEPT !.iteration = @ + 1]
          BY <4>2 DEF Think
        <5>2. /\ Goes(step) \in Executions
              /\ Goes(step).agent = active.agent /\ Goes(step).via = active.via
          BY <4>1 DEF Steps
        <5> QED
          BY <5>1, <5>2 DEF Executions
      <4>3. CASE ForceRespond \/ ExecuteTool
        <5>1. /\ Goes("format") \in Executions
              /\ Goes("format").agent = active.agent /\ Goes("format").via = active.via
              /\ Goes("think").agent = active.agent /\ Goes("think").via = active.via
          BY <4>1 DEF Steps
        <5> QED
          BY <4>3, <5>1 DEF ForceRespond, ExecuteTool, Executions
      <4>4. CASE ReadLine \/ CallFails
        <5>1. Goes("think").agent = active.agent /\ Goes("think").via = active.via
          BY <4>1 DEF Steps
        <5> QED
          BY <4>4, <5>1 DEF ReadLine, CallFails
      <4>5. CASE CallChild
        BY <4>5 DEF CallChild, Typed, Executions
      <4>6. CASE Finish \/ TimeOut
        BY <4>6 DEF Finish, TimeOut
      <4> QED
        BY <2>7, <4>2, <4>3, <4>4, <4>5, <4>6
    <3> QED
      BY <3>1, <3>2 DEF Foreign, NoRun
  <2>8. CASE FormatResponse
    <3>1. active'.agent = active.agent /\ active'.via = active.via
      BY <2>8 DEF FormatResponse, Typed, Executions
    <3> QED
      BY <2>8, <3>1 DEF FormatResponse, Thread, Foreign
  <2>9. CASE Chain
    <3>1. active'.agent = active.agent /\ active'.via = active.via
      BY <2>9 DEF Chain, Typed, Executions
    <3>2. UNCHANGED <<tasks, owner>>
      BY <2>9 DEF Chain, Thread
    <3>3. \A j \in DOMAIN queue' : queue'[j].via = "slack" => Ours(queue'[j].agent)
      <4> DEFINE agent == InStudio(active.agent[1], Head(active.said))
      <4>1. CASE UNCHANGED queue
        BY <4>1
      <4>2. CASE Chainable(agent) /\ queue' = Append(queue, Run(agent, "slack"))
        <5>1. Head(active.said) \in Names
          BY <2>9, HeadTailProperties DEF Chain, Typed, Executions
        <5>2. agent \in Reach /\ "slack" \in Vias
          BY <5>1, StudioLeads DEF Vias
        <5>3. Ours(agent)
          BY <2>9, <4>2 DEF Chain, Chainable
        <5> QED
          BY <4>2, <5>2, <5>3, <2>3
      <4> QED
        BY <2>9, <4>1, <4>2 DEF Chain
    <3> QED
      BY <3>1, <3>2, <3>3 DEF Foreign
  <2>10. CASE ApiDies
    <3>1. DOMAIN tasks' = {}
      BY <2>10, EmptySeq, LenProperties DEF ApiDies
    <3> QED
      BY <2>10, <3>1 DEF ApiDies, Foreign
  <2>11. CASE Restart
    BY <2>11 DEF Restart, Thread, Foreign, NoRun
  <2>12. CASE \/ \E i \in DOMAIN child.todo : ChildAnswers(i)
              \/ ChildLogs \/ ChildDies \/ UNCHANGED vars
    <3>1. UNCHANGED <<tasks, owner, queue, active>>
      BY <2>12 DEF ChildAnswers, ChildLogs, ChildDies, Aside, Thread, vars
    <3> QED
      BY <3>1, <2>1
  <2> QED
    BY <2>2, <2>4, <2>5, <2>6, <2>7, <2>8, <2>9, <2>10, <2>11, <2>12
       DEF Next, Execution
<1>3. StudioInv => StudioKept
  <2>1. Nobody[1] = ""
    BY DEF Nobody
  <2> QED
    BY <2>1 DEF StudioInv, StudioKept, Ours
<1> QED
  BY <1>1, <1>2, <1>3, InitTyped, NextTyped, PTL DEF Spec

=============================================================================
