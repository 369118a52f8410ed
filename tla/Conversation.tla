---------------------------- MODULE Conversation ----------------------------
(***************************************************************************)
(* A thread between people and agents.  People's Slack messages become runs *)
(* of the ReAct workflow in the API's process; the runtime's dispatcher     *)
(* executes them one at a time: the LLM thinks, tools are called, some of   *)
(* them through the pipe of an MCP child, and the reply may mention agents, *)
(* whose runs follow in the same thread.  Telegram messages become runs     *)
(* that reply and mention nobody.                                           *)
(*                                                                         *)
(* An agent is its studio and its short name: <<"amz", "ceo">>.            *)
(***************************************************************************)
EXTENDS Naturals, SequencesExt

CONSTANTS
    Known,          \* the agents, in the order of _known_agents
    Bots,           \* agents with a bot of their own
    Channels,       \* what the thread's channel may be: a studio, or "other"
    Words,          \* first words people use
    MaxIterations,  \* MAX_ITERATIONS
    StepLimits,     \* steps the graph library may give an execution
    MaxMentions,    \* MAX_MENTIONS_PER_THREAD
    MaxPosts, MaxSaid, MaxCalls, MaxLines, MaxFaults  \* bounds

ASSUME Limits == {MaxIterations, MaxMentions, MaxPosts, MaxSaid,
                   MaxCalls, MaxLines, MaxFaults}
                 \cup StepLimits \subseteq Nat
ASSUME BotsKnown == Bots \subseteq ToSet(Known)

VARIABLES
    channel,    \* the thread's channel
    limit,      \* the library's limit
    posts,      \* deliveries, of the thread's messages and of Telegram's
    tasks,      \* the API's background tasks: messages it has acknowledged
    mapped,     \* _CHANNEL_STUDIO_MAP has the channel
    owner,      \* whom _resolve_thread_agent finds in the thread
    queue,      \* pending runs, oldest first
    active,     \* the run the dispatcher executes
    mentioned,  \* _THREAD_MENTION_COUNTS of the thread, per agent
    client,     \* the stdio client: the id it used last, and its call
    child,      \* the child: requests it has not answered, lines in the pipe
    faults,
    strayed     \* history: something excuses waking another studio's agent

vars == <<channel, limit, posts, tasks, mapped, owner, queue, active, mentioned, client,
          child, faults, strayed>>

-----------------------------------------------------------------------------
(* Names.                                                                  *)

Agents == ToSet(Known)
Nobody == <<"", "">>

\* _AGENT_SHORT_NAMES: of two agents with one short name, the later one.
ByShort(word) ==
    LET last == SelectLastInSeq(Known, LAMBDA a : a[2] = word)
    IN IF last = 0 THEN Nobody ELSE Known[last]

\* Mutant: the short names decide.
InStudio_Short(studio, word) == ByShort(word)

\* The agent of a studio with that short name, else the one the short names give.
InStudio(studio, word) ==
    IF <<studio, word>> \in Agents THEN <<studio, word>> ELSE ByShort(word)

\* What a message may begin with: a bot's user, or some word.
Openings == Bots \cup ({""} \X Words)

\* resolve_agent_from_mention: the bot's agent, else the word in the channel's
\* studio, if that is known.
Addressed(to, known) ==
    IF to \in Bots THEN to
    ELSE IF known THEN InStudio(channel, to[2]) ELSE ByShort(to[2])

\* A reply that names nobody goes to the thread's last speaker.
Routed(m, known, speaker) ==
    IF Addressed(m.to, known) # Nobody THEN Addressed(m.to, known)
    ELSE IF m.reply THEN speaker ELSE Nobody

\* Two studios have the word, and the short names give the other one's agent.
Shared(word) == InStudio(channel, word) # ByShort(word)

-----------------------------------------------------------------------------

NoRun == [agent |-> Nobody, via |-> "none", step |-> "idle", done |-> 0,
          iteration |-> 0, said |-> <<>>]

Run(agent, via) == [agent |-> agent, via |-> via]

NoCall == [id |-> 0, asked |-> 0, got |-> 0]

NewChild == [alive |-> TRUE, todo |-> <<>>, pipe |-> <<>>]

\* What init_bot_user_map finds: channels of a studio, as far as Slack lists them.
AtStart == {FALSE, channel # "other"}

Init ==
    /\ channel \in Channels /\ limit \in StepLimits /\ mapped \in AtStart
    /\ posts = [slack |-> 0, telegram |-> 0] /\ tasks = <<>> /\ owner = Nobody
    /\ queue = <<>> /\ active = NoRun
    /\ mentioned = [a \in Agents |-> 0]
    /\ client = NoCall /\ child = NewChild
    /\ faults = 0 /\ strayed = FALSE

Thread == <<channel, limit, posts, tasks, mapped, strayed>>
Pipe == <<client, child>>

-----------------------------------------------------------------------------
(* People and the API's process.                                           *)

\* A name the channel's studio does not have.
Foreign(to) ==
    IF to \in Bots THEN to[1] # channel
    ELSE <<channel, to[2]>> \notin Agents /\ ByShort(to[2]) # Nobody

\* A delivery of Slack's, acknowledged and kept as a task: a message, or once
\* more one it sends as app_mention and as message or thinks lost.
Post(to) ==
    /\ posts.slack + posts.telegram < MaxPosts
    /\ posts' = [posts EXCEPT !.slack = @ + 1]
    /\ \E reply \in {FALSE, posts.slack > 0} :
          tasks' = Append(tasks, [to |-> to, reply |-> reply])
    /\ strayed' = (strayed \/ Foreign(to))
    /\ UNCHANGED <<channel, limit, mapped, owner, queue, active, mentioned, Pipe, faults>>

\* A command decides an approval and wakes nobody.
Command(m) == m.to[2] = "approve"

\* A word in a channel the map does not have: Slack is asked for the channel.
LooksUp(m) == m.to \notin Bots /\ ~mapped

\* _process_mention.  Slack may not answer what the channel is (then the short
\* names decide) or who spoke last in the thread.
ProcessMention(i) ==
    /\ \E known \in BOOLEAN, speaker \in {owner, Nobody} :
          LET m == tasks[i]
          IN IF Command(m)
               THEN UNCHANGED <<queue, mapped, strayed>>
               ELSE /\ known \/ LooksUp(m)
                    /\ queue' = IF Routed(m, known, speaker) # Nobody
                                  THEN Append(queue, Run(Routed(m, known, speaker), "slack"))
                                  ELSE queue
                    /\ mapped' = (mapped \/ (LooksUp(m) /\ known /\ channel # "other"))
                    /\ strayed' = (strayed \/ (~known /\ Shared(m.to[2])))
    /\ tasks' = RemoveAt(tasks, i)
    /\ UNCHANGED <<channel, limit, posts, owner, active, mentioned, Pipe, faults>>

\* The API dies: what it has acknowledged is gone, and its map is made anew.
ApiDies ==
    /\ faults < MaxFaults /\ faults' = faults + 1
    /\ tasks' = <<>> /\ mapped' \in AtStart
    /\ UNCHANGED <<channel, limit, posts, strayed, owner, queue, active, mentioned, Pipe>>

\* _process_telegram_message: the short names alone decide.
TelegramMessage(word) ==
    /\ posts.slack + posts.telegram < MaxPosts
    /\ posts' = [posts EXCEPT !.telegram = @ + 1]
    /\ ByShort(word) # Nobody
    /\ queue' = Append(queue, Run(ByShort(word), "telegram"))
    /\ UNCHANGED <<channel, limit, tasks, mapped, strayed, owner, active, mentioned, Pipe,
                   faults>>

-----------------------------------------------------------------------------
(* One execution of the workflow.  Each node is a step; the library refuses *)
(* the one after the limit, and the run fails without a reply.              *)

\* The dispatcher claims the oldest run; node_load_context changes no state.
LoadContext ==
    /\ active = NoRun /\ queue # <<>>
    /\ queue' = Tail(queue)
    /\ active' = [NoRun EXCEPT !.agent = Head(queue).agent, !.via = Head(queue).via,
                               !.step = "think", !.done = 1]
    /\ UNCHANGED <<Thread, owner, mentioned, Pipe, faults>>

\* The step's node is over and the next one is due.
Goes(step) == [active EXCEPT !.step = step, !.done = @ + 1]

At(step) == active.step = step /\ active.done < limit

Aside == <<Thread, owner, queue, mentioned, faults>>

\* The mentions of a reply: "@short", resolved when they are chained.
Replies == UNION { [1 .. n -> { a[2] : a \in Agents }] : n \in 0 .. MaxSaid }

\* node_think, route_after_think: a reply (the LLM's error and a call nobody
\* can parse after the retries are replies too), or a call to a tool; the call
\* that reaches MAX_ITERATIONS is not made.
Think ==
    /\ At("think")
    /\ \/ \E said \in Replies : active' = [Goes("format") EXCEPT !.said = said]
       \/ active' = [Goes(IF active.iteration + 1 >= MaxIterations
                           THEN "force" ELSE "execute") EXCEPT !.iteration = @ + 1]
    /\ client' = [client EXCEPT !.asked = 0, !.got = 0]
    /\ UNCHANGED <<Aside, child>>

ForceRespond ==
    /\ At("force")
    /\ active' = [Goes("format") EXCEPT !.said = <<>>]
    /\ UNCHANGED <<Aside, Pipe>>

\* node_execute_tool without the child: a tool out of scope, or another tool.
ExecuteTool ==
    /\ At("execute")
    /\ active' = Goes("think")
    /\ UNCHANGED <<Aside, Pipe>>

\* _call, which holds the client's lock until it returns or raises: the
\* dispatcher executes one run at a time, and no other caller exists.
CallChild ==
    /\ At("execute") /\ child.alive
    /\ client.id < MaxCalls
    /\ client' = [id |-> client.id + 1, asked |-> client.id + 1, got |-> 0]
    /\ child' = [child EXCEPT !.todo = Append(@, client.id + 1)]
    /\ active' = [active EXCEPT !.step = "calling"]
    /\ UNCHANGED Aside

\* Mutant: the first answer is the answer.
Matches_First(line) == line > 0

Matches(line) == line = client.id

\* One line of the pipe: the answer, or something to skip.
ReadLine ==
    /\ active.step = "calling" /\ child.pipe # <<>>
    /\ child' = [child EXCEPT !.pipe = Tail(@)]
    /\ LET line == Head(child.pipe)
       IN IF Matches(line)
            THEN /\ client' = [client EXCEPT !.got = line]
                 /\ active' = Goes("think")
            ELSE UNCHANGED <<client, active>>
    /\ UNCHANGED Aside

\* No line within 30 seconds, or no child to send one: an error is the result.
CallFails ==
    /\ active.step = "calling" /\ child.pipe = <<>>
    /\ client' = [client EXCEPT !.asked = 0]
    /\ active' = Goes("think")
    /\ UNCHANGED <<Aside, child>>

\* _resolve_thread_agent reads 20 messages of the thread, from the oldest, and
\* knows no agent whose short name another one has taken.
Heard(agent) == ByShort(agent[2]) = agent

\* node_format_response sends the reply, which may fail.
FormatResponse ==
    /\ At("format")
    /\ \/ owner' = owner
       \/ active.via = "slack" /\ Heard(active.agent) /\ owner' = active.agent
    /\ active' = [active EXCEPT !.step = "chain"]
    /\ UNCHANGED <<Thread, queue, mentioned, Pipe, faults>>

\* Mutant: the mention is not counted.
Counted_Never(agent) == mentioned

\* check_cascade's counter.
Counted(agent) == [mentioned EXCEPT ![agent] = @ + 1]

\* Not an agent's own name, nobody of another studio.
Chainable(agent) == agent \notin {Nobody, active.agent} /\ agent[1] = active.agent[1]

\* One mention of the reply: its run is committed at once, or fails to be.
Chain ==
    /\ active.step = "chain" /\ active.via = "slack" /\ active.said # <<>>
    /\ LET agent == InStudio(active.agent[1], Head(active.said))
       IN IF Chainable(agent) /\ mentioned[agent] < MaxMentions
            THEN /\ mentioned' = Counted(agent)
                 /\ \/ /\ queue' = Append(queue, Run(agent, "slack"))
                       /\ UNCHANGED faults
                    \/ /\ faults < MaxFaults /\ faults' = faults + 1
                       /\ UNCHANGED queue
            ELSE UNCHANGED <<mentioned, queue, faults>>
    /\ active' = [active EXCEPT !.said = Tail(@)]
    /\ UNCHANGED <<Thread, owner, Pipe>>

\* The run is over: completed after its reply, or failed at the limit.
Finish ==
    /\ \/ active.step = "chain" /\ (active.via = "telegram" \/ active.said = <<>>)
       \/ active.step \in {"think", "force", "execute", "format"}
          /\ active.done >= limit
    /\ active' = NoRun
    /\ UNCHANGED <<Aside, Pipe>>

-----------------------------------------------------------------------------
(* The child and the faults.                                               *)

\* In whatever order it likes.
ChildAnswers(i) ==
    /\ child.alive
    /\ child' = [child EXCEPT !.todo = RemoveAt(@, i), !.pipe = Append(@, child.todo[i])]
    /\ UNCHANGED <<Aside, active, client>>

\* A log line or a notification, without an id.
ChildLogs ==
    /\ child.alive /\ Len(child.pipe) < MaxLines
    /\ child' = [child EXCEPT !.pipe = Append(@, 0)]
    /\ UNCHANGED <<Aside, active, client>>

ChildDies ==
    /\ child.alive /\ faults < MaxFaults /\ faults' = faults + 1
    /\ child' = [child EXCEPT !.alive = FALSE, !.todo = <<>>]
    /\ UNCHANGED <<Thread, owner, queue, mentioned, active, client>>

\* run_timeout_seconds cancels the execution wherever it is.
TimeOut ==
    /\ active # NoRun /\ active' = NoRun
    /\ client' = [client EXCEPT !.asked = 0, !.got = 0]
    /\ UNCHANGED <<Aside, child>>

\* The runtime dies, with its counters, its client and the child.
Restart ==
    /\ faults < MaxFaults /\ faults' = faults + 1
    /\ active' = NoRun
    /\ mentioned' = [a \in Agents |-> 0]
    /\ client' = NoCall /\ child' = NewChild
    /\ UNCHANGED <<Thread, owner, queue>>

Execution ==
    \/ LoadContext \/ Think \/ ForceRespond \/ ExecuteTool \/ CallChild
    \/ ReadLine \/ CallFails \/ FormatResponse \/ Chain \/ Finish

Next ==
    \/ \E to \in Openings : Post(to)
    \/ \E word \in Words : TelegramMessage(word)
    \/ \E i \in DOMAIN tasks : ProcessMention(i)
    \/ Execution
    \/ \E i \in DOMAIN child.todo : ChildAnswers(i)
    \/ ChildLogs \/ ChildDies \/ ApiDies \/ TimeOut \/ Restart

Spec == Init /\ [][Next]_vars

\* The processes go on; people, the child and Slack need not.
FairSpec ==
    /\ Spec
    /\ WF_vars(Execution)
    /\ WF_vars(TimeOut)
    /\ WF_vars(\E i \in DOMAIN tasks : ProcessMention(i))

-----------------------------------------------------------------------------
(* Properties.                                                             *)

\* In a studio's channel only its agents are woken, by people, by replies that
\* name nobody and by each other, although both studios have an agent of one
\* short name: until a person names another studio's agent, or a name that both
\* have while Slack does not answer what the channel is.
StudioKept ==
    channel # "other" /\ ~strayed =>
        /\ owner[1] \in {channel, ""}
        /\ \A i \in DOMAIN queue : queue[i].via = "slack" => queue[i].agent[1] = channel
        /\ active.via = "slack" => active.agent[1] = channel

\* The result a conversation goes on with is the answer to the call it made,
\* whatever answers earlier calls, timed out or cancelled, have left in the pipe.
AnswersMatch == client.got # 0 => client.got = client.asked

\* Agents that mention each other in every reply stop: people have said their
\* last word, and the thread comes to rest, whatever the tools' child does.
CascadeEnds == <>[](tasks = <<>> /\ queue = <<>> /\ active = NoRun)

=============================================================================
