----------------------------- MODULE RunContract -----------------------------
(***************************************************************************)
(* What the runtime keeps of an agent run, seen from outside and with      *)
(* every transaction taken as one step: a run is triggered, started only   *)
(* when no approval it asked for is open, and concluded once per start.  A *)
(* success changes its outcome, its agent's state, its events and its      *)
(* approvals together; what is applied by halves belongs to a run that     *)
(* fails or times out in the same step.  The last grant releases a run     *)
(* that waits, a denial fails it, an expiry fails it.                      *)
(*                                                                         *)
(* It also says what the runtime does not keep: a failed run that still    *)
(* has approvals comes back when the last of them is granted, and whoever  *)
(* commits last, the decider or the reaper, settles an approval.           *)
(*                                                                         *)
(* The docstrings of runtime/runner.py and approvals/store.py; README.md.  *)
(***************************************************************************)
EXTENDS Naturals

CONSTANTS Runs, Agents, EventKeys, Approvals, NoRun

VARIABLES
    state,       \* where each run stands
    owner,       \* the agent of each run
    outcome,     \* the events of each run's last outcome, by key
    applied,     \* the run whose outcome each agent's state holds
    published,   \* the events sent out: <<run, key>>
    asker,       \* the run that asked for each approval
    answer       \* what became of each approval

cvars == <<state, owner, outcome, applied, published, asker, answer>>

Beginning ==
    /\ state = [r \in Runs |-> "absent"]
    /\ owner \in [Runs -> Agents]
    /\ outcome = [r \in Runs |-> {}]
    /\ applied = [a \in Agents |-> NoRun]
    /\ published = {}
    /\ asker = [a \in Approvals |-> NoRun]
    /\ answer = [a \in Approvals |-> "absent"]

Ended   == {"failed", "timed_out"}
Waiting == Ended \cup {"awaiting_approval"}

Open(r) == {a \in Approvals : asker[a] = r /\ answer[a] = "pending"}

Move(r, from, to) ==
    /\ state[r] = from
    /\ state' = [state EXCEPT ![r] = to]

NothingApplied == UNCHANGED <<outcome, applied, published>>
NothingAsked   == UNCHANGED <<asker, answer>>

-----------------------------------------------------------------------------
Triggered(r, a) ==
    /\ Move(r, "absent", "pending")
    /\ owner' = [owner EXCEPT ![r] = a]
    /\ NothingApplied
    /\ NothingAsked

Claimed(r, s) ==
    /\ Open(r) = {}
    /\ Move(r, "pending", s)
    /\ UNCHANGED owner
    /\ NothingApplied
    /\ NothingAsked

Started(r)     == Claimed(r, "running")
OutOfBudget(r) == Claimed(r, "budget_exceeded")

\* The outcome K, of which the events E are sent out.
Applied(r, K, E) ==
    /\ ({r} \X E) \cap published = {}
    /\ outcome' = [outcome EXCEPT ![r] = K]
    /\ applied' = [applied EXCEPT ![owner[r]] = r]
    /\ published' = published \cup ({r} \X E)

Asked(r, A) ==
    /\ \A a \in A : answer[a] = "absent"
    /\ answer' = [a \in Approvals |-> IF a \in A THEN "pending" ELSE answer[a]]
    /\ asker' = [a \in Approvals |-> IF a \in A THEN r ELSE asker[a]]

\* All of the outcome, and all of it at once.
Succeeded(r, K, A) ==
    /\ Move(r, "running", IF A = {} THEN "completed" ELSE "awaiting_approval")
    /\ Applied(r, K, K)
    /\ Asked(r, A)
    /\ UNCHANGED owner

GaveUp(r) ==
    /\ \E s \in Ended : Move(r, "running", s)
    /\ UNCHANGED owner
    /\ NothingApplied
    /\ NothingAsked

\* The outcome is applied by halves, in the step that records the failure.
CutShort(r, K, E, A) ==
    /\ \E s \in Ended : Move(r, "running", s)
    /\ E \subseteq K
    /\ A # {} => E = K
    /\ Applied(r, K, E)
    /\ Asked(r, A)
    /\ UNCHANGED owner

-----------------------------------------------------------------------------
Settle(a, v) ==
    /\ answer[a] \in {"pending", "expired"}
    /\ state[asker[a]] \in Waiting
    /\ answer' = [answer EXCEPT ![a] = v]
    /\ UNCHANGED <<owner, asker>>
    /\ NothingApplied

\* The last grant releases the run; nothing else keeps a run parked.
Granted(a) ==
    LET r == asker[a]
        last == Open(r) \ {a} = {}
    IN  /\ Settle(a, "approved")
        /\ \/ last /\ state' = [state EXCEPT ![r] = "pending"]
           \/ (last => state[r] \in Ended) /\ UNCHANGED state

Denied(a) ==
    /\ Settle(a, "denied")
    /\ \/ state' = [state EXCEPT ![asker[a]] = "failed"]
       \/ state[asker[a]] \in Ended /\ UNCHANGED state

\* The approvals S run out, and the runs D with them: every parked run among
\* those that asked, or one a decider has just released.
Lapsed(S, D) ==
    /\ \A a \in S : answer[a] # "absent"
    /\ D \subseteq {asker[a] : a \in S}
    /\ \A r \in D : state[r] \in Waiting \cup {"pending"}
    /\ \A a \in S : state[asker[a]] = "awaiting_approval" => asker[a] \in D
    /\ answer' = [a \in Approvals |-> IF a \in S THEN "expired" ELSE answer[a]]
    /\ state' = [r \in Runs |-> IF r \in D THEN "failed" ELSE state[r]]
    /\ UNCHANGED <<owner, asker>>
    /\ NothingApplied

Work ==
    \E r \in Runs :
        \/ Started(r) \/ OutOfBudget(r) \/ GaveUp(r)
        \/ \E a \in Agents : Triggered(r, a)
        \/ \E K \in SUBSET EventKeys, A \in SUBSET Approvals :
            \/ Succeeded(r, K, A)
            \/ \E E \in SUBSET EventKeys : CutShort(r, K, E, A)

Answers ==
    \/ \E a \in Approvals : Granted(a) \/ Denied(a)
    \/ \E S \in SUBSET Approvals, D \in SUBSET Runs : Lapsed(S, D)

Contract == Beginning /\ [][Work \/ Answers]_cvars
=============================================================================
