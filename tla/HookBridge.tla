----------------------------- MODULE HookBridge -----------------------------
(***************************************************************************)
(* The command hooks (src/internal/bridge) composed with the review        *)
(* engine.  For every tool call the Agent starts one aegishook process for *)
(* each configuration that names it (a global and a project installation   *)
(* make two), before the tool and again after it.  A process asks the      *)
(* service over HTTP; a request or its reply may be lost, and an answer is *)
(* a copy that is judged some time after the service gave it.              *)
(*                                                                         *)
(* The Agent itself is external: it runs a tool when no hook denied it.    *)
(* Console, model, sweep, crashes and the session's other hooks are the    *)
(* engine's own actions.  Hook and service read the same clock.            *)
(***************************************************************************)
EXTENDS ReviewEngine

CONSTANTS
    Hooks,        \* installed hooks
    CallOf,       \* the tool call each hook process is started for
    BeatEvery,    \* a waiting hook sends a heartbeat after 8 seconds
    Grace,        \* a hook waits one second longer than the review's deadline
    MaxAttempts   \* bound: how often the Agent makes the same tool call

ASSUME HookAssumption ==
    /\ CallOf \in [Hooks -> Calls]
    /\ \A c \in Calls : \E h \in Hooks : CallOf[h] = c   \* installed for every call
    /\ BeatEvery \in Nat
    /\ Grace \in Nat
    /\ MaxAttempts \in Nat
    /\ LastSubmit + ApprovalSeconds + Grace < MaxClock
    /\ LastSubmit + ModelWait + Grace < MaxClock

VARIABLES
    hook,       \* the last process of each hook
    tool,       \* the Agent's view of each tool call
    attempts,   \* how often the Agent made the call
    outcomes    \* history: how the runs of the tool really ended

hookVars == <<hook, tool, attempts, outcomes>>
allVars == <<vars, hook, tool, attempts, outcomes>>

-----------------------------------------------------------------------------
Reviewer(h) == Owner[CallOf[h]]   \* the instance the hook derives from its input

NoAnswer == [decision |-> "none", execution |-> "not_executed", deadline |-> 0]

(* hookView: what the service tells a hook of a review. *)
HookView(r) ==
    [decision |-> r.decision, execution |-> r.execution, deadline |-> r.deadline]

(* beat, register, submit, rebeat, poll and report are requests under way. *)
Requests == {"beat", "register", "submit", "rebeat", "poll", "report"}
Ended == {"idle", "allowed", "denied", "ended"}

HookRecords ==
    [event    : {"pre", "post"},
     pc       : Requests \cup Ended \cup {"judge"},
     payload  : Payloads \cup {NoPayload},
     answer   : [decision : {"none", "pending", "approve", "reject"},
                 execution : {"not_executed", "awaiting_execution",
                              "succeeded", "failed"},
                 deadline : Nat],
     lastBeat : Nat,
     replay   : BOOLEAN]   \* history: a result was known when it started

Idle == [event |-> "pre", pc |-> "idle", payload |-> NoPayload,
         answer |-> NoAnswer, lastBeat |-> 0, replay |-> FALSE]

HookInit ==
    /\ Init
    /\ hook = [h \in Hooks |-> Idle]
    /\ tool = [c \in Calls |-> "none"]
    /\ attempts = [c \in Calls |-> 0]
    /\ outcomes = [c \in Calls |-> {}]

HooksOf(c) == {h \in Hooks : CallOf[h] = c}
AllEnded(c) == \A h \in HooksOf(c) : hook[h].pc \in Ended

Start(c, event) ==
    hook' = [h \in Hooks |->
               IF CallOf[h] # c THEN hook[h]
               ELSE [hook[h] EXCEPT !.event = event, !.pc = "beat",
                                    !.replay = reviews[c].execution
                                                 \in {"succeeded", "failed"}]]

(* The Agent is about to use a tool, possibly repeating an earlier call. *)
AgentCalls(c) ==
    /\ tool[c] # "hooks"
    /\ AllEnded(c)
    /\ attempts[c] < MaxAttempts
    /\ attempts' = [attempts EXCEPT ![c] = @ + 1]
    /\ tool' = [tool EXCEPT ![c] = "hooks"]
    /\ Start(c, "pre")
    /\ UNCHANGED <<vars, outcomes>>

(* Every hook let the call pass: the tool runs, and its hooks are started  *)
(* again with what it returned, from which the end may not be certain.     *)
AgentRuns(c, outcome) ==
    /\ tool[c] = "hooks"
    /\ \A h \in HooksOf(c) : hook[h].pc = "allowed"
    /\ tool' = [tool EXCEPT ![c] = outcome]
    /\ outcomes' = [outcomes EXCEPT ![c] = @ \cup {outcome}]
    /\ Start(c, "post")
    /\ UNCHANGED <<vars, attempts>>

AgentBlocked(c) ==
    /\ tool[c] = "hooks"
    /\ AllEnded(c)
    /\ \E h \in HooksOf(c) : hook[h].pc = "denied"
    /\ tool' = [tool EXCEPT ![c] = "blocked"]
    /\ UNCHANGED <<vars, hook, attempts, outcomes>>

-----------------------------------------------------------------------------
(* The hook process (bridge.Run) *)

Goto(h, pc) == hook' = [hook EXCEPT ![h].pc = pc]

(* A request that fails ends the process, with a denial before a tool;     *)
(* only the first heartbeat has a second try, the registration.            *)
AfterFailure(h) ==
    CASE hook[h].pc = "beat" -> "register"
      [] hook[h].pc # "beat" /\ hook[h].event = "pre" -> "denied"
      [] hook[h].pc # "beat" /\ hook[h].event = "post" -> "ended"

(* Mutant: a run that left no exit status is taken for a success. *)
ConfirmedByText(c) == IF tool[c] = "unknown" THEN "succeeded" ELSE tool[c]

(* resultState: what the Agent's output says of the run. *)
Confirmed(c) == IF tool[c] = "unknown" THEN "none" ELSE tool[c]

(* What follows a heartbeat or a registration that was confirmed.  A       *)
(* process that cannot tell how the tool ended reports nothing.            *)
AfterContact(h) ==
    CASE hook[h].event = "pre" -> "submit"
      [] hook[h].event = "post" /\ Confirmed(CallOf[h]) # "none" -> "report"
      [] hook[h].event = "post" /\ Confirmed(CallOf[h]) = "none" -> "ended"

(* The request does not arrive, or the service refuses it. *)
RequestFails(h) ==
    /\ hook[h].pc \in Requests
    /\ Goto(h, AfterFailure(h))
    /\ UNCHANGED <<vars, tool, attempts, outcomes>>

(* The service acts on the request; heard tells whether its reply arrives. *)
Beat(h, heard) ==
    /\ hook[h].pc = "beat"
    /\ Heartbeat(Reviewer(h))
    /\ Goto(h, IF heard THEN AfterContact(h) ELSE AfterFailure(h))
    /\ UNCHANGED <<tool, attempts, outcomes>>

Join(h, heard) ==
    /\ hook[h].pc = "register"
    /\ Register(Reviewer(h))
    /\ Goto(h, IF heard THEN AfterContact(h) ELSE AfterFailure(h))
    /\ UNCHANGED <<tool, attempts, outcomes>>

(* Mutant: a repeated submission is answered without comparing digests. *)
KnownByID(c, p) ==
    /\ up
    /\ Reachable(Owner[c])
    /\ reviews[c].decision # "none"

(* Submit of a call the engine knows: the record is returned as it is, and *)
(* refused if the digest differs.                                          *)
Known(c, p) ==
    /\ up
    /\ Reachable(Owner[c])
    /\ reviews[c].decision # "none"
    /\ reviews[c].payload = p

(* The scripts are captured by each process, just before it submits. *)
Ask(h, p, heard) ==
    LET c == CallOf[h] IN
    /\ hook[h].pc = "submit"
    /\ \/ \E v \in PolicyVerdicts : Submit(c, p, v)
       \/ Known(c, p) /\ UNCHANGED vars
    /\ hook' = [hook EXCEPT ![h].pc = IF heard THEN "judge" ELSE "denied",
                            ![h].payload = p,
                            ![h].answer = HookView(reviews'[c]),
                            ![h].lastBeat = clock]
    /\ UNCHANGED <<tool, attempts, outcomes>>

(* Mutant: an approval is taken whether or not the call was executed. *)
AllowsAny(h) == hook[h].answer.decision = "approve"

(* An approval counts only while its execution is awaited. *)
Allows(h) ==
    /\ hook[h].answer.decision = "approve"
    /\ hook[h].answer.execution = "awaiting_execution"

(* Mutant: a waiting hook relies on the service's own timeout. *)
WaitsForService(h) == hook[h].answer.decision = "pending"

(* The review is open and the hook's own patience is not exhausted. *)
Waits(h) ==
    /\ hook[h].answer.decision = "pending"
    /\ clock <= hook[h].answer.deadline + Grace

Judge(h) ==
    /\ hook[h].pc = "judge"
    /\ Goto(h, IF Allows(h) THEN "allowed"
               ELSE IF ~ Waits(h) THEN "denied"
               ELSE IF clock - hook[h].lastBeat > BeatEvery THEN "rebeat"
               ELSE "poll")
    /\ UNCHANGED <<vars, tool, attempts, outcomes>>

Rebeat(h, heard) ==
    /\ hook[h].pc = "rebeat"
    /\ Heartbeat(Reviewer(h))
    /\ hook' = [hook EXCEPT ![h].pc = IF heard THEN "poll" ELSE "denied",
                            ![h].lastBeat = clock]
    /\ UNCHANGED <<tool, attempts, outcomes>>

Poll(h) ==
    /\ hook[h].pc = "poll"
    /\ up
    /\ hook' = [hook EXCEPT ![h].pc = "judge",
                            ![h].answer = HookView(reviews[CallOf[h]])]
    /\ UNCHANGED <<vars, tool, attempts, outcomes>>

(* A result the engine has already is accepted and changes nothing. *)
Report(h) ==
    LET c == CallOf[h] IN
    /\ hook[h].pc = "report"
    /\ \/ Result(c, Owner[c], Confirmed(c))
       \/ up /\ reviews[c].execution = Confirmed(c) /\ UNCHANGED vars
    /\ Goto(h, "ended")
    /\ UNCHANGED <<tool, attempts, outcomes>>

Process(h) ==
    \/ RequestFails(h)
    \/ \E heard \in BOOLEAN :
          \/ Beat(h, heard) \/ Join(h, heard) \/ Rebeat(h, heard)
          \/ \E p \in Payloads : Ask(h, p, heard)
    \/ Judge(h) \/ Poll(h) \/ Report(h)

(* SessionStart, UserPromptSubmit and SessionEnd hooks; the console; the   *)
(* model; the sweep; the process.                                          *)
Service ==
    /\ \/ \E i \in Instances : Register(i) \/ Heartbeat(i)
       \/ \E i \in Instances, lost \in SUBSET Calls : Disconnect(i, lost)
       \/ \E c \in Calls, p \in Payloads, d \in {"approve", "reject"} : Decide(c, p, d)
       \/ \E c \in Calls : ModelReview(c)
       \/ \E lost \in SUBSET Calls : Expire(lost)
       \/ \E m \in Modes : SaveSettings(m)
       \/ Crash
       \/ \E stale \in SUBSET Instances : Open(stale)
       \/ \E lost \in SUBSET Calls : OpenFails(lost)
    /\ UNCHANGED hookVars

Time == Tick /\ UNCHANGED hookVars

HookNext ==
    \/ \E c \in Calls :
          \/ AgentCalls(c)
          \/ \E o \in {"succeeded", "failed", "unknown"} : AgentRuns(c, o)
          \/ AgentBlocked(c)
    \/ \E h \in Hooks : Process(h)
    \/ Service
    \/ Time

HookSpec == HookInit /\ [][HookNext]_allVars

(* Time passes, and a hook process is scheduled: each of its requests ends *)
(* within the HTTP client's 2.5 seconds.  Nothing is assumed of the        *)
(* service, its sweep, the human or the model.                             *)
FairHookSpec == HookSpec /\ WF_allVars(Time) /\ \A h \in Hooks : WF_allVars(Process(h))

-----------------------------------------------------------------------------
(* Properties *)

(* The kinds of the hooks' and the Agent's records. *)
HookTypeOK ==
    /\ hook \in [Hooks -> HookRecords]
    /\ tool \in [Calls -> {"none", "hooks", "blocked", "succeeded", "failed", "unknown"}]
    /\ attempts \in [Calls -> 0..MaxAttempts]
    /\ outcomes \in [Calls -> SUBSET {"succeeded", "failed", "unknown"}]

(* A tool runs only with an approval that is on disk, and every hook of    *)
(* the call captured the very arguments and scripts that were approved,    *)
(* whatever was lost, late, or repeated with other scripts meanwhile.      *)
RunsOnlyApproved ==
    \A c \in Calls : tool[c] \in {"succeeded", "failed", "unknown"} =>
        /\ reviews[c].decision = "approve"
        /\ \A h \in HooksOf(c) : hook[h].payload = reviews[c].payload

(* The result in the record is one the tool had: a retry, a second hook or *)
(* a restart never turns a failure or an uncertain end into a success.     *)
ReportsAreTrue ==
    \A c \in Calls : reviews[c].execution \in {"succeeded", "failed"} =>
        reviews[c].execution \in outcomes[c]

(* An approval is not good for a second run: a hook that starts when the   *)
(* result is known denies the call, although its review says approve.      *)
ReplayIsDenied ==
    \A h \in Hooks : hook[h].event = "pre" /\ hook[h].replay => hook[h].pc # "allowed"

(* Every hook process ends: the Agent is never left waiting, even by a     *)
(* service that answers and never decides.                                 *)
EveryHookEnds == \A h \in Hooks : hook[h].pc \notin Ended ~> hook[h].pc \in Ended

(* What the properties need beside themselves to be inductive: a hook that *)
(* waits or has allowed its call holds the payload of the review, its      *)
(* approvals are the engine's, and nobody submits once the tool has run.   *)
Ran(c) == tool[c] \in {"succeeded", "failed", "unknown"}

LifeOf(h) ==
    LET c == CallOf[h] IN
    /\ hook[h].pc \in {"submit", "judge", "rebeat", "poll", "allowed"}
          => hook[h].event = "pre"
    /\ hook[h].pc \in {"judge", "rebeat", "poll", "allowed"} =>
          /\ reviews[c].decision # "none"
          /\ hook[h].payload = reviews[c].payload
          /\ hook[h].answer.decision = "approve" => reviews[c].decision = "approve"
    /\ hook[h].pc = "allowed" => hook[h].answer.decision = "approve"
    /\ Ran(c) => hook[h].event = "post"
    /\ hook[h].event = "post" /\ hook[h].pc \notin Ended => Ran(c)
    /\ hook[h].pc = "report" => hook[h].event = "post" /\ tool[c] # "unknown"

HookInv ==
    /\ HookTypeOK
    /\ \A h \in Hooks : LifeOf(h)
    /\ RunsOnlyApproved
=============================================================================
