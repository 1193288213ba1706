---------------------------- MODULE ReviewEngine ----------------------------
(***************************************************************************)
(* The review engine of AegisHook (src/internal/core): sessions of Agents  *)
(* register and heartbeat, their tool calls are submitted for review, and  *)
(* each review is decided by the deterministic policy, by a human, by the  *)
(* review model, or by the engine itself (timeout, lost session, restart). *)
(*                                                                         *)
(* Every handler holds Engine.mu from its first read to its last write, so *)
(* it is one action.  What runs outside the mutex is the model request: a  *)
(* goroutine started by Submit that takes the mutex when its answer is in. *)
(* A handler that writes several records commits them one by one; its lost *)
(* argument is the set of commits that the database refused.               *)
(*                                                                         *)
(* Database records survive a crash; the goroutines do not.                *)
(***************************************************************************)
EXTENDS Integers, Sequences

CONSTANTS
    Instances,        \* registered Agent sessions (Instance.ID)
    Calls,            \* reviews, keyed by hash(instance, call ID)
    Owner,            \* the instance each call belongs to
    Payloads,         \* what a digest covers: tool, arguments and scripts
    Incomplete,       \* payloads whose scriptCaptureStatus is "incomplete"
    NoPayload,        \* the payload of a call that was never submitted
    Window,           \* the heartbeat window, 30 seconds in the code
    ApprovalSeconds,  \* Settings.ApprovalSeconds
    ModelWait,        \* Settings.ModelSeconds + 5
    MaxClock,         \* bound: the clock stops here
    LastSubmit,       \* bound: no new review after this instant
    MaxRuns,          \* bound: processes the engine may be started as
    MaxFaults         \* bound: handlers that lose a database write

ASSUME OwnerAssumption == Owner \in [Calls -> Instances]

ASSUME PayloadAssumption ==
    /\ Incomplete \subseteq Payloads
    /\ NoPayload \notin Payloads

ASSUME TimeAssumption ==
    /\ Window \in Nat \ {0}
    /\ ApprovalSeconds \in Nat \ {0}
    /\ ModelWait \in Nat \ {0}
    /\ MaxClock \in Nat
    /\ LastSubmit \in Nat
    /\ LastSubmit + ApprovalSeconds < MaxClock
    /\ LastSubmit + ModelWait < MaxClock

ASSUME BoundAssumption == MaxRuns \in Nat /\ MaxFaults \in Nat

VARIABLES
    clock,      \* the engine's wall clock
    up,         \* the process holds the lock file and serves requests
    run,        \* how many times the process was opened
    faults,     \* handlers that lost a write so far
    mode,       \* Settings.Mode
    instances,  \* records of kind "instances"
    reviews,    \* records of kind "reviews"
    calling,    \* reviews whose modelReview goroutine is running
    audit       \* per review, the actions of its rows of kind "audit"

vars == <<clock, up, run, faults, mode, instances, reviews, calling, audit>>

-----------------------------------------------------------------------------
(* Records *)

Modes == {"human", "model"}

Absent == [state |-> "absent", heartbeat |-> 0]

InstanceRecords ==
    [state : {"absent", "connected", "disconnected"}, heartbeat : Nat]

(* by stands for RuleID: the rule that matched, the human, a rule of the   *)
(* model's prompt, or one of the engine's own codes.                       *)
Engines == {"E_TIMEOUT", "E_SESSION", "E_RESTART", "E_MODEL"}
Deciders == {"SCOPE", "RULE", "HUMAN", "MODEL"} \cup Engines

ReviewRecords ==
    [decision   : {"none", "pending", "approve", "reject"},
     by         : {"none"} \cup Deciders,
     path       : {"none", "scope", "rule", "human", "model"},
     needsHuman : BOOLEAN,
     execution  : {"not_executed", "awaiting_execution", "succeeded", "failed"},
     payload    : Payloads \cup {NoPayload},
     mode       : Modes,
     created    : Nat,
     deadline   : Nat,
     decidedAt  : Nat,
     run        : Nat]   \* history: the process that accepted the review

Unasked ==
    [decision |-> "none", by |-> "none", path |-> "none", needsHuman |-> FALSE,
     execution |-> "not_executed", payload |-> NoPayload, mode |-> "human",
     created |-> 0, deadline |-> 0, decidedAt |-> 0, run |-> 0]

(* The verdicts of checkScopePaths and evaluatePaths: the scopes can only  *)
(* reject, and no verdict sends the call to the configured reviewer.       *)
NoVerdict == [path |-> "none", decision |-> "none"]
PolicyVerdicts ==
    {NoVerdict, [path |-> "scope", decision |-> "reject"],
     [path |-> "rule", decision |-> "approve"],
     [path |-> "rule", decision |-> "reject"]}

Pending(c) == reviews[c].decision = "pending"
Overdue(c) == clock > reviews[c].deadline

(* Instances(): the sweep's view of a session, strictly inside the window. *)
Online(i) ==
    /\ instances[i].state = "connected"
    /\ clock - instances[i].heartbeat < Window

(* Submit's own test, which still accepts the last instant of the window.  *)
Reachable(i) ==
    /\ instances[i].state = "connected"
    /\ clock - instances[i].heartbeat <= Window

(* Mutant: the review stays in the console's queue. *)
DecidedStillQueued(r, decision, by) ==
    [r EXCEPT !.decision = decision,
              !.by = by,
              !.execution = IF decision = "approve" THEN "awaiting_execution"
                                                    ELSE "not_executed",
              !.decidedAt = clock]

(* The record after a decision: execution is awaited iff it was allowed.   *)
Decided(r, decision, by) ==
    [r EXCEPT !.decision = decision,
              !.by = by,
              !.needsHuman = FALSE,
              !.execution = IF decision = "approve" THEN "awaiting_execution"
                                                    ELSE "not_executed",
              !.decidedAt = clock]

(* change(): the record and its audit row are one transaction. *)
CommitReview(c, r, action) ==
    /\ reviews' = [reviews EXCEPT ![c] = r]
    /\ audit' = [audit EXCEPT ![c] = Append(@, action)]

(* The loops of Disconnect, Expire and Open: one commit for each review.   *)
RejectAll(S, by, action) ==
    /\ reviews' = [c \in Calls |->
                     IF c \in S THEN Decided(reviews[c], "reject", by[c])
                                ELSE reviews[c]]
    /\ audit' = [c \in Calls |->
                   IF c \in S THEN Append(audit[c], action[c]) ELSE audit[c]]

Always(v) == [c \in Calls |-> v]

(* At most MaxFaults handlers lose commits. *)
Lose(lost) ==
    IF lost = {} THEN UNCHANGED faults
                 ELSE faults < MaxFaults /\ faults' = faults + 1

(* A loop over Reviews() runs by createdAt, latest first, and stops at its *)
(* first failing commit: what is lost is no newer than what was written.   *)
StopsEarly(due, lost) ==
    \A c \in due \ lost, d \in lost : reviews[c].created >= reviews[d].created

-----------------------------------------------------------------------------
Init ==
    /\ clock = 0
    /\ up = TRUE
    /\ run = 1
    /\ faults = 0
    /\ mode = "human"
    /\ instances = [i \in Instances |-> Absent]
    /\ reviews = [c \in Calls |-> Unasked]
    /\ calling = {}
    /\ audit = [c \in Calls |-> <<>>]

(* POST /instances, also for a session that is known or was disconnected.  *)
(* Its pending reviews are left as they are.                               *)
Register(i) ==
    /\ up
    /\ instances' = [instances EXCEPT ![i] =
                       [state |-> "connected", heartbeat |-> clock]]
    /\ UNCHANGED <<clock, up, run, faults, mode, reviews, calling, audit>>

Heartbeat(i) ==
    /\ up
    /\ instances[i].state = "connected"
    /\ instances' = [instances EXCEPT ![i].heartbeat = clock]
    /\ UNCHANGED <<clock, up, run, faults, mode, reviews, calling, audit>>

(* Mutant: only the newest waiting call is cancelled. *)
DisconnectNewest(i, lost) ==
    LET due == {c \in Calls : Owner[c] = i /\ Pending(c)}
        newest == {c \in due : \A d \in due : reviews[c].created >= reviews[d].created}
        one == IF due = {} THEN {} ELSE {CHOOSE c \in newest : TRUE} IN
    /\ up
    /\ instances[i].state # "absent"
    /\ lost = {}
    /\ instances' = [instances EXCEPT ![i].state = "disconnected"]
    /\ RejectAll(one, Always("E_SESSION"), Always("cancel"))
    /\ UNCHANGED <<clock, up, run, faults, mode, calling>>

(* POST /instances/{id}/shutdown. *)
Disconnect(i, lost) ==
    LET due == {c \in Calls : Owner[c] = i /\ Pending(c)} IN
    /\ up
    /\ instances[i].state # "absent"
    /\ lost \subseteq due
    /\ StopsEarly(due, lost)
    /\ Lose(lost)
    /\ instances' = [instances EXCEPT ![i].state = "disconnected"]
    /\ RejectAll(due \ lost, Always("E_SESSION"), Always("cancel"))
    /\ UNCHANGED <<clock, up, run, mode, calling>>

(* The record Submit builds before it looks at the policy's verdict. *)
NewReview(p) ==
    [Unasked EXCEPT !.decision = "pending",
                    !.payload = p,
                    !.mode = mode,
                    !.created = clock,
                    !.deadline = clock + ApprovalSeconds,
                    !.run = run]

SubmitAccepted(c) ==
    /\ up
    /\ clock <= LastSubmit
    /\ Reachable(Owner[c])
    /\ reviews[c].decision = "none"
    /\ UNCHANGED <<clock, up, run, faults, mode, instances>>

(* Mutant: a rule that allows is taken at its word. *)
ForcedHumanNever(p, verdict) == FALSE

(* A permission that rests on scripts nobody read is not given by a rule.  *)
ForcedHuman(p, verdict) == verdict.decision = "approve" /\ p \in Incomplete

SubmitByPolicy(c, p, verdict) ==
    /\ SubmitAccepted(c)
    /\ verdict # NoVerdict
    /\ ~ ForcedHuman(p, verdict)
    /\ CommitReview(c, [Decided(NewReview(p), verdict.decision,
                                IF verdict.path = "scope" THEN "SCOPE" ELSE "RULE")
                          EXCEPT !.path = verdict.path], "submit")
    /\ UNCHANGED calling

(* Mutant: the goroutine is started by the configured mode, not the path. *)
SubmitToHumanAndModel(c, p, verdict) ==
    /\ SubmitAccepted(c)
    /\ \/ ForcedHuman(p, verdict)
       \/ verdict = NoVerdict /\ mode = "human"
    /\ CommitReview(c, [NewReview(p) EXCEPT !.path = "human",
                                            !.needsHuman = TRUE], "submit")
    /\ calling' = IF mode = "model" THEN calling \cup {c} ELSE calling

SubmitToHuman(c, p, verdict) ==
    /\ SubmitAccepted(c)
    /\ \/ ForcedHuman(p, verdict)
       \/ verdict = NoVerdict /\ mode = "human"
    /\ CommitReview(c, [NewReview(p) EXCEPT !.path = "human",
                                            !.needsHuman = TRUE], "submit")
    /\ UNCHANGED calling

SubmitToModel(c, p, verdict) ==
    /\ SubmitAccepted(c)
    /\ verdict = NoVerdict
    /\ mode = "model"
    /\ CommitReview(c, [NewReview(p) EXCEPT !.path = "model",
                                            !.deadline = clock + ModelWait], "submit")
    /\ calling' = calling \cup {c}

Submit(c, p, verdict) ==
    \/ SubmitByPolicy(c, p, verdict)
    \/ SubmitToHuman(c, p, verdict)
    \/ SubmitToModel(c, p, verdict)

(* Mutant: a decision that comes after the deadline is accepted. *)
DecideLate(c, p, decision) ==
    /\ up
    /\ Pending(c)
    /\ reviews[c].payload = p
    /\ reviews[c].mode = "human" \/ reviews[c].path = "human"
    /\ CommitReview(c, Decided(reviews[c], decision, "HUMAN"), "human")
    /\ UNCHANGED <<clock, up, run, faults, mode, instances, calling>>

(* POST /reviews/{id}/decision; p is the digest the console shows. *)
Decide(c, p, decision) ==
    /\ up
    /\ Pending(c)
    /\ reviews[c].payload = p
    /\ reviews[c].mode = "human" \/ reviews[c].path = "human"
    /\ ~ Overdue(c)
    /\ CommitReview(c, Decided(reviews[c], decision, "HUMAN"), "human")
    /\ UNCHANGED <<clock, up, run, faults, mode, instances, calling>>

(* Mutants: the result is not validated, or taken more than once. *)
ResultUnvalidated(c, i, state) ==
    /\ up
    /\ Owner[c] = i
    /\ reviews[c].decision = "approve"
    /\ reviews[c].execution = "awaiting_execution"
    /\ CommitReview(c, [reviews[c] EXCEPT !.execution = "unknown"], "result")
    /\ UNCHANGED <<clock, up, run, faults, mode, instances, calling>>

ResultRepeated(c, i, state) ==
    /\ up
    /\ Owner[c] = i
    /\ reviews[c].decision = "approve"
    /\ Len(audit[c]) < 5
    /\ CommitReview(c, [reviews[c] EXCEPT !.execution = state], "result")
    /\ UNCHANGED <<clock, up, run, faults, mode, instances, calling>>

(* POST /reviews/{id}/result.  A repetition of the same result is accepted *)
(* and changes nothing.                                                    *)
Result(c, i, state) ==
    /\ up
    /\ Owner[c] = i
    /\ reviews[c].decision = "approve"
    /\ reviews[c].execution = "awaiting_execution"
    /\ CommitReview(c, [reviews[c] EXCEPT !.execution = state], "result")
    /\ UNCHANGED <<clock, up, run, faults, mode, instances, calling>>

(* modelReview once the model has answered and the mutex is held. *)
ModelReturns(c) ==
    /\ up
    /\ c \in calling
    /\ calling' = calling \ {c}
    /\ UNCHANGED <<clock, up, run, faults, mode, instances>>

(* Mutant: modelReview trusts the record it was started with. *)
StillAskedStale(c) == ~ reviews[c].needsHuman /\ ~ Overdue(c)

(* modelReview reads the record again: somebody else may have decided.    *)
StillAsked(c) == Pending(c) /\ ~ reviews[c].needsHuman /\ ~ Overdue(c)

ModelTooLate(c) ==
    /\ ModelReturns(c)
    /\ ~ StillAsked(c)
    /\ UNCHANGED <<reviews, audit>>

(* The deadline stays the model's. *)
ModelTransfers(c) ==
    /\ ModelReturns(c)
    /\ StillAsked(c)
    /\ reviews[c].payload \in Incomplete
    /\ CommitReview(c, [reviews[c] EXCEPT !.needsHuman = TRUE,
                                          !.path = "human"], "incomplete")

ModelDecides(c, answer) ==
    /\ ModelReturns(c)
    /\ StillAsked(c)
    /\ answer = "approve" => reviews[c].payload \notin Incomplete
    /\ CommitReview(c, IF answer = "error"
                         THEN Decided(reviews[c], "reject", "E_MODEL")
                         ELSE Decided(reviews[c], answer, "MODEL"), "model")

(* The usage record or the decision cannot be written: the goroutine ends  *)
(* and the review waits for its deadline.                                  *)
ModelLost(c) ==
    /\ up
    /\ c \in calling
    /\ calling' = calling \ {c}
    /\ Lose({c})
    /\ UNCHANGED <<clock, up, run, mode, instances, reviews, audit>>

ModelReview(c) ==
    \/ ModelTooLate(c)
    \/ ModelTransfers(c)
    \/ \E answer \in {"approve", "reject", "error"} : ModelDecides(c, answer)
    \/ ModelLost(c)

(* Mutant: the sweep only looks for lost sessions. *)
DueOffline == {c \in Calls : Pending(c) /\ ~ Online(Owner[c])}

(* The sweep that runs every second.  A commit that fails is skipped. *)
Due == {c \in Calls : Pending(c) /\ (Overdue(c) \/ ~ Online(Owner[c]))}

Expire(lost) ==
    /\ up
    /\ Due # {}
    /\ lost \subseteq Due
    /\ Lose(lost)
    /\ RejectAll(Due \ lost,
                 [c \in Calls |-> IF Overdue(c) THEN "E_TIMEOUT" ELSE "E_SESSION"],
                 [c \in Calls |-> IF Overdue(c) THEN "timeout" ELSE "cancel"])
    /\ UNCHANGED <<clock, up, run, mode, instances, calling>>

(* PUT /settings; the model mode needs a tested configuration, which the   *)
(* module of the settings models: here either mode may be refused.         *)
SaveSettings(m) ==
    /\ up
    /\ mode' = m
    /\ UNCHANGED <<clock, up, run, faults, instances, reviews, calling, audit>>

(* Close, or the process dies; MaxRuns bounds how often. *)
Crash ==
    /\ up
    /\ run < MaxRuns
    /\ up' = FALSE
    /\ calling' = {}
    /\ UNCHANGED <<clock, run, faults, mode, instances, reviews, audit>>

(* Mutant: only the human queue is rejected. *)
LeftoverQueued == {c \in Calls : Pending(c) /\ reviews[c].needsHuman}
Leftover == {c \in Calls : Pending(c)}

(* Open: what the last process left pending is rejected, then every session *)
(* is marked disconnected; stale are those whose write fails unnoticed.     *)
Open(stale) ==
    /\ ~ up
    /\ stale \subseteq {i \in Instances : instances[i].state = "connected"}
    /\ Lose(stale)
    /\ up' = TRUE
    /\ run' = run + 1
    /\ RejectAll(Leftover, Always("E_RESTART"), Always("restart"))
    /\ instances' = [i \in Instances |->
                       IF instances[i].state = "connected" /\ i \notin stale
                         THEN [instances[i] EXCEPT !.state = "disconnected"]
                         ELSE instances[i]]
    /\ UNCHANGED <<clock, mode, calling>>

(* A rejection cannot be written: Open returns the error after the commits *)
(* that succeeded, and the process is not up.                              *)
OpenFails(lost) ==
    /\ ~ up
    /\ lost # {}
    /\ lost \subseteq Leftover
    /\ StopsEarly(Leftover, lost)
    /\ Lose(lost)
    /\ RejectAll(Leftover \ lost, Always("E_RESTART"), Always("restart"))
    /\ UNCHANGED <<clock, up, run, mode, instances, calling>>

Tick ==
    /\ clock < MaxClock
    /\ clock' = clock + 1
    /\ UNCHANGED <<up, run, faults, mode, instances, reviews, calling, audit>>

Next ==
    \/ \E i \in Instances : Register(i)
    \/ \E i \in Instances : Heartbeat(i)
    \/ \E i \in Instances, lost \in SUBSET Calls : Disconnect(i, lost)
    \/ \E c \in Calls, p \in Payloads, v \in PolicyVerdicts : Submit(c, p, v)
    \/ \E c \in Calls, p \in Payloads, d \in {"approve", "reject"} : Decide(c, p, d)
    \/ \E c \in Calls, i \in Instances,
          s \in {"succeeded", "failed", "not_executed"} : Result(c, i, s)
    \/ \E c \in Calls : ModelReview(c)
    \/ \E lost \in SUBSET Calls : Expire(lost)
    \/ \E m \in Modes : SaveSettings(m)
    \/ Crash
    \/ \E stale \in SUBSET Instances : Open(stale)
    \/ \E lost \in SUBSET Calls : OpenFails(lost)
    \/ Tick

Spec == Init /\ [][Next]_vars

(* The clock advances, the sweep's ticker fires and its writes eventually  *)
(* succeed, and a process that stopped is started again.  Neither the     *)
(* human, nor the model, nor the Agent has to act.                         *)
Fairness ==
    /\ WF_vars(Tick)
    /\ WF_vars(Expire({}))
    /\ WF_vars(Open({}))

FairSpec == Spec /\ Fairness

-----------------------------------------------------------------------------
(* Properties *)

(* The kinds of every record and of every audit trail. *)
Actions == {"submit", "incomplete", "human", "model", "timeout", "cancel",
            "restart", "result"}

TypeOK ==
    /\ clock \in Nat
    /\ up \in BOOLEAN
    /\ run \in Nat
    /\ faults \in Nat
    /\ mode \in Modes
    /\ instances \in [Instances -> InstanceRecords]
    /\ reviews \in [Calls -> ReviewRecords]
    /\ calling \subseteq Calls
    /\ audit \in [Calls -> Seq(Actions)]

(* A call whose scripts could not all be captured is allowed by a human or *)
(* not at all: the rule of Submit, the answer of modelReview and the       *)
(* transfer between them leave no way round.                               *)
IncompleteNeedsHuman ==
    \A c \in Calls :
        reviews[c].decision = "approve" /\ reviews[c].payload \in Incomplete
            => reviews[c].by = "HUMAN"

(* Decide, modelReview and Expire race for a pending review: a human or a  *)
(* model answers only up to the deadline and the sweep's timeout comes     *)
(* only after it, whichever of them is late.                               *)
DecidedInTime ==
    \A c \in Calls :
        LET r == reviews[c] IN
        /\ r.by \in {"HUMAN", "MODEL", "E_MODEL"} => r.decidedAt <= r.deadline
        /\ r.by = "E_TIMEOUT" => r.decidedAt > r.deadline

(* Open rejects what earlier processes left pending before it serves: an   *)
(* engine that is up waits only for calls it accepted itself.              *)
PendingOfThisRun ==
    \A c \in Calls : up /\ Pending(c) => reviews[c].run = run

(* The console's queue holds exactly the pending reviews a human can still *)
(* decide; every other pending review is one the model was asked about.    *)
QueueConsistent ==
    \A c \in Calls :
        LET r == reviews[c] IN
        /\ r.needsHuman <=> Pending(c) /\ r.path = "human"
        /\ Pending(c) /\ ~ r.needsHuman => r.path = "model" /\ r.mode = "model"

(* While a model request is out nobody else gives the permission, and while *)
(* no write was lost a review that the model may still answer has its       *)
(* request out: it is not left to its timeout.                              *)
OneAnswerer ==
    \A c \in Calls :
        /\ c \in calling =>
              /\ reviews[c].path = "model"
              /\ reviews[c].by \in {"none", "E_TIMEOUT", "E_SESSION"}
        /\ up /\ faults = 0 /\ StillAsked(c) => c \in calling

(* The audit rows of a review tell its life: one submission, at most one   *)
(* transfer to the human, one decision by whoever RuleID names, and one    *)
(* result exactly when an execution was reported.                          *)
ClosingAction(by) ==
    CASE by = "HUMAN" -> "human"
      [] by \in {"MODEL", "E_MODEL"} -> "model"
      [] by = "E_TIMEOUT" -> "timeout"
      [] by = "E_SESSION" -> "cancel"
      [] by = "E_RESTART" -> "restart"

Openings(r) ==
    {<<"submit">>} \cup
        (IF r.path = "human" /\ r.mode = "model" THEN {<<"submit", "incomplete">>}
                                               ELSE {})

Verdicts(r) ==
    IF r.decision = "pending" \/ r.by \in {"SCOPE", "RULE"}
      THEN Openings(r)
      ELSE {Append(t, ClosingAction(r.by)) : t \in Openings(r)}

Trails(r) ==
    IF r.decision = "none" THEN {<<>>}
    ELSE IF r.decision = "approve" /\ r.execution # "awaiting_execution"
      THEN {Append(t, "result") : t \in Verdicts(r)}
      ELSE Verdicts(r)

AuditTrail == \A c \in Calls : audit[c] \in Trails(reviews[c])

(* A decision is final: no later handler, retry, late model answer, sweep   *)
(* or restart changes who decided what, and a reported result stands.       *)
DecisionsAreFinal ==
    [][\A c \in Calls :
          LET r == reviews[c] IN
          r.decision \in {"approve", "reject"} =>
              \/ reviews'[c] = r
              \/ /\ r.execution = "awaiting_execution"
                 /\ reviews'[c] = [r EXCEPT !.execution = reviews'[c].execution]]_vars

(* While no write is lost, a call that waited when its session ended (or   *)
(* was marked lost by a restart) is never allowed afterwards, although     *)
(* Decide and modelReview do not look at the session.                      *)
NoApprovalAfterSessionEnd ==
    [][\A c \in Calls :
          Pending(c) /\ reviews'[c].decision = "approve" /\ faults' = 0
              => instances[Owner[c]].state = "connected"]_vars

(* What the properties above need beside themselves to be inductive. *)
LifeCycle ==
    \A c \in Calls :
        LET r == reviews[c] IN
        /\ r.decision = "none" => r = Unasked
        /\ r.decision # "none" => r.payload \in Payloads
        /\ r.decision = "pending" =>
              /\ r.by = "none"
              /\ r.path \in {"human", "model"}
              /\ r.execution = "not_executed"
        /\ r.decision = "approve" =>
              /\ r.by \in {"RULE", "HUMAN", "MODEL"}
              /\ r.path # "none"
        /\ r.decision = "reject" =>
              /\ r.by # "none"
              /\ r.path # "none"
              /\ r.execution = "not_executed"

Inv ==
    /\ TypeOK
    /\ LifeCycle
    /\ calling # {} => up
    /\ IncompleteNeedsHuman
    /\ DecidedInTime
    /\ PendingOfThisRun
    /\ QueueConsistent
    /\ OneAnswerer

(* The engine implements the contract: how a record maps to its state. *)
Judges(by) ==
    CASE by \in {"SCOPE", "RULE"} -> "policy"
      [] by = "HUMAN" -> "human"
      [] by = "MODEL" -> "model"
      [] by \in Engines -> "engine"
      [] by = "none" -> "none"

Stage(r) ==
    CASE r.decision = "none" -> "unasked"
      [] r.decision = "pending" -> "waiting"
      [] r.decision = "reject" -> "refused"
      [] r.decision = "approve" /\ r.execution = "awaiting_execution" -> "allowed"
      [] r.decision = "approve" /\ r.execution # "awaiting_execution" -> "reported"

Promise(r) ==
    [stage |-> Stage(r), judge |-> Judges(r.by), payload |-> r.payload,
     outcome |-> IF Stage(r) = "reported" THEN r.execution ELSE "none"]

Contract == INSTANCE ReviewContract
              WITH call <- [c \in Calls |-> Promise(reviews[c])]

(* The engine implements the contract: every call is decided once, by a    *)
(* judge entitled to it, and only an allowed call gets an outcome, once.   *)
KeepsContract == Contract!Safety

(* Every call that was submitted is decided, whatever the human, the model *)
(* and the Agent do: the contract's promise of an answer.                  *)
EveryReviewSettles == Contract!Answered

(* README.md: what the model was asked is not decided by a human.          *)
ModelCallsStayWithModel ==
    \A c \in Calls : reviews[c].by = "HUMAN" =>
        \A k \in 1..Len(audit[c]) : audit[c][k] # "incomplete"
=============================================================================
