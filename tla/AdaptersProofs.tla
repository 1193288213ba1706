--------------------------- MODULE AdaptersProofs ---------------------------
(***************************************************************************)
(* Machine-checked proofs about the adapters inside an Agent, for every set*)
(* of calls, number of sessions and scopes, and every capture limit: a tool*)
(* runs only as approved, what is reported of it is true, and a capture    *)
(* that counts as complete is whole.                                       *)
(***************************************************************************)
EXTENDS Adapters, FiniteSetTheorems, SequenceTheorems, TLAPS

(* The kinds of the records. *)
HandlerStates == {"off", "allowed", "blocked"} \cup InHand
Outcomes == {"succeeded", "failed", "not_executed"}

Handlers ==
    [at : HandlerStates, session : 0..MaxSessions]
    \cup [at : HandlerStates, session : 0..MaxSessions, payload : Payloads]
    \cup [at : {"ended"}, session : 0..MaxSessions, outcome : Outcomes]

Steps == [where : {"off", "before", "await", "run", "threw", "after", "blocked", "done"},
          hook : 0..Scopes, args : Payloads \cup {NoPayload}, exit : ExitCodes \cup {"none"}]

Promises == [child : {"none", "reading", "started", "asked"} \cup Settled,
             payload : Payloads \cup {NoPayload}, reported : BOOLEAN]

CallsInHand == {t \in ToolCalls : Handling(t)}

Types ==
    /\ agent \in {"pi", "opencode"}
    /\ call \in [Reviews -> Service!States]
    /\ tool \in [ToolCalls -> {"none", "succeeded", "failed"}]
    /\ session \in 0..MaxSessions
    /\ live \in BOOLEAN /\ configured \in BOOLEAN /\ registered \in BOOLEAN
    /\ joining \in BOOLEAN /\ joined \in BOOLEAN
    /\ calls \in [ToolCalls -> {"none", "pending", "approve", "reject"}]
    /\ handler \in [ToolCalls -> Handlers]
    /\ report \in [ToolCalls -> 0..3]
    /\ overdue \subseteq ToolCalls
    /\ step \in [ToolCalls -> Steps]
    /\ promise \in [ToolCalls -> Promises]

(* A call that is in hand is of the session that lives, and a session that *)
(* is being joined or is registered lives; the counter counts what is in   *)
(* hand.                                                                   *)
SessionInv ==
    /\ joining => live
    /\ registered => live /\ configured
    /\ pending = Cardinality(CallsInHand)
    /\ \A t \in ToolCalls :
          /\ handler[t].session <= session
          /\ handler[t].at = "off" => handler[t] = Off
          /\ handler[t].at # "off" => handler[t].session > 0
          /\ Handling(t) => handler[t].session = session /\ live
          /\ handler[t].at = "submit" => handler[t] \in [at : {"submit"}, session : Sessions, payload : Payloads]

(* The calls of the Agent that runs no adapter of this kind are untouched.  *)
AgentInv ==
    /\ agent = "pi" => step = [t \in ToolCalls |-> NotAsked]
    /\ agent = "opencode" => \A t \in ToolCalls : handler[t] = Off /\ report[t] = 0

(* What the Agent runs is what the child asked for and the service allowed. *)
Approved(r) == call[r].stage \in {"allowed", "reported"}

PromiseInv(t) ==
    /\ step[t].where \in {"before", "await", "after"} => step[t].hook < Scopes
    /\ step[t].where # "off" => step[t].args \in Payloads
    /\ step[t].where = "await" => promise[t].payload = step[t].args
    /\ promise[t].child # "none" => promise[t].payload \in Payloads
    /\ promise[t].child \in {"asked", "approved"} =>
          call[ReviewOf(t)].stage # "unasked" /\ call[ReviewOf(t)].payload = promise[t].payload
    /\ promise[t].child = "approved" => Approved(ReviewOf(t))

(* Nothing is reported of a call before it has run or was blocked.          *)
Unreported(t) == \A s \in Sessions : call[<<s, t>>].outcome = "none"

HandlerResult(t) ==
    /\ agent = "pi" /\ handler[t].at # "ended" => tool[t] = "none" /\ Unreported(t) /\ report[t] = 0
    /\ handler[t].at = "allowed" => calls[t] # "reject"
    /\ handler[t].at = "ended" =>
          (handler[t].outcome = "succeeded" <=> tool[t] = "succeeded")

HookResult(t) ==
    /\ agent = "opencode" /\ step[t].where \in {"off", "before", "await", "run"} =>
          tool[t] = "none" /\ Unreported(t)
    /\ step[t].where = "blocked" => tool[t] = "none"
    /\ step[t].where = "threw" => tool[t] = "failed"
    /\ step[t].where = "after" =>
          /\ tool[t] # "none" /\ step[t].exit # "none"
          /\ step[t].exit = "zero" => tool[t] = "succeeded"
          /\ step[t].exit = "nonzero" => tool[t] = "failed"

(* The parts of RunsOnlyApproved and OutcomesAreTrue that are about a call.  *)
HandlerRuns(t) == handler[t].at = "allowed" => Approved(Of(t))

HooksRun(t) ==
    step[t].where \in {"run", "after"} =>
        Approved(ReviewOf(t)) /\ call[ReviewOf(t)].payload = step[t].args

OutcomesOf(t) ==
    \A s \in Sessions :
        /\ call[<<s, t>>].outcome = "succeeded" => tool[t] = "succeeded" \/ WithoutExitCode(t)
        /\ call[<<s, t>>].outcome \in {"failed", "not_executed"} => tool[t] # "succeeded"

(* A review that was not asked for is blank.                               *)
CallInv == \A r \in Reviews : call[r].stage = "unasked" => call[r] = Service!NotSubmitted

AdapterInv ==
    /\ Types /\ CallInv /\ SessionInv /\ AgentInv
    /\ \A t \in ToolCalls :
          /\ PromiseInv(t) /\ HandlerResult(t) /\ HookResult(t)
          /\ HandlerRuns(t) /\ HooksRun(t) /\ OutcomesOf(t)

-----------------------------------------------------------------------------
(* The capture that runs.  Everything before the place it has come to is    *)
(* covered, unless it is known to be incomplete.                            *)
NoCommand == [via |-> "", refs |-> <<>>]
AllCommands == {NoCommand} \cup UNION {Commands[t] : t \in ToolCalls}
PathsOf(c) == {c.refs[n].path : n \in DOMAIN c.refs}
AllPaths == UNION {PathsOf(c) : c \in AllCommands}
Files == [path : AllPaths, complete : BOOLEAN, whole : BOOLEAN]

Captures ==
    [of : SUBSET ToolCalls, command : AllCommands, at : Nat \ {0}, files : Seq(Files),
     skipped : SUBSET AllPaths, total : 0..MaxBytes, status : {"complete", "incomplete"}]

Covered(path) ==
    /\ path # Problem
    /\ \/ path \in capture.skipped
       \/ \E k \in DOMAIN capture.files :
             /\ capture.files[k].path = path
             /\ capture.files[k].complete /\ capture.files[k].whole

CaptureInv ==
    /\ capture \in Captures
    /\ Capturing => \E t \in ToolCalls : capture.of = {t} /\ handler[t].at = "capture"
    /\ capture.files = <<>> => capture.status # "incomplete"
    /\ capture.status # "incomplete" =>
          /\ Len(capture.files) <= MaxFiles
          /\ \A n \in DOMAIN capture.command.refs :
                n < capture.at => Covered(capture.command.refs[n].path)

Inv == AdapterInv /\ CaptureInv

-----------------------------------------------------------------------------
(* What the adapters have the service do is what the contract allows.       *)

Moved(r) == call'[r] = call[r] \/ Service!Moves(call[r], call'[r])

Legal ==
    /\ call' \in [Reviews -> Service!States]
    /\ \A r \in Reviews : Moved(r)

LEMMA SubmitIsLegal ==
    ASSUME Types, CallInv, NEW r \in Reviews, NEW p \in Payloads, Submitted(r, p)
    PROVE  /\ Legal
           /\ \A q \in Reviews : q # r => call'[q] = call[q]
           /\ call'[r].stage # "unasked" /\ call'[r].payload = p
           /\ call'[r].outcome = call[r].outcome
<1>1. ASSUME NEW stage \in {"waiting", "allowed", "refused"},
             Service!Ask(call[r], Service!At(stage, IF stage = "waiting" THEN "none" ELSE "policy", p, "none"))
             \/ Service!AskAndJudge(call[r], Service!At(stage, IF stage = "waiting" THEN "none" ELSE "policy", p, "none")),
             call' = [call EXCEPT ![r] = Service!At(stage, IF stage = "waiting" THEN "none" ELSE "policy", p, "none")]
      PROVE  /\ Legal
             /\ \A q \in Reviews : q # r => call'[q] = call[q]
             /\ call'[r].stage # "unasked" /\ call'[r].payload = p
             /\ call'[r].outcome = call[r].outcome
  <2> DEFINE s == Service!At(stage, IF stage = "waiting" THEN "none" ELSE "policy", p, "none")
  <2>1. s \in Service!States /\ s.stage = stage /\ s.payload = p /\ s.outcome = "none"
    BY DEF Service!States, Service!At
  <2>2. call'[r] = s /\ call' \in [Reviews -> Service!States]
        /\ \A q \in Reviews : q # r => call'[q] = call[q]
    BY <1>1, <2>1 DEF Types
  <2>3. call[r].outcome = "none"
    BY <1>1 DEF Service!Ask, Service!AskAndJudge, Service!NotSubmitted, Service!At
  <2>4. Moved(r)
    BY <1>1, <2>2 DEF Moved, Service!Moves
  <2>5. Legal
    BY <2>2, <2>4 DEF Legal, Moved
  <2> QED BY <2>1, <2>2, <2>3, <2>5
<1>2. CASE call[r].payload = p /\ UNCHANGED call
  <2>1. call[r].stage # "unasked"
    BY <1>2, AgentAssumption DEF CallInv, Service!NotSubmitted, Service!At
  <2> QED BY <1>2, <2>1 DEF Legal, Moved, Types
<1> QED BY <1>1, <1>2 DEF Submitted

LEMMA ReportIsLegal ==
    ASSUME Types, NEW r \in Reviews, NEW o \in Outcomes, Reported(r, o)
    PROVE  /\ Legal
           /\ \A q \in Reviews : q # r => call'[q] = call[q]
           /\ call'[r].outcome \in {call[r].outcome, o}
<1>1. CASE call[r].stage # "allowed"
  BY <1>1 DEF Reported, Legal, Moved, Types
<1>2. CASE call[r].stage = "allowed"
  <2> DEFINE s == [call[r] EXCEPT !.stage = "reported", !.outcome = o]
  <2>1. call[r] \in Service!States
    BY DEF Types
  <2>2. s \in Service!States /\ s.outcome = o
    BY <2>1 DEF Service!States, Outcomes
  <2>3. s = Service!At("reported", call[r].judge, call[r].payload, o)
    <3>1. /\ s.stage = "reported" /\ s.judge = call[r].judge
          /\ s.payload = call[r].payload /\ s.outcome = o
      BY <2>1 DEF Service!States
    <3>2. s = [stage |-> s.stage, judge |-> s.judge, payload |-> s.payload,
               outcome |-> s.outcome]
      <4> HIDE DEF s
      <4> QED BY <2>2 DEF Service!States
    <3> HIDE DEF s
    <3> QED BY <3>1, <3>2 DEF Service!At
  <2>4. call' = [call EXCEPT ![r] = s]
    BY <1>2 DEF Reported
  <2>5. call'[r] = s /\ call' \in [Reviews -> Service!States]
        /\ \A q \in Reviews : q # r => call'[q] = call[q]
    BY <2>4, <2>2 DEF Types
  <2>6. Service!Moves(call[r], s)
    BY <1>2, <2>3 DEF Service!Moves, Service!Report, Outcomes
  <2>7. Legal
    BY <2>5, <2>6 DEF Legal, Moved
  <2> QED BY <2>5, <2>7, <2>2
<1> QED BY <1>1, <1>2

LEMMA JudgeIsLegal ==
    ASSUME Types, ServiceJudges
    PROVE  Legal /\ \A q \in Reviews : call'[q].outcome \in {call[q].outcome, "none"}
<1>1. PICK r \in Reviews, stage \in {"allowed", "refused"} :
         LET s == Service!At(stage, IF stage = "allowed" THEN "human" ELSE "engine",
                             call[r].payload, "none")
         IN  Service!Judge(call[r], s) /\ call' = [call EXCEPT ![r] = s]
  BY DEF ServiceJudges
<1> DEFINE s == Service!At(stage, IF stage = "allowed" THEN "human" ELSE "engine",
                           call[r].payload, "none")
<1>2. s \in Service!States /\ s.outcome = "none"
  BY DEF Types, Service!At, Service!States
<1>3. call'[r] = s /\ call' \in [Reviews -> Service!States]
      /\ \A q \in Reviews : q # r => call'[q] = call[q]
  BY <1>1, <1>2 DEF Types
<1>4. Moved(r)
  BY <1>1, <1>3 DEF Moved, Service!Moves
<1> QED BY <1>2, <1>3, <1>4 DEF Legal, Moved

(* What a move of the contract leaves alone. *)
LEMMA LegalKeeps ==
    ASSUME Types, CallInv, Legal, NEW r \in Reviews
    PROVE  /\ Approved(r) => Approved(r)'
           /\ call[r].stage # "unasked" =>
                 call'[r].stage # "unasked" /\ call'[r].payload = call[r].payload
           /\ call'[r].stage = "unasked" => call'[r] = Service!NotSubmitted
<1>1. CASE call'[r] = call[r]
  BY <1>1 DEF CallInv, Approved
<1>2. CASE Service!Moves(call[r], call'[r])
  <2>1. CASE Service!Ask(call[r], call'[r]) \/ Service!AskAndJudge(call[r], call'[r])
    <3>1. call[r].stage = "unasked"
      BY <2>1 DEF Service!Ask, Service!AskAndJudge, Service!NotSubmitted, Service!At
    <3>2. PICK p \in Payloads, stage \in {"waiting", "allowed", "refused"}, judge \in {"none", "policy"} :
             call'[r] = Service!At(stage, judge, p, "none")
      BY <2>1 DEF Service!Ask, Service!AskAndJudge
    <3>3. call'[r].stage # "unasked"
      BY <3>2 DEF Service!At
    <3> QED BY <3>1, <3>3 DEF Approved
  <2>2. CASE Service!Judge(call[r], call'[r])
    BY <2>2 DEF Service!Judge, Service!At, Approved
  <2>3. CASE Service!Report(call[r], call'[r])
    BY <2>3 DEF Service!Report, Service!At, Approved
  <2> QED BY <1>2, <2>1, <2>2, <2>3 DEF Service!Moves
<1> QED BY <1>1, <1>2 DEF Legal, Moved
-----------------------------------------------------------------------------
(* The handlers of tool calls. *)

(* Where a handler can get to from one request to the next. *)
Places == {"capture", "sleep", "poll", "allowed", "blocked"}

LEMMA GoesEffect ==
    ASSUME Types, NEW t \in ToolCalls, NEW at \in Places, Handling(t), Goes(t, at)
    PROVE  /\ handler' \in [ToolCalls -> Handlers]
           /\ handler'[t].at = at /\ handler'[t].session = handler[t].session
           /\ \A u \in ToolCalls : u # t => handler'[u] = handler[u]
           /\ overdue' \subseteq ToolCalls
<1> DEFINE g == [handler[t] EXCEPT !.at = at]
<1>1. /\ handler' = [handler EXCEPT ![t].at = at]
      /\ overdue' \subseteq ToolCalls
  BY DEF Goes, Types
<1>2. handler[t] \in [at : HandlerStates, session : 0..MaxSessions]
                     \cup [at : HandlerStates, session : 0..MaxSessions, payload : Payloads]
  BY DEF Types, Handlers, Handling, InHand
<1>3. g \in Handlers /\ g.at = at /\ g.session = handler[t].session
  <2>1. CASE handler[t] \in [at : HandlerStates, session : 0..MaxSessions]
    BY <2>1 DEF Handlers, HandlerStates, InHand, Places
  <2>2. CASE handler[t] \in [at : HandlerStates, session : 0..MaxSessions, payload : Payloads]
    BY <2>2 DEF Handlers, HandlerStates, InHand, Places
  <2> QED BY <1>2, <2>1, <2>2
<1>4. handler' = [handler EXCEPT ![t] = g]
  BY <1>1
<1> HIDE DEF g
<1> QED BY <1>1, <1>3, <1>4 DEF Types

(* A call's answer is followed by the step that it stands for. *)
LEMMA AnswerGoes ==
    ASSUME Types, NEW t \in ToolCalls, NEW d \in {"pending", "approve", "reject"},
           Answered(t, d)
    PROVE  /\ calls' = [calls EXCEPT ![t] = d]
           /\ \E at \in Places : Goes(t, at) /\ (at = "allowed" => d = "approve")
BY DEF Answered, Waits, Fails, Places

LEMMA RegisterTypes ==
    ASSUME Types, Registers
    PROVE  joined' \in BOOLEAN
<1>1. joined' = joined \/ joined' = (joined \/ configured)
  BY DEF Registers
<1> QED BY <1>1 DEF Types

(* What a handler does at the end of a request. *)
Continues(t) ==
    /\ Handling(t) /\ ~Capturing
    /\ \E at \in Places :
          /\ Goes(t, at)
          /\ at = "allowed" => Approved(Of(t))' /\ calls'[t] = "approve"
    /\ calls' \in [ToolCalls -> {"none", "pending", "approve", "reject"}]
    /\ \A u \in ToolCalls : u # t => calls'[u] = calls[u]
    /\ Legal /\ \A q \in Reviews : call'[q].outcome = call[q].outcome
    /\ registered' \in {registered, TRUE} /\ (registered' => registered \/ configured)
    /\ joined' \in BOOLEAN
    /\ UNCHANGED <<tool, sessionVars, report, capture>>

LEMMA RequestEnds ==
    ASSUME Types, CallInv, SessionInv, NEW t \in ToolCalls,
           RegisterForCall(t) \/ Submit(t) \/ Wake(t) \/ Poll(t)
    PROVE  Continues(t)
<1>1. Legal \/ call' # call
  BY DEF Legal, Moved, Types
<1>2. CASE RegisterForCall(t)
  <2>1. /\ Handling(t) /\ ~Capturing /\ UNCHANGED <<call, tool, calls, sessionVars, report, capture>>
    BY <1>2 DEF RegisterForCall, Handling, InHand, serviceVars
  <2>2. \E at \in Places : Goes(t, at) /\ at # "allowed"
    BY <1>2 DEF RegisterForCall, Fails, Places
  <2>3. /\ registered' \in {registered, TRUE} /\ (registered' => registered \/ configured)
        /\ joined' \in BOOLEAN
    <3>1. CASE RegisterSucceeds
      BY <3>1 DEF RegisterSucceeds
    <3>2. CASE Registers /\ UNCHANGED registered
      BY <3>2, RegisterTypes DEF Types
    <3> QED BY <1>2, <3>1, <3>2 DEF RegisterForCall
  <2> QED BY <1>1, <2>1, <2>2, <2>3 DEF Continues, Types
<1>3. CASE Wake(t)
  <2>1. /\ Handling(t) /\ ~Capturing
        /\ UNCHANGED <<call, tool, calls, sessionVars, registered, report, joined, capture>>
    BY <1>3 DEF Wake, Handling, InHand, serviceVars
  <2>2. \E at \in Places : Goes(t, at) /\ at # "allowed"
    BY <1>3 DEF Wake, Places
  <2> QED BY <1>1, <2>1, <2>2 DEF Continues, Types
<1>4. CASE Poll(t)
  <2>1. /\ Handling(t) /\ ~Capturing
        /\ UNCHANGED <<call, tool, sessionVars, registered, report, joined, capture>>
    BY <1>4 DEF Poll, Handling, InHand, serviceVars
  <2>2. Decision(Of(t)) \in {"pending", "approve", "reject"}
    BY DEF Decision
  <2>3. CASE Answered(t, Decision(Of(t)))
    <3>1. PICK at \in Places : Goes(t, at) /\ (at = "allowed" => Decision(Of(t)) = "approve")
      BY <2>2, <2>3, AnswerGoes
    <3>2. calls' = [calls EXCEPT ![t] = Decision(Of(t))]
      BY <2>2, <2>3, AnswerGoes
    <3>3. /\ calls' \in [ToolCalls -> {"none", "pending", "approve", "reject"}]
          /\ calls'[t] = Decision(Of(t))
          /\ \A u \in ToolCalls : u # t => calls'[u] = calls[u]
      BY <2>2, <3>2 DEF Types
    <3>4. at = "allowed" => Approved(Of(t))'
      <4> SUFFICES ASSUME at = "allowed" PROVE Approved(Of(t))'
        OBVIOUS
      <4>1. Of(t)' = Of(t)
        BY <3>1, GoesEffect, <2>1 DEF Of
      <4>2. Approved(Of(t))
        BY <3>1 DEF Decision, Approved
      <4> QED BY <2>1, <4>1, <4>2 DEF Approved
    <3> QED BY <1>1, <2>1, <3>1, <3>3, <3>4 DEF Continues, Types
  <2>4. CASE Fails(t) /\ UNCHANGED calls
    <3>1. \E at \in Places : Goes(t, at) /\ at # "allowed"
      BY <2>4 DEF Fails, Places
    <3> QED BY <1>1, <2>1, <2>4, <3>1 DEF Continues, Types
  <2> QED BY <1>4, <2>3, <2>4 DEF Poll
<1>5. CASE Submit(t)
  <2>1. /\ handler[t].at = "submit" /\ Handling(t) /\ ~Capturing
        /\ UNCHANGED <<tool, sessionVars, registered, report, joined, capture>>
    BY <1>5 DEF Submit, Handling, InHand
  <2>2. handler[t].payload \in Payloads /\ Of(t) \in Reviews
    BY <2>1 DEF SessionInv, Of, Reviews
  <2>3. CASE Submitted(Of(t), handler[t].payload)
             /\ \E r \in {Of(t)} : Answered(t, Decision(r)')
    <3> DEFINE r == Of(t)
               d == Decision(r)'
    <3>1. /\ Legal /\ \A q \in Reviews : call'[q].outcome = call[q].outcome
      BY <2>2, <2>3, SubmitIsLegal
    <3>2. \E q \in {r} : Answered(t, Decision(q)')
      BY <2>3
    <3>3. PICK q \in {r} : Answered(t, Decision(q)')
      BY <3>2
    <3>4. Decision(q)' \in {"pending", "approve", "reject"}
      BY DEF Decision
    <3>5. PICK at \in Places : Goes(t, at) /\ (at = "allowed" => Decision(q)' = "approve")
      BY <3>3, <3>4, AnswerGoes
    <3>6. calls' = [calls EXCEPT ![t] = Decision(q)']
      BY <3>3, <3>4, AnswerGoes
    <3>7. /\ calls' \in [ToolCalls -> {"none", "pending", "approve", "reject"}]
          /\ calls'[t] = Decision(q)'
          /\ \A u \in ToolCalls : u # t => calls'[u] = calls[u]
      BY <3>4, <3>6 DEF Types
    <3>8. at = "allowed" => Approved(Of(t))'
      <4> SUFFICES ASSUME at = "allowed" PROVE Approved(Of(t))'
        OBVIOUS
      <4>1. Of(t)' = Of(t)
        BY <3>5, GoesEffect, <2>1 DEF Of
      <4>2. call'[q].stage \in {"allowed", "reported"}
        BY <3>5 DEF Decision
      <4>3. q = Of(t)
        BY <3>3
      <4> QED BY <4>1, <4>2, <4>3 DEF Approved
    <3> QED BY <2>1, <3>1, <3>5, <3>7, <3>8 DEF Continues, Types
  <2>4. CASE Submitted(Of(t), handler[t].payload) /\ Fails(t) /\ UNCHANGED calls
    <3>1. Legal /\ \A q \in Reviews : call'[q].outcome = call[q].outcome
      BY <2>2, <2>4, SubmitIsLegal
    <3>2. \E at \in Places : Goes(t, at) /\ at # "allowed"
      BY <2>4 DEF Fails, Places
    <3> QED BY <2>1, <2>4, <3>1, <3>2 DEF Continues, Types
  <2>5. CASE Fails(t) /\ UNCHANGED <<call, calls>>
    <3>1. \E at \in Places : Goes(t, at) /\ at # "allowed"
      BY <2>5 DEF Fails, Places
    <3> QED BY <1>1, <2>1, <2>5, <3>1 DEF Continues, Types
  <2> QED BY <1>5, <2>3, <2>4, <2>5 DEF Submit
<1> QED BY <1>2, <1>3, <1>4, <1>5
(* What the end of a tool and its report do.                                *)
LEMMA ToolEndEffect ==
    ASSUME Types, SessionInv, NEW t \in ToolCalls, ToolEnds(t)
    PROVE  /\ handler[t].at \in {"allowed", "blocked"}
           /\ handler' \in [ToolCalls -> Handlers]
           /\ handler'[t].at = "ended" /\ handler'[t].session = handler[t].session
           /\ handler[t].at = "blocked" => tool' = tool /\ handler'[t].outcome # "succeeded"
           /\ handler[t].at = "allowed" /\ calls[t] # "reject" =>
                 /\ tool'[t] \in {"succeeded", "failed"}
                 /\ handler'[t].outcome = "succeeded" <=> tool'[t] = "succeeded"
           /\ tool' \in [ToolCalls -> {"none", "succeeded", "failed"}]
           /\ report' \in [ToolCalls -> 0..3]
           /\ \A u \in ToolCalls : u # t =>
                 handler'[u] = handler[u] /\ tool'[u] = tool[u] /\ report'[u] = report[u]
<1>1. PICK isError \in BOOLEAN :
          /\ handler[t].at = "blocked" => isError
          /\ tool' = IF handler[t].at = "blocked" THEN tool
                     ELSE [tool EXCEPT ![t] = IF isError THEN "failed" ELSE "succeeded"]
          /\ handler' = [handler EXCEPT ![t] =
                [at |-> "ended", session |-> handler[t].session, outcome |-> Outcome(t, isError)]]
  BY DEF ToolEnds, Types
<1>2. /\ handler[t].at \in {"allowed", "blocked"}
      /\ report' = [report EXCEPT ![t] = IF calls[t] = "none" THEN 0 ELSE 3]
  BY DEF ToolEnds
<1>3. Outcome(t, isError) \in Outcomes
  BY DEF Outcome, Outcomes
<1>4. handler[t].session \in 0..MaxSessions
  BY DEF Types, Handlers
<1> DEFINE g == [at |-> "ended", session |-> handler[t].session, outcome |-> Outcome(t, isError)]
<1>5. g \in Handlers /\ g.at = "ended" /\ g.session = handler[t].session
      /\ g.outcome = Outcome(t, isError)
  BY <1>3, <1>4 DEF Handlers
<1>6. handler' = [handler EXCEPT ![t] = g]
  BY <1>1
<1> HIDE DEF g
<1>7. /\ handler' \in [ToolCalls -> Handlers] /\ handler'[t] = g
      /\ \A u \in ToolCalls : u # t => handler'[u] = handler[u]
  BY <1>5, <1>6 DEF Types
<1>8. /\ tool' \in [ToolCalls -> {"none", "succeeded", "failed"}]
      /\ \A u \in ToolCalls : u # t => tool'[u] = tool[u]
      /\ handler[t].at = "allowed" => tool'[t] = IF isError THEN "failed" ELSE "succeeded"
  BY <1>1 DEF Types
<1>9. /\ report' \in [ToolCalls -> 0..3]
      /\ \A u \in ToolCalls : u # t => report'[u] = report[u]
  BY <1>2 DEF Types
<1>10. handler[t].at = "blocked" => tool' = tool /\ handler'[t].outcome # "succeeded"
  BY <1>1, <1>5, <1>7 DEF Outcome
<1>11. handler[t].at = "allowed" /\ calls[t] # "reject" =>
         /\ tool'[t] \in {"succeeded", "failed"}
         /\ handler'[t].outcome = "succeeded" <=> tool'[t] = "succeeded"
  BY <1>5, <1>7, <1>8 DEF Outcome
<1> QED BY <1>2, <1>5, <1>7, <1>8, <1>9, <1>10, <1>11

LEMMA ReportEffect ==
    ASSUME Types, SessionInv, NEW t \in ToolCalls, handler[t].at = "ended", Report(t)
    PROVE  /\ handler[t].outcome \in Outcomes /\ Of(t) \in Reviews
           /\ Reported(Of(t), handler[t].outcome) \/ UNCHANGED call
           /\ report' \in [ToolCalls -> 0..3]
           /\ calls' \in [ToolCalls -> {"none", "pending", "approve", "reject"}]
           /\ calls'[t] \in {"none", calls[t]}
           /\ \A u \in ToolCalls : u # t => calls'[u] = calls[u] /\ report'[u] = report[u]
<1>1. handler[t] \in [at : {"ended"}, session : 0..MaxSessions, outcome : Outcomes]
  BY DEF Types, Handlers, HandlerStates, InHand
<1>2. handler[t].outcome \in Outcomes /\ Of(t) \in Reviews
  BY <1>1 DEF SessionInv, Of, Reviews, Sessions
<1>3. Reported(Of(t), handler[t].outcome) \/ UNCHANGED call
  BY DEF Report
<1>4. report' = [report EXCEPT ![t] = 0] \/ report' = [report EXCEPT ![t] = @ - 1]
  BY DEF Report
<1>5. report[t] \in 1..3
  BY DEF Report, Types
<1>6. report' \in [ToolCalls -> 0..3] /\ \A u \in ToolCalls : u # t => report'[u] = report[u]
  BY <1>4, <1>5 DEF Types
<1>7. calls' = [calls EXCEPT ![t] = IF report'[t] = 0 THEN "none" ELSE calls[t]]
  BY DEF Report, Types
<1> QED BY <1>2, <1>3, <1>6, <1>7 DEF Types

-----------------------------------------------------------------------------
(* The plugin. *)

LEMMA ReportsEffect ==
    ASSUME Types, NEW t \in ToolCalls, NEW o \in Outcomes, Reports(t, o)
    PROVE  /\ Legal
           /\ \A q \in Reviews : q # ReviewOf(t) => call'[q] = call[q]
           /\ call'[ReviewOf(t)].outcome \in {call[ReviewOf(t)].outcome, o}
           /\ promise' \in [ToolCalls -> Promises]
           /\ \A u \in ToolCalls : /\ promise'[u].child = promise[u].child
                                   /\ promise'[u].payload = promise[u].payload
<1>1. ReviewOf(t) \in Reviews
  BY AgentAssumption DEF ReviewOf, Reviews, Sessions
<1>2. Reported(ReviewOf(t), o) \/ UNCHANGED call
  BY DEF Reports
<1>3. promise' = promise \/ promise' = [promise EXCEPT ![t].reported = TRUE]
  BY DEF Reports
<1>4. /\ promise' \in [ToolCalls -> Promises]
      /\ \A u \in ToolCalls : /\ promise'[u].child = promise[u].child
                              /\ promise'[u].payload = promise[u].payload
  <2>1. CASE promise' = promise
    BY <2>1 DEF Types
  <2>2. CASE promise' = [promise EXCEPT ![t].reported = TRUE]
    <3> DEFINE p == [promise[t] EXCEPT !.reported = TRUE]
    <3>1. p \in Promises /\ p.child = promise[t].child /\ p.payload = promise[t].payload
      BY DEF Types, Promises
    <3>2. promise' = [promise EXCEPT ![t] = p]
      BY <2>2
    <3> HIDE DEF p
    <3> QED BY <3>1, <3>2 DEF Types
  <2> QED BY <1>3, <2>1, <2>2
<1>5. CASE UNCHANGED call
  BY <1>1, <1>4, <1>5 DEF Legal, Moved, Types
<1>6. CASE Reported(ReviewOf(t), o)
  BY <1>1, <1>4, <1>6, ReportIsLegal
<1> QED BY <1>2, <1>5, <1>6

(* A step of the plugin, one call at a time, beside what it does to the      *)
(* service: `Child` tells what its child does, `Hook` where the Agent gets.  *)
LEMMA ChildEffect ==
    ASSUME Types, NEW t \in ToolCalls, NEW state \in {"started", "asked", "approved", "failed"},
           ChildIs(t, state)
    PROVE  /\ promise' \in [ToolCalls -> Promises]
           /\ promise'[t].child = state /\ promise'[t].payload = promise[t].payload
           /\ \A u \in ToolCalls : u # t => promise'[u] = promise[u]
BY DEF ChildIs, Types, Promises, Settled

LEMMA MovesEffect ==
    ASSUME Types, NEW t \in ToolCalls, NEW where \in {"await", "threw", "blocked", "done"},
           Moves(t, where)
    PROVE  /\ step' \in [ToolCalls -> Steps]
           /\ step'[t].where = where /\ step'[t].args = step[t].args /\ step'[t].hook = step[t].hook
           /\ step'[t].exit = step[t].exit
           /\ \A u \in ToolCalls : u # t => step'[u] = step[u]
BY DEF Moves, Types, Steps
-----------------------------------------------------------------------------
(* Every step is legal for the service and keeps the kinds. *)

PiKinds ==
    /\ session \in 0..MaxSessions
    /\ live \in BOOLEAN /\ configured \in BOOLEAN /\ registered \in BOOLEAN
    /\ joining \in BOOLEAN /\ joined \in BOOLEAN
    /\ calls \in [ToolCalls -> {"none", "pending", "approve", "reject"}]
    /\ handler \in [ToolCalls -> Handlers]
    /\ report \in [ToolCalls -> 0..3]
    /\ overdue \subseteq ToolCalls

PluginKinds == step \in [ToolCalls -> Steps] /\ promise \in [ToolCalls -> Promises]

(* What no step of a session, of the heartbeat or of a capture touches.      *)
Aside ==
    /\ UNCHANGED <<call, tool, handler, report, pending>>

LEMMA PiQuietStep ==
    ASSUME Types, SessionInv,
           \/ StartEnds \/ ServiceForgets \/ Beat \/ CaptureGoesOn
           \/ \E t \in ToolCalls : Capture(t) \/ DeadlinePasses(t)
    PROVE  /\ Aside /\ PiKinds'
           /\ UNCHANGED <<session, live, configured, calls>>
           /\ joining' => joining
           /\ registered' => registered \/ (configured /\ live)
<1>1. CASE StartEnds
  <2>1. joined' \in BOOLEAN
    BY <1>1, RegisterTypes DEF StartEnds, RegisterSucceeds
  <2>2. joining /\ joining' = FALSE /\ (registered' = registered \/ (registered' = TRUE /\ configured))
    BY <1>1 DEF StartEnds, RegisterSucceeds
  <2>3. /\ registered' \in BOOLEAN /\ joining' \in BOOLEAN /\ live
        /\ registered' => registered \/ (configured /\ live)
        /\ joining' => joining
    <3>1. live /\ joining' = FALSE /\ joining
      BY <2>2 DEF SessionInv
    <3>2. CASE registered' = registered
      BY <3>1, <3>2 DEF Types
    <3>3. CASE registered' = TRUE /\ configured
      BY <3>1, <3>3
    <3> QED BY <2>2, <3>2, <3>3
  <2>4. UNCHANGED <<call, tool, session, live, configured, calls, pending, handler, report, overdue>>
    BY <1>1 DEF StartEnds, serviceVars
  <2> QED BY <2>1, <2>3, <2>4 DEF Types, PiKinds, Aside
<1>2. CASE ServiceForgets
  BY <1>2 DEF ServiceForgets, Types, PiKinds, Aside, serviceVars
<1>3. CASE Beat
  <2>1. joined' \in BOOLEAN
    BY <1>3, RegisterTypes DEF Beat, RegisterSucceeds, Types
  <2>2. live /\ (registered' = registered \/ ~registered' \/ (registered' = TRUE /\ configured))
        /\ registered' \in BOOLEAN
    BY <1>3 DEF Beat, RegisterSucceeds, Types
  <2> QED BY <1>3, <2>1, <2>2 DEF Beat, Types, PiKinds, Aside, serviceVars
<1>4. CASE CaptureGoesOn
  BY <1>4 DEF CaptureGoesOn, Types, PiKinds, Aside, serviceVars, sessionVars
<1>5. ASSUME NEW t \in ToolCalls, Capture(t)
      PROVE  /\ Aside /\ PiKinds'
             /\ UNCHANGED <<session, live, configured, calls>>
             /\ joining' => joining
             /\ registered' => registered \/ (configured /\ live)
  BY <1>5 DEF Capture, Types, PiKinds, Aside, serviceVars, sessionVars
<1>6. ASSUME NEW t \in ToolCalls, DeadlinePasses(t)
      PROVE  /\ Aside /\ PiKinds'
             /\ UNCHANGED <<session, live, configured, calls>>
             /\ joining' => joining
             /\ registered' => registered \/ (configured /\ live)
  BY <1>6 DEF DeadlinePasses, Types, PiKinds, Aside, serviceVars, sessionVars
<1> QED BY <1>1, <1>2, <1>3, <1>4, <1>5, <1>6

(* The counter goes with the handlers. *)
LEMMA CountsIn ==
    ASSUME pending = Cardinality(CallsInHand), NEW t \in ToolCalls, NEW S \in SUBSET ToolCalls
    PROVE  /\ pending \in Nat
           /\ S = CallsInHand \cup {t} /\ ~Handling(t) => Cardinality(S) = pending + 1
           /\ S = CallsInHand \ {t} /\ Handling(t) => Cardinality(S) = pending - 1
<1>1. IsFiniteSet(CallsInHand)
  BY AgentAssumption, FS_Subset DEF CallsInHand
<1>2. t \in CallsInHand <=> Handling(t)
  BY DEF CallsInHand
<1> QED BY <1>1, <1>2, FS_CardinalityType, FS_AddElement, FS_RemoveElement

LEMMA ContinuesSession ==
    ASSUME Types, SessionInv, NEW t \in ToolCalls, Continues(t)
    PROVE  PiKinds' /\ SessionInv'
<1>1. PICK at \in Places : Goes(t, at)
  BY DEF Continues
<1>2. /\ handler' \in [ToolCalls -> Handlers]
      /\ handler'[t].at = at /\ handler'[t].session = handler[t].session
      /\ \A u \in ToolCalls : u # t => handler'[u] = handler[u]
      /\ overdue' \subseteq ToolCalls
  BY <1>1, GoesEffect DEF Continues
<1>3. /\ UNCHANGED <<session, live, configured, joining, report>>
      /\ registered' \in BOOLEAN /\ (registered' => registered \/ configured)
      /\ joined' \in BOOLEAN /\ calls' \in [ToolCalls -> {"none", "pending", "approve", "reject"}]
      /\ Handling(t)
  BY DEF Continues, sessionVars, Types
<1>4. PiKinds'
  BY <1>2, <1>3 DEF PiKinds, Types
<1>5. live /\ handler[t].session = session /\ session > 0
  BY <1>3 DEF SessionInv, Handling, InHand
<1>6. pending' = Cardinality(CallsInHand')
  <2>1. Handling(t)' <=> at \in InHand
    BY <1>2 DEF Handling
  <2>2. \A u \in ToolCalls : u # t => (Handling(u)' <=> Handling(u))
    BY <1>2 DEF Handling
  <2>3. CallsInHand' = IF at \in InHand THEN CallsInHand ELSE CallsInHand \ {t}
    BY <1>3, <2>1, <2>2 DEF CallsInHand
  <2>4. pending' = IF at \in InHand THEN pending ELSE pending - 1
    BY <1>1 DEF Goes
  <2>5. CallsInHand' \in SUBSET ToolCalls
    BY DEF CallsInHand
  <2>6. pending = Cardinality(CallsInHand)
    BY DEF SessionInv
  <2>7. CASE at \in InHand
    BY <2>3, <2>4, <2>6, <2>7
  <2>8. CASE at \notin InHand
    BY <1>3, <2>3, <2>4, <2>5, <2>6, <2>8, CountsIn
  <2> QED BY <2>7, <2>8
<1>7. \A u \in ToolCalls :
          /\ handler'[u].session <= session'
          /\ handler'[u].at = "off" => handler'[u] = Off
          /\ handler'[u].at # "off" => handler'[u].session > 0
          /\ Handling(u)' => handler'[u].session = session' /\ live'
          /\ handler'[u].at = "submit" =>
                handler'[u] \in [at : {"submit"}, session : Sessions, payload : Payloads]
  BY <1>2, <1>3, <1>5 DEF SessionInv, Places, Handling, Types
<1> QED BY <1>3, <1>4, <1>5, <1>6, <1>7 DEF SessionInv
(* Handlers that stay as they are, or change from one place where a call is  *)
(* in hand, or is not, to another.                                          *)
LEMMA SameCount ==
    ASSUME SessionInv, pending' = pending,
           \A t \in ToolCalls : Handling(t)' <=> Handling(t)
    PROVE  pending' = Cardinality(CallsInHand')
<1>1. CallsInHand' = CallsInHand
  BY DEF CallsInHand
<1> QED BY <1>1 DEF SessionInv

LEMMA QuietSession ==
    ASSUME SessionInv, Types, Aside, UNCHANGED <<session, live, configured>>,
           joining' => joining, registered' => registered \/ (configured /\ live)
    PROVE  SessionInv'
<1>1. \A t \in ToolCalls : Handling(t)' <=> Handling(t)
  BY DEF Aside, Handling
<1>2. pending' = Cardinality(CallsInHand')
  BY <1>1, SameCount DEF Aside
<1> QED BY <1>1, <1>2 DEF SessionInv, Aside

LEMMA StartSession ==
    ASSUME Types, SessionInv, SessionStart
    PROVE  PiKinds' /\ SessionInv' /\ UNCHANGED <<call, tool, handler, report>>
           /\ calls' = [t \in ToolCalls |-> "none"]
<1>1. /\ session' = session + 1 /\ session < MaxSessions /\ live' = TRUE /\ registered' = FALSE
      /\ pending' = 0 /\ joining' = TRUE /\ joined' = FALSE
      /\ calls' = [t \in ToolCalls |-> "none"] /\ configured' \in BOOLEAN
      /\ UNCHANGED <<call, tool, handler, report, overdue>>
  BY DEF SessionStart, serviceVars
<1>2. \A t \in ToolCalls : ~Handling(t)
  BY DEF SessionStart, SessionInv, Handling, InHand, Types
<1>3. CallsInHand' = {}
  BY <1>1, <1>2 DEF CallsInHand, Handling
<1>4. pending' = Cardinality(CallsInHand')
  BY <1>1, <1>3, FS_EmptySet
<1>5. PiKinds'
  <2>1. session' \in 0..MaxSessions
    BY <1>1, AgentAssumption DEF Types
  <2>2. calls' \in [ToolCalls -> {"none", "pending", "approve", "reject"}]
    BY <1>1
  <2>3. /\ live' \in BOOLEAN /\ configured' \in BOOLEAN /\ registered' \in BOOLEAN
        /\ joining' \in BOOLEAN /\ joined' \in BOOLEAN
    BY <1>1, Zenon
  <2>4. handler' \in [ToolCalls -> Handlers] /\ report' \in [ToolCalls -> 0..3]
        /\ overdue' \subseteq ToolCalls
    BY <1>1 DEF Types
  <2> QED BY <2>1, <2>2, <2>3, <2>4 DEF PiKinds
<1>6. \A t \in ToolCalls :
          /\ handler'[t].session <= session'
          /\ handler'[t].at = "off" => handler'[t] = Off
          /\ handler'[t].at # "off" => handler'[t].session > 0
          /\ ~Handling(t)'
          /\ handler'[t].at # "submit"
  <2> SUFFICES ASSUME NEW t \in ToolCalls
               PROVE  /\ handler'[t].session <= session'
                      /\ handler'[t].at = "off" => handler'[t] = Off
                      /\ handler'[t].at # "off" => handler'[t].session > 0
                      /\ ~Handling(t)'
                      /\ handler'[t].at # "submit"
    OBVIOUS
  <2>1. handler[t].session \in 0..MaxSessions
    BY DEF Types, Handlers
  <2> QED BY <1>1, <1>2, <2>1 DEF SessionInv, Types, Handling, InHand
<1> QED BY <1>1, <1>4, <1>5, <1>6 DEF SessionInv

LEMMA ShutdownSession ==
    ASSUME Types, SessionInv, SessionShutdown
    PROVE  /\ PiKinds' /\ SessionInv' /\ UNCHANGED <<call, tool, capture>> /\ ~Capturing
           /\ calls' = [t \in ToolCalls |-> "none"] /\ report' = [t \in ToolCalls |-> 0]
           /\ \A t \in ToolCalls :
                 IF Handling(t) THEN handler'[t].at = "blocked" ELSE handler'[t] = handler[t]
<1>1. /\ live' = FALSE /\ registered' = FALSE /\ ~Capturing
      /\ calls' = [t \in ToolCalls |-> "none"] /\ report' = [t \in ToolCalls |-> 0]
      /\ overdue' = {} /\ joined' \in BOOLEAN /\ ~joining
      /\ UNCHANGED <<call, tool, session, configured, joining, capture>>
  BY DEF SessionShutdown, serviceVars, Types
<1>2. \A t \in ToolCalls :
          handler'[t] = IF Handling(t) THEN [handler[t] EXCEPT !.at = "blocked"] ELSE handler[t]
  BY DEF SessionShutdown
<1>3. ASSUME NEW t \in ToolCalls, Handling(t)
      PROVE  /\ handler'[t] \in Handlers
             /\ handler'[t].at = "blocked" /\ handler'[t].session = handler[t].session
  <2>1. handler[t] \in [at : HandlerStates, session : 0..MaxSessions]
                       \cup [at : HandlerStates, session : 0..MaxSessions, payload : Payloads]
    BY <1>3 DEF Types, Handlers, Handling, InHand
  <2>2. handler'[t] = [handler[t] EXCEPT !.at = "blocked"]
    BY <1>2, <1>3
  <2>3. CASE handler[t] \in [at : HandlerStates, session : 0..MaxSessions]
    BY <2>2, <2>3 DEF Handlers, HandlerStates
  <2>4. CASE handler[t] \in [at : HandlerStates, session : 0..MaxSessions, payload : Payloads]
    BY <2>2, <2>4 DEF Handlers, HandlerStates
  <2> QED BY <2>1, <2>3, <2>4
<1>4. handler' \in [ToolCalls -> Handlers]
  <2>1. \A t \in ToolCalls : handler'[t] \in Handlers
    BY <1>2, <1>3 DEF Types
  <2>2. handler' = [t \in ToolCalls |-> handler'[t]]
    BY DEF SessionShutdown
  <2> QED BY <2>1, <2>2
<1>5. PiKinds'
  <2>1. calls' \in [ToolCalls -> {"none", "pending", "approve", "reject"}]
        /\ report' \in [ToolCalls -> 0..3]
    BY <1>1
  <2>2. /\ live' \in BOOLEAN /\ configured' \in BOOLEAN /\ registered' \in BOOLEAN
        /\ joining' \in BOOLEAN /\ session' \in 0..MaxSessions
    BY <1>1 DEF Types
  <2> QED BY <1>1, <1>4, <2>1, <2>2 DEF PiKinds
<1>6. \A t \in ToolCalls : ~Handling(t)'
  BY <1>2, <1>3 DEF Handling, InHand
<1>7. CallsInHand' = {}
  BY <1>6 DEF CallsInHand
<1>8. pending' = Cardinality(CallsInHand')
  <2>1. pending' = pending - Cardinality(CallsInHand)
    BY DEF SessionShutdown, CallsInHand
  <2>2. pending = Cardinality(CallsInHand) /\ pending \in Nat
    BY AgentAssumption, FS_Subset, FS_CardinalityType DEF SessionInv, CallsInHand
  <2> QED BY <1>7, <2>1, <2>2, FS_EmptySet
<1>9. \A t \in ToolCalls :
          /\ handler'[t].session <= session'
          /\ handler'[t].at = "off" => handler'[t] = Off
          /\ handler'[t].at # "off" => handler'[t].session > 0
          /\ handler'[t].at # "submit"
  <2> SUFFICES ASSUME NEW t \in ToolCalls
               PROVE  /\ handler'[t].session <= session'
                      /\ handler'[t].at = "off" => handler'[t] = Off
                      /\ handler'[t].at # "off" => handler'[t].session > 0
                      /\ handler'[t].at # "submit"
    OBVIOUS
  <2>1. CASE Handling(t)
    BY <1>1, <1>3, <2>1 DEF SessionInv, Handling, InHand
  <2>2. CASE ~Handling(t)
    BY <1>1, <1>2, <2>2 DEF SessionInv, Handling, InHand
  <2> QED BY <2>1, <2>2
<1>10. SessionInv'
  BY <1>1, <1>6, <1>8, <1>9 DEF SessionInv
<1> QED BY <1>1, <1>2, <1>3, <1>5, <1>10

LEMMA CallSession ==
    ASSUME Types, SessionInv, NEW t \in ToolCalls, ToolCall(t)
    PROVE  /\ PiKinds' /\ SessionInv' /\ UNCHANGED <<call, tool, calls, report, capture>>
           /\ ~Capturing /\ handler[t].at = "off" /\ handler'[t].at \in {"register", "capture"}
           /\ \A u \in ToolCalls : u # t => handler'[u] = handler[u]
<1> DEFINE g == [at |-> IF registered THEN "capture" ELSE "register", session |-> session]
<1>1. /\ session > 0 /\ live /\ ~Capturing /\ handler[t] = Off
      /\ handler' = [handler EXCEPT ![t] = g] /\ pending' = pending + 1
      /\ UNCHANGED <<call, tool, session, live, configured, joining, registered, calls, report,
                     joined, overdue, capture>>
  BY DEF ToolCall, serviceVars, sessionVars
<1>2. g \in Handlers /\ g.at \in {"register", "capture"} /\ g.session = session
  BY DEF Handlers, HandlerStates, InHand, Types
<1> HIDE DEF g
<1>3. /\ handler' \in [ToolCalls -> Handlers] /\ handler'[t] = g
      /\ \A u \in ToolCalls : u # t => handler'[u] = handler[u]
  BY <1>1, <1>2 DEF Types
<1>4. PiKinds'
  BY <1>1, <1>3 DEF PiKinds, Types
<1>5. pending' = Cardinality(CallsInHand')
  <2>1. ~Handling(t) /\ Handling(t)'
    BY <1>1, <1>2, <1>3 DEF Handling, InHand, Off
  <2>2. \A u \in ToolCalls : u # t => (Handling(u)' <=> Handling(u))
    BY <1>3 DEF Handling
  <2>3. CallsInHand' = CallsInHand \cup {t} /\ CallsInHand' \in SUBSET ToolCalls
    BY <2>1, <2>2 DEF CallsInHand
  <2> QED BY <1>1, <2>1, <2>3, CountsIn DEF SessionInv
<1>6. \A u \in ToolCalls :
          /\ handler'[u].session <= session'
          /\ handler'[u].at = "off" => handler'[u] = Off
          /\ handler'[u].at # "off" => handler'[u].session > 0
          /\ Handling(u)' => handler'[u].session = session' /\ live'
          /\ handler'[u].at = "submit" =>
                handler'[u] \in [at : {"submit"}, session : Sessions, payload : Payloads]
  BY <1>1, <1>2, <1>3 DEF SessionInv, Handling, Types
<1>7. handler[t].at = "off"
  BY <1>1 DEF Off
<1> QED BY <1>1, <1>2, <1>3, <1>4, <1>5, <1>6, <1>7 DEF SessionInv

LEMMA CaptureEndsSession ==
    ASSUME Types, SessionInv, CaptureInv, NEW t \in ToolCalls, CaptureEnds(t)
    PROVE  /\ PiKinds' /\ SessionInv' /\ UNCHANGED <<call, tool, calls, report>>
           /\ handler[t].at = "capture" /\ handler'[t].at = "submit"
           /\ \A u \in ToolCalls : u # t => handler'[u] = handler[u]
<1> DEFINE g == [at |-> "submit", session |-> handler[t].session,
                 payload |-> IF Status = "incomplete" THEN "partial" ELSE "whole"]
<1>1. /\ capture.of = {t} /\ handler' = [handler EXCEPT ![t] = g]
      /\ UNCHANGED <<call, tool, session, live, configured, joining, registered, calls, pending,
                     report, joined, overdue>>
  BY DEF CaptureEnds, serviceVars, sessionVars
<1>2. handler[t].at = "capture"
  <2>1. PICK u \in ToolCalls : capture.of = {u} /\ handler[u].at = "capture"
    BY <1>1 DEF CaptureInv, Capturing
  <2> QED BY <1>1, <2>1
<1>3. Handling(t) /\ handler[t].session = session /\ live /\ session > 0
  BY <1>2 DEF SessionInv, Handling, InHand
<1>4. g \in [at : {"submit"}, session : Sessions, payload : Payloads] /\ g \in Handlers
      /\ g.at = "submit" /\ g.session = session
  <2>1. session \in Sessions /\ session \in 0..MaxSessions
    BY <1>3, AgentAssumption DEF Types, Sessions
  <2> QED BY <1>3, <2>1, AgentAssumption DEF Handlers, HandlerStates, InHand
<1> HIDE DEF g
<1>5. /\ handler' \in [ToolCalls -> Handlers] /\ handler'[t] = g
      /\ \A u \in ToolCalls : u # t => handler'[u] = handler[u]
  BY <1>1, <1>4 DEF Types
<1>6. PiKinds'
  BY <1>1, <1>5 DEF PiKinds, Types
<1>7. \A u \in ToolCalls : Handling(u)' <=> Handling(u)
  BY <1>3, <1>4, <1>5 DEF Handling, InHand
<1>8. pending' = Cardinality(CallsInHand')
  BY <1>1, <1>7, SameCount
<1>9. \A u \in ToolCalls :
          /\ handler'[u].session <= session'
          /\ handler'[u].at = "off" => handler'[u] = Off
          /\ handler'[u].at # "off" => handler'[u].session > 0
          /\ Handling(u)' => handler'[u].session = session' /\ live'
          /\ handler'[u].at = "submit" =>
                handler'[u] \in [at : {"submit"}, session : Sessions, payload : Payloads]
  BY <1>1, <1>3, <1>4, <1>5 DEF SessionInv, Handling, Types
<1> QED BY <1>1, <1>2, <1>4, <1>5, <1>6, <1>8, <1>9 DEF SessionInv

LEMMA EndSession ==
    ASSUME Types, SessionInv, NEW t \in ToolCalls, ToolEnds(t)
    PROVE  PiKinds' /\ SessionInv'
<1>1. /\ handler[t].at \in {"allowed", "blocked"} /\ handler' \in [ToolCalls -> Handlers]
      /\ handler'[t].at = "ended" /\ handler'[t].session = handler[t].session
      /\ report' \in [ToolCalls -> 0..3]
      /\ \A u \in ToolCalls : u # t => handler'[u] = handler[u]
  BY ToolEndEffect
<1>2. UNCHANGED <<session, live, configured, joining, registered, calls, pending, joined, overdue>>
  BY DEF ToolEnds, sessionVars
<1>3. \A u \in ToolCalls : Handling(u)' <=> Handling(u)
  BY <1>1 DEF Handling, InHand
<1>4. pending' = Cardinality(CallsInHand')
  BY <1>2, <1>3, SameCount
<1>5. \A u \in ToolCalls :
          /\ handler'[u].session <= session'
          /\ handler'[u].at = "off" => handler'[u] = Off
          /\ handler'[u].at # "off" => handler'[u].session > 0
          /\ Handling(u)' => handler'[u].session = session' /\ live'
          /\ handler'[u].at = "submit" =>
                handler'[u] \in [at : {"submit"}, session : Sessions, payload : Payloads]
  BY <1>1, <1>2, <1>3 DEF SessionInv, Handling, InHand
<1> QED BY <1>1, <1>2, <1>4, <1>5 DEF SessionInv, PiKinds, Types

LEMMA ReportSession ==
    ASSUME Types, SessionInv, NEW t \in ToolCalls, handler[t].at = "ended", Report(t)
    PROVE  PiKinds' /\ SessionInv' /\ Legal
<1>1. UNCHANGED <<session, live, configured, joining, registered, pending, handler, joined, overdue>>
  BY DEF Report, sessionVars
<1>2. \A u \in ToolCalls : Handling(u)' <=> Handling(u)
  BY <1>1 DEF Handling
<1>3. pending' = Cardinality(CallsInHand')
  BY <1>1, <1>2, SameCount
<1>4. Legal
  BY ReportEffect, ReportIsLegal DEF Legal, Moved, Types
<1> QED BY <1>1, <1>2, <1>3, <1>4, ReportEffect DEF SessionInv, PiKinds, Types

-----------------------------------------------------------------------------
(* The plugin's invariants.  A call whose step and promise stay is as well   *)
(* off as before, whatever the service does.                                *)
LEMMA HooksKeep ==
    ASSUME Types, CallInv, Legal, NEW t \in ToolCalls, PromiseInv(t), HooksRun(t),
           step'[t] = step[t], promise'[t].child = promise[t].child,
           promise'[t].payload = promise[t].payload
    PROVE  PromiseInv(t)' /\ HooksRun(t)'
<1>1. ReviewOf(t) \in Reviews /\ ReviewOf(t)' = ReviewOf(t)
  BY AgentAssumption DEF ReviewOf, Reviews, Sessions
<1>2. /\ Approved(ReviewOf(t)) => Approved(ReviewOf(t))'
      /\ call[ReviewOf(t)].stage # "unasked" =>
            /\ call'[ReviewOf(t)].stage # "unasked"
            /\ call'[ReviewOf(t)].payload = call[ReviewOf(t)].payload
  BY <1>1, LegalKeeps
<1>3. Approved(ReviewOf(t)) => call[ReviewOf(t)].stage # "unasked"
  BY DEF Approved
<1> QED BY <1>1, <1>2, <1>3 DEF PromiseInv, HooksRun

(* A step of the Agent, of a hook or of a child is that of one call, and is  *)
(* as it should be for that call.                                           *)
SameOutcomes(t) == \A s \in Sessions : call'[<<s, t>>].outcome = call[<<s, t>>].outcome

HookStep(t) ==
    /\ PluginKinds' /\ Legal /\ tool' \in [ToolCalls -> {"none", "succeeded", "failed"}]
    /\ \A u \in ToolCalls : u # t =>
          /\ step'[u] = step[u] /\ promise'[u].child = promise[u].child
          /\ promise'[u].payload = promise[u].payload
          /\ tool'[u] = tool[u] /\ SameOutcomes(u)
    /\ PromiseInv(t)' /\ HooksRun(t)' /\ OutcomesOf(t)' /\ HookResult(t)'

LEMMA QuietService ==
    ASSUME Types, UNCHANGED call
    PROVE  Legal /\ \A t \in ToolCalls : SameOutcomes(t)
BY DEF Types, Legal, Moved, SameOutcomes

LEMMA OutcomesStay ==
    ASSUME Types, NEW t \in ToolCalls, SameOutcomes(t), tool'[t] = tool[t], OutcomesOf(t),
           step'[t].exit = step[t].exit
    PROVE  OutcomesOf(t)'
BY DEF OutcomesOf, SameOutcomes, WithoutExitCode

LEMMA UnreportedIsTrue ==
    ASSUME NEW t \in ToolCalls, Unreported(t)'
    PROVE  OutcomesOf(t)'
BY DEF OutcomesOf, Unreported

LEMMA UnreportedStays ==
    ASSUME NEW t \in ToolCalls, SameOutcomes(t), Unreported(t)
    PROVE  Unreported(t)'
BY DEF Unreported, SameOutcomes

LEMMA AgentSteps ==
    ASSUME AdapterInv, agent = "opencode", UNCHANGED agent, NEW t \in ToolCalls,
           AgentAsks(t) \/ ArgumentsChange(t) \/ AgentRuns(t) \/ ToolThrows(t)
    PROVE  HookStep(t)
<1>1. UNCHANGED <<call, promise>>
  BY DEF AgentAsks, ArgumentsChange, AgentRuns, ToolThrows
<1>2. Legal /\ \A u \in ToolCalls : SameOutcomes(u)
  BY <1>1, QuietService DEF AdapterInv
<1>3. ReviewOf(t)' = ReviewOf(t) /\ Types
  BY DEF ReviewOf, AdapterInv
<1>4. PromiseInv(t) /\ HookResult(t) /\ HooksRun(t) /\ OutcomesOf(t)
  BY DEF AdapterInv
<1>5. Unreported(t) => Unreported(t)'
  BY <1>2, UnreportedStays
<1>6. step[t] \in Steps
  BY <1>3 DEF Types
<1>7. CASE AgentAsks(t)
  <2> DEFINE g == At("before", 0, "whole", "none")
  <2>1. step' = [step EXCEPT ![t] = g] /\ tool' = tool /\ step[t].where = "off"
    BY <1>7 DEF AgentAsks
  <2>2. g \in Steps /\ g.where = "before" /\ g.hook = 0 /\ g.args = "whole"
    BY AgentAssumption, ScopeAssumption DEF At, Steps
  <2> HIDE DEF g
  <2>3. /\ step' \in [ToolCalls -> Steps] /\ step'[t] = g
        /\ \A u \in ToolCalls : u # t => step'[u] = step[u]
    BY <1>3, <2>1, <2>2 DEF Types
  <2>4. PromiseInv(t)' /\ HooksRun(t)'
    BY <1>1, <1>3, <1>4, <2>2, <2>3, AgentAssumption, ScopeAssumption DEF PromiseInv, HooksRun, Approved
  <2>5. HookResult(t)' /\ OutcomesOf(t)'
    BY <1>2, <1>3, <1>4, <1>5, <2>1, <2>2, <2>3, UnreportedIsTrue DEF HookResult
  <2> QED BY <1>1, <1>2, <1>3, <2>1, <2>3, <2>4, <2>5 DEF HookStep, PluginKinds, Types
<1>8. CASE ArgumentsChange(t)
  <2> DEFINE g == [step[t] EXCEPT !.args = "changed"]
  <2>1. step' = [step EXCEPT ![t] = g] /\ tool' = tool /\ step[t].where = "before"
    BY <1>8 DEF ArgumentsChange
  <2>2. g \in Steps /\ g.where = "before" /\ g.hook = step[t].hook /\ g.args = "changed"
    BY <1>6, <2>1, AgentAssumption DEF Steps
  <2> HIDE DEF g
  <2>3. /\ step' \in [ToolCalls -> Steps] /\ step'[t] = g
        /\ \A u \in ToolCalls : u # t => step'[u] = step[u]
    BY <1>3, <2>1, <2>2 DEF Types
  <2>4. PromiseInv(t)' /\ HooksRun(t)'
    BY <1>1, <1>3, <1>4, <2>1, <2>2, <2>3, AgentAssumption DEF PromiseInv, HooksRun, Approved
  <2>5. HookResult(t)' /\ OutcomesOf(t)'
    BY <1>2, <1>3, <1>4, <1>5, <2>1, <2>2, <2>3, UnreportedIsTrue DEF HookResult
  <2> QED BY <1>1, <1>2, <1>3, <2>1, <2>3, <2>4, <2>5 DEF HookStep, PluginKinds, Types
<1>9. CASE AgentRuns(t)
  <2>2. PICK exit \in ExitCodes, outcome \in {"succeeded", "failed"} :
           /\ exit # "missing" => (outcome = "succeeded" <=> exit = "zero")
           /\ tool' = [tool EXCEPT ![t] = outcome]
           /\ step' = [step EXCEPT ![t] = At("after", 0, step[t].args, exit)]
    BY <1>9 DEF AgentRuns
  <2> DEFINE g == At("after", 0, step[t].args, exit)
  <2>1. step' = [step EXCEPT ![t] = g] /\ step[t].where = "run"
    BY <1>9, <2>2 DEF AgentRuns
  <2>3. g \in Steps /\ g.where = "after" /\ g.hook = 0 /\ g.args = step[t].args /\ g.exit = exit
    BY <1>6, ScopeAssumption DEF At, Steps
  <2> HIDE DEF g
  <2>4. /\ step' \in [ToolCalls -> Steps] /\ step'[t] = g
        /\ \A u \in ToolCalls : u # t => step'[u] = step[u]
    BY <1>3, <2>1, <2>3 DEF Types
  <2>5. /\ tool' \in [ToolCalls -> {"none", "succeeded", "failed"}] /\ tool'[t] = outcome
        /\ \A u \in ToolCalls : u # t => tool'[u] = tool[u]
    BY <1>3, <2>2 DEF Types
  <2>6. PromiseInv(t)' /\ HooksRun(t)'
    BY <1>1, <1>3, <1>4, <2>1, <2>3, <2>4, ScopeAssumption DEF PromiseInv, HooksRun, Approved
  <2>7. Unreported(t)' /\ OutcomesOf(t)'
    BY <1>4, <1>5, <2>1, UnreportedIsTrue DEF HookResult
  <2>8. HookResult(t)'
    BY <2>2, <2>3, <2>4, <2>5 DEF HookResult, ExitCodes
  <2> QED BY <1>1, <1>2, <1>3, <2>4, <2>5, <2>6, <2>7, <2>8 DEF HookStep, PluginKinds, Types
<1>10. CASE ToolThrows(t)
  <2>1. Moves(t, "threw") /\ step[t].where = "run" /\ tool' = [tool EXCEPT ![t] = "failed"]
    BY <1>10 DEF ToolThrows
  <2>2. /\ step' \in [ToolCalls -> Steps]
        /\ step'[t].where = "threw" /\ step'[t].args = step[t].args
        /\ \A u \in ToolCalls : u # t => step'[u] = step[u]
    BY <1>3, <2>1, MovesEffect
  <2>3. /\ tool' \in [ToolCalls -> {"none", "succeeded", "failed"}] /\ tool'[t] = "failed"
        /\ \A u \in ToolCalls : u # t => tool'[u] = tool[u]
    BY <1>3, <2>1 DEF Types
  <2>4. PromiseInv(t)' /\ HooksRun(t)'
    BY <1>1, <1>3, <1>4, <2>1, <2>2 DEF PromiseInv, HooksRun, Approved
  <2>5. OutcomesOf(t)'
    BY <1>4, <1>5, <2>1, UnreportedIsTrue DEF HookResult
  <2>6. HookResult(t)'
    BY <2>2, <2>3 DEF HookResult
  <2> QED BY <1>1, <1>2, <1>3, <2>2, <2>3, <2>4, <2>5, <2>6 DEF HookStep, PluginKinds, Types
<1> QED BY <1>7, <1>8, <1>9, <1>10

LEMMA ChildrenStep ==
    ASSUME AdapterInv, UNCHANGED agent, NEW t \in ToolCalls, ChildSteps(t)
    PROVE  HookStep(t)
<1>1. UNCHANGED <<step, tool>>
  BY DEF ChildSteps, Spawn, ChildAsks, ChildAnswers, ChildFails
<1>2. ReviewOf(t)' = ReviewOf(t) /\ Types /\ CallInv /\ ReviewOf(t) \in Reviews
  BY AgentAssumption DEF ReviewOf, AdapterInv, Reviews, Sessions
<1>3. PromiseInv(t) /\ HookResult(t) /\ HooksRun(t) /\ OutcomesOf(t)
  BY DEF AdapterInv
<1>4. PICK state \in {"started", "asked", "approved", "failed"} :
         /\ ChildIs(t, state) /\ promise[t].child \in {"reading", "started", "asked"}
         /\ \/ state \in {"started", "failed"} /\ UNCHANGED call
            \/ state = "asked" /\ Submitted(ReviewOf(t), promise[t].payload)
            \/ /\ state = "approved" /\ UNCHANGED call /\ promise[t].child = "asked"
               /\ call[ReviewOf(t)].stage = "allowed"
  BY DEF ChildSteps, Spawn, ChildAsks, ChildAnswers, ChildFails
<1>5. /\ promise' \in [ToolCalls -> Promises]
      /\ promise'[t].child = state /\ promise'[t].payload = promise[t].payload
      /\ \A u \in ToolCalls : u # t => promise'[u] = promise[u]
  BY <1>2, <1>4, ChildEffect
<1>6. promise[t].payload \in Payloads
  BY <1>3, <1>4 DEF PromiseInv
<1>7. /\ Legal /\ \A q \in Reviews : call'[q].outcome = call[q].outcome
      /\ state \in {"asked", "approved"} =>
            call'[ReviewOf(t)].stage # "unasked" /\ call'[ReviewOf(t)].payload = promise[t].payload
      /\ state = "approved" => Approved(ReviewOf(t))'
  <2>1. CASE UNCHANGED call
    <3>1. state = "approved" => Approved(ReviewOf(t))'
      BY <1>2, <1>4, <2>1 DEF Approved
    <3>2. state = "approved" =>
            call'[ReviewOf(t)].stage # "unasked" /\ call'[ReviewOf(t)].payload = promise[t].payload
      BY <1>2, <1>3, <1>4, <2>1 DEF PromiseInv
    <3>3. CASE state # "asked"
      BY <1>2, <2>1, <3>1, <3>2, <3>3, QuietService
    <3>4. CASE state = "asked"
      BY <1>2, <1>4, <1>6, <3>4, SubmitIsLegal
    <3> QED BY <3>3, <3>4
  <2>2. CASE state = "asked" /\ Submitted(ReviewOf(t), promise[t].payload)
    BY <1>2, <1>6, <2>2, SubmitIsLegal
  <2> QED BY <1>4, <2>1, <2>2
<1>8. \A u \in ToolCalls : SameOutcomes(u)
  BY <1>7 DEF SameOutcomes, Reviews
<1>9. HookResult(t)' /\ OutcomesOf(t)'
  <2>1. Unreported(t) => Unreported(t)'
    BY <1>8, UnreportedStays
  <2> QED BY <1>1, <1>2, <1>3, <1>8, <2>1, OutcomesStay DEF HookResult
<1>10. /\ Approved(ReviewOf(t)) => Approved(ReviewOf(t))'
       /\ call[ReviewOf(t)].stage # "unasked" =>
             call'[ReviewOf(t)].payload = call[ReviewOf(t)].payload
  BY <1>2, <1>7, LegalKeeps
<1>11. HooksRun(t)'
  BY <1>1, <1>2, <1>3, <1>10 DEF HooksRun, Approved
<1>12. PromiseInv(t)'
  BY <1>1, <1>2, <1>3, <1>4, <1>5, <1>6, <1>7 DEF PromiseInv
<1> QED BY <1>1, <1>2, <1>5, <1>7, <1>8, <1>9, <1>11, <1>12 DEF HookStep, PluginKinds, Types

LEMMA HookReports ==
    ASSUME AdapterInv, agent = "opencode", UNCHANGED agent, NEW t \in ToolCalls,
           After(t) \/ PartFails(t)
    PROVE  HookStep(t)
<1>1. Types /\ CallInv /\ ReviewOf(t)' = ReviewOf(t) /\ ReviewOf(t) \in Reviews /\ UNCHANGED tool
  BY AgentAssumption DEF AdapterInv, ReviewOf, Reviews, Sessions, After, PartFails
<1>2. PromiseInv(t) /\ HookResult(t) /\ HooksRun(t) /\ OutcomesOf(t)
  BY DEF AdapterInv
<1>3. tool[t] \in {"none", "succeeded", "failed"} /\ step[t] \in Steps
  BY <1>1 DEF Types
<1>4. PICK o \in Outcomes :
         /\ Reports(t, o)
         /\ o = "succeeded" => tool[t] = "succeeded" \/ WithoutExitCode(t)
         /\ o # "succeeded" => tool[t] # "succeeded"
         /\ \/ step[t].where = "after" /\ After(t)
            \/ step[t].where \in {"blocked", "threw"} /\ Moves(t, "done")
  <2>1. CASE After(t)
    <3>1. /\ Reports(t, OutcomeOfExit(step[t].exit)) /\ step[t].where = "after"
          /\ step[t].exit \in ExitCodes /\ OutcomeOfExit(step[t].exit) \in Outcomes
      BY <1>2, <1>3, <2>1 DEF After, HookResult, OutcomeOfExit, Outcomes, Steps
    <3> QED BY <1>2, <2>1, <3>1 DEF HookResult, OutcomeOfExit, WithoutExitCode, ExitCodes
  <2>2. CASE PartFails(t)
    BY <1>2, <2>2 DEF PartFails, HookResult, Outcomes
  <2> QED BY <2>1, <2>2
<1>5. /\ Legal
      /\ \A q \in Reviews : q # ReviewOf(t) => call'[q] = call[q]
      /\ call'[ReviewOf(t)].outcome \in {call[ReviewOf(t)].outcome, o}
      /\ promise' \in [ToolCalls -> Promises]
      /\ \A u \in ToolCalls : /\ promise'[u].child = promise[u].child
                              /\ promise'[u].payload = promise[u].payload
  BY <1>1, <1>4, ReportsEffect
<1>6. /\ step' \in [ToolCalls -> Steps]
      /\ \A u \in ToolCalls : u # t => step'[u] = step[u]
      /\ step'[t].args = step[t].args /\ step'[t].exit = step[t].exit
      /\ step'[t].where = "done" \/ (step'[t].where = "after" /\ step[t].where = "after")
      /\ step'[t].where = "after" => step'[t].hook < Scopes
  <2>1. CASE step[t].where = "after" /\ After(t)
    <3> DEFINE g == At(IF step[t].hook + 1 = Scopes THEN "done" ELSE "after",
                       step[t].hook + 1, step[t].args, step[t].exit)
    <3>1. step[t].hook \in Nat /\ step[t].hook < Scopes
      BY <1>2, <1>3, <2>1, ScopeAssumption DEF PromiseInv, Steps
    <3>2. step' = [step EXCEPT ![t] = g]
      BY <2>1 DEF After
    <3>3. /\ g \in Steps /\ g.args = step[t].args /\ g.hook = step[t].hook + 1
          /\ g.exit = step[t].exit
          /\ g.where = IF step[t].hook + 1 = Scopes THEN "done" ELSE "after"
      BY <1>3, <3>1, ScopeAssumption DEF Steps, At
    <3> HIDE DEF g
    <3>4. step' \in [ToolCalls -> Steps] /\ step'[t] = g
          /\ \A u \in ToolCalls : u # t => step'[u] = step[u]
      BY <1>1, <3>2, <3>3 DEF Types
    <3> QED BY <2>1, <3>1, <3>3, <3>4, ScopeAssumption
  <2>2. CASE step[t].where \in {"blocked", "threw"} /\ Moves(t, "done")
    <3>1. /\ step' \in [ToolCalls -> Steps]
          /\ step'[t].where = "done" /\ step'[t].args = step[t].args
          /\ step'[t].exit = step[t].exit
          /\ \A u \in ToolCalls : u # t => step'[u] = step[u]
      BY <1>1, <2>2, MovesEffect
    <3> QED BY <3>1
  <2> QED BY <1>4, <2>1, <2>2
<1>7. \A u \in ToolCalls : u # t => SameOutcomes(u)
  BY <1>5 DEF SameOutcomes, Reviews, ReviewOf
<1>8. OutcomesOf(t)'
  <2> SUFFICES ASSUME NEW s \in Sessions
               PROVE  /\ call'[<<s, t>>].outcome = "succeeded" =>
                            tool'[t] = "succeeded" \/ WithoutExitCode(t)'
                      /\ call'[<<s, t>>].outcome \in {"failed", "not_executed"} => tool'[t] # "succeeded"
    BY DEF OutcomesOf
  <2>1. <<s, t>> \in Reviews
    BY DEF Reviews
  <2>2. call'[<<s, t>>].outcome \in {call[<<s, t>>].outcome, o}
    BY <1>5, <2>1
  <2> QED BY <1>1, <1>2, <1>4, <1>6, <2>2 DEF OutcomesOf, WithoutExitCode
<1>9. /\ Approved(ReviewOf(t)) => Approved(ReviewOf(t))'
      /\ call[ReviewOf(t)].stage # "unasked" =>
            /\ call'[ReviewOf(t)].stage # "unasked"
            /\ call'[ReviewOf(t)].payload = call[ReviewOf(t)].payload
      /\ Approved(ReviewOf(t)) => call[ReviewOf(t)].stage # "unasked"
  BY <1>1, <1>5, LegalKeeps DEF Approved
<1>10. PromiseInv(t)'
  <2>1. step'[t].where # "off" => step'[t].args \in Payloads
    BY <1>2, <1>4, <1>6 DEF PromiseInv
  <2> QED BY <1>1, <1>2, <1>5, <1>6, <1>9, <2>1 DEF PromiseInv
<1>11. HooksRun(t)' /\ HookResult(t)'
  BY <1>1, <1>2, <1>6, <1>9 DEF HooksRun, HookResult
<1> QED BY <1>1, <1>5, <1>6, <1>7, <1>8, <1>10, <1>11 DEF HookStep, PluginKinds, Types

LEMMA HookRuns ==
    ASSUME AdapterInv, agent = "opencode", UNCHANGED agent, NEW t \in ToolCalls,
           Before(t) \/ Awaited(t)
    PROVE  HookStep(t)
<1>1. Types /\ CallInv /\ ReviewOf(t)' = ReviewOf(t) /\ UNCHANGED <<call, tool>>
  BY DEF AdapterInv, ReviewOf, Before, Awaited
<1>2. PromiseInv(t) /\ HookResult(t) /\ HooksRun(t) /\ OutcomesOf(t)
  BY DEF AdapterInv
<1>3. Legal /\ \A u \in ToolCalls : SameOutcomes(u)
  BY <1>1, QuietService
<1>4. step[t] \in Steps
  BY <1>1 DEF Types
<1>5. (Unreported(t) => Unreported(t)') /\ OutcomesOf(t)'
  BY <1>1, <1>2, <1>3, UnreportedStays, UnreportedIsTrue DEF HookResult, Before, Awaited
<1>6. CASE Before(t) /\ t \in mapped
  <2>1. PICK where \in {"await", "blocked", "done"} :
           /\ Moves(t, where) /\ where # "done" /\ (where = "await" => promise[t].payload = step[t].args)
           /\ step[t].where = "before" /\ UNCHANGED promise
    BY <1>6 DEF Before, SharesArguments
  <2>2. /\ step' \in [ToolCalls -> Steps]
        /\ step'[t].where = where /\ step'[t].args = step[t].args /\ step'[t].hook = step[t].hook
        /\ \A u \in ToolCalls : u # t => step'[u] = step[u]
    BY <1>1, <2>1, MovesEffect
  <2>3. PromiseInv(t)' /\ HooksRun(t)'
    BY <1>1, <1>2, <2>1, <2>2 DEF PromiseInv, HooksRun, Approved
  <2>4. HookResult(t)'
    BY <1>1, <1>2, <1>5, <2>1, <2>2 DEF HookResult
  <2> QED BY <1>1, <1>3, <1>5, <2>1, <2>2, <2>3, <2>4 DEF HookStep, PluginKinds, Types
<1>7. CASE Before(t) /\ t \notin mapped
  <2> DEFINE g == [child |-> IF disposed THEN "failed" ELSE "reading",
                   payload |-> step[t].args, reported |-> FALSE]
  <2>1. Moves(t, "await") /\ step[t].where = "before" /\ promise' = [promise EXCEPT ![t] = g]
    BY <1>7 DEF Before
  <2>2. /\ step' \in [ToolCalls -> Steps]
        /\ step'[t].where = "await" /\ step'[t].args = step[t].args /\ step'[t].hook = step[t].hook
        /\ \A u \in ToolCalls : u # t => step'[u] = step[u]
    BY <1>1, <2>1, MovesEffect
  <2>3. g \in Promises /\ g.child \in {"failed", "reading"} /\ g.payload = step[t].args
    BY <1>4 DEF Promises, Steps, Settled
  <2> HIDE DEF g
  <2>4. /\ promise' \in [ToolCalls -> Promises] /\ promise'[t] = g
        /\ \A u \in ToolCalls : u # t => promise'[u] = promise[u]
    BY <1>1, <2>1, <2>3 DEF Types
  <2>5. PromiseInv(t)' /\ HooksRun(t)'
    BY <1>1, <1>2, <2>1, <2>2, <2>3, <2>4 DEF PromiseInv, HooksRun, Approved
  <2>6. HookResult(t)'
    BY <1>1, <1>2, <1>5, <2>1, <2>2 DEF HookResult
  <2> QED BY <1>1, <1>3, <1>5, <2>2, <2>4, <2>5, <2>6 DEF HookStep, PluginKinds, Types
<1>8. CASE Awaited(t) /\ promise[t].child = "failed"
  <2>1. Moves(t, "blocked") /\ step[t].where = "await" /\ UNCHANGED promise
    BY <1>8 DEF Awaited, Moves
  <2>2. /\ step' \in [ToolCalls -> Steps]
        /\ step'[t].where = "blocked" /\ step'[t].args = step[t].args /\ step'[t].hook = step[t].hook
        /\ \A u \in ToolCalls : u # t => step'[u] = step[u]
    BY <1>1, <2>1, MovesEffect
  <2>3. PromiseInv(t)' /\ HooksRun(t)'
    BY <1>1, <1>2, <2>1, <2>2 DEF PromiseInv, HooksRun, Approved
  <2>4. HookResult(t)'
    BY <1>1, <1>2, <2>1, <2>2 DEF HookResult
  <2> QED BY <1>1, <1>3, <1>5, <2>1, <2>2, <2>3, <2>4 DEF HookStep, PluginKinds, Types
<1>9. CASE Awaited(t) /\ promise[t].child # "failed"
  <2> DEFINE g == At(IF step[t].hook + 1 = Scopes THEN "run" ELSE "before",
                     step[t].hook + 1, step[t].args, "none")
  <2>1. /\ step[t].where = "await" /\ promise[t].child = "approved" /\ UNCHANGED promise
        /\ step' = [step EXCEPT ![t] = g]
    BY <1>9 DEF Awaited, Settled
  <2>2. step[t].hook \in Nat /\ step[t].hook < Scopes
    BY <1>2, <1>4, <2>1, ScopeAssumption DEF PromiseInv, Steps
  <2>3. /\ g \in Steps /\ g.args = step[t].args /\ g.hook = step[t].hook + 1
        /\ g.where = IF step[t].hook + 1 = Scopes THEN "run" ELSE "before"
    BY <1>4, <2>2, ScopeAssumption DEF Steps, At
  <2> HIDE DEF g
  <2>4. /\ step' \in [ToolCalls -> Steps] /\ step'[t] = g
        /\ \A u \in ToolCalls : u # t => step'[u] = step[u]
    BY <1>1, <2>1, <2>3 DEF Types
  <2>5. PromiseInv(t)'
    BY <1>1, <1>2, <2>1, <2>2, <2>3, <2>4, ScopeAssumption DEF PromiseInv, Approved
  <2>6. HooksRun(t)'
    BY <1>1, <1>2, <2>1, <2>3, <2>4 DEF PromiseInv, HooksRun, Approved
  <2>7. HookResult(t)'
    BY <1>1, <1>2, <1>5, <2>1, <2>3, <2>4 DEF HookResult
  <2> QED BY <1>1, <1>3, <1>5, <2>1, <2>4, <2>5, <2>6, <2>7 DEF HookStep, PluginKinds, Types
<1> QED BY <1>6, <1>7, <1>8, <1>9

LEMMA CallInvKept ==
    ASSUME Types, CallInv, Legal
    PROVE  CallInv'
BY LegalKeeps DEF CallInv

LEMMA PluginStep ==
    ASSUME AdapterInv, agent = "opencode", PluginNext, UNCHANGED <<agent, piVars>>
    PROVE  AdapterInv' /\ Legal
<1>1. Types /\ CallInv /\ SessionInv /\ AgentInv
  BY DEF AdapterInv
<1>2. UNCHANGED <<session, live, configured, registered, joining, timer, calls, pending, handler,
                  report, joined, overdue, capture, agent>>
  BY DEF piVars
<1>3. /\ SessionInv'
      /\ \A t \in ToolCalls : handler[t] = Off /\ handler[t].at = "off"
  <2>1. \A t \in ToolCalls : Handling(t)' <=> Handling(t)
    BY <1>2 DEF Handling
  <2>2. pending' = Cardinality(CallsInHand')
    BY <1>1, <1>2, <2>1, SameCount
  <2>3. \A t \in ToolCalls : handler[t] = Off /\ handler[t].at = "off"
    BY <1>1 DEF AgentInv, Off
  <2> QED BY <1>1, <1>2, <2>1, <2>2, <2>3 DEF SessionInv
<1>4. AgentInv' /\ \A t \in ToolCalls : HandlerResult(t)' /\ HandlerRuns(t)'
  BY <1>1, <1>2, <1>3 DEF AgentInv, HandlerResult, HandlerRuns
<1>5. SUFFICES /\ PluginKinds' /\ Legal /\ tool' \in [ToolCalls -> {"none", "succeeded", "failed"}]
               /\ \A t \in ToolCalls : /\ PromiseInv(t)' /\ HooksRun(t)'
                                       /\ OutcomesOf(t)' /\ HookResult(t)'
  <2>1. CallInv' /\ call' \in [Reviews -> Service!States]
    BY <1>1, <1>5, CallInvKept DEF Legal
  <2>2. Types'
    BY <1>1, <1>2, <1>5, <2>1 DEF Types, PluginKinds
  <2> QED BY <1>3, <1>4, <1>5, <2>1, <2>2 DEF AdapterInv
<1>6. ASSUME NEW t \in ToolCalls, HookStep(t)
      PROVE  /\ PluginKinds' /\ Legal /\ tool' \in [ToolCalls -> {"none", "succeeded", "failed"}]
             /\ \A u \in ToolCalls : /\ PromiseInv(u)' /\ HooksRun(u)'
                                     /\ OutcomesOf(u)' /\ HookResult(u)'
  <2>1. ASSUME NEW u \in ToolCalls, u # t
        PROVE  PromiseInv(u)' /\ HooksRun(u)' /\ OutcomesOf(u)' /\ HookResult(u)'
    <3>1. /\ PromiseInv(u) /\ HooksRun(u) /\ OutcomesOf(u) /\ HookResult(u)
          /\ step'[u] = step[u] /\ promise'[u].child = promise[u].child
          /\ promise'[u].payload = promise[u].payload
          /\ tool'[u] = tool[u] /\ SameOutcomes(u) /\ Legal
      BY <1>6, <2>1 DEF AdapterInv, HookStep
    <3>2. PromiseInv(u)' /\ HooksRun(u)'
      BY <1>1, <3>1, HooksKeep
    <3>3. OutcomesOf(u)' /\ (Unreported(u) => Unreported(u)')
      BY <1>1, <3>1, OutcomesStay, UnreportedStays
    <3> QED BY <1>2, <3>1, <3>2, <3>3 DEF HookResult
  <2> QED BY <1>6, <2>1 DEF HookStep
<1>7. CASE \E t \in ToolCalls : AgentAsks(t) \/ ArgumentsChange(t) \/ AgentRuns(t) \/ ToolThrows(t)
                               \/ HookSteps(t) \/ ChildSteps(t)
  <2>1. PICK t \in ToolCalls : AgentAsks(t) \/ ArgumentsChange(t) \/ AgentRuns(t) \/ ToolThrows(t)
                              \/ HookSteps(t) \/ ChildSteps(t)
    BY <1>7
  <2>2. HookStep(t)
    BY <1>2, <2>1, AgentSteps, ChildrenStep, HookReports, HookRuns DEF HookSteps
  <2> QED BY <1>6, <2>2
<1>8. CASE SessionDeleted \/ Dispose
  <2>1. UNCHANGED <<call, tool, step>>
    BY <1>8 DEF SessionDeleted, Dispose
  <2>2. Legal /\ \A t \in ToolCalls : SameOutcomes(t)
    BY <1>1, <2>1, QuietService
  <2>3. /\ promise' \in [ToolCalls -> Promises]
        /\ \A t \in ToolCalls : /\ promise'[t].child \in {promise[t].child, "failed"}
                                /\ promise[t].child = "none" => promise'[t].child = "none"
                                /\ promise'[t].payload = promise[t].payload
    <3>1. CASE SessionDeleted
      BY <1>1, <3>1 DEF SessionDeleted, Types
    <3>2. CASE Dispose
      <4>1. promise' = [t \in ToolCalls |->
               IF promise[t].child \in {"started", "asked"}
                 THEN [promise[t] EXCEPT !.child = "failed"] ELSE promise[t]]
        BY <3>2 DEF Dispose
      <4>2. ASSUME NEW t \in ToolCalls
            PROVE  /\ promise'[t] \in Promises /\ promise'[t].child \in {promise[t].child, "failed"}
                   /\ promise[t].child = "none" => promise'[t].child = "none"
                   /\ promise'[t].payload = promise[t].payload
        <5>1. promise[t] \in Promises
          BY <1>1 DEF Types
        <5>2. CASE promise[t].child \in {"started", "asked"}
          <6> DEFINE g == [promise[t] EXCEPT !.child = "failed"]
          <6>1. g \in Promises /\ g.child = "failed" /\ g.payload = promise[t].payload
            BY <5>1 DEF Promises, Settled
          <6>2. promise'[t] = g
            BY <4>1, <5>2
          <6> QED BY <5>2, <6>1, <6>2
        <5>3. CASE promise[t].child \notin {"started", "asked"}
          BY <4>1, <5>1, <5>3
        <5> QED BY <5>2, <5>3
      <4>3. promise' = [t \in ToolCalls |-> promise'[t]]
        BY <4>1
      <4> QED BY <4>2, <4>3
    <3> QED BY <1>8, <3>1, <3>2
  <2>4. ASSUME NEW t \in ToolCalls
        PROVE  PromiseInv(t)' /\ HooksRun(t)' /\ OutcomesOf(t)' /\ HookResult(t)'
    <3>1. PromiseInv(t) /\ HooksRun(t) /\ OutcomesOf(t) /\ HookResult(t) /\ ReviewOf(t)' = ReviewOf(t)
      BY DEF AdapterInv, ReviewOf
    <3>2. PromiseInv(t)'
      BY <2>1, <2>3, <3>1 DEF PromiseInv, Approved
    <3>3. HooksRun(t)'
      BY <2>1, <3>1 DEF HooksRun, Approved
    <3>4. OutcomesOf(t)' /\ (Unreported(t) => Unreported(t)')
      BY <1>1, <2>1, <2>2, <3>1, OutcomesStay, UnreportedStays
    <3>5. HookResult(t)'
      BY <1>2, <2>1, <3>1, <3>4 DEF HookResult
    <3> QED BY <3>2, <3>3, <3>4, <3>5
  <2> QED BY <1>1, <2>1, <2>2, <2>3, <2>4 DEF PluginKinds, Types
<1> QED BY <1>7, <1>8 DEF PluginNext

-----------------------------------------------------------------------------
(* The handlers' invariants, in the same way. *)
LEMMA HandlersKeep ==
    ASSUME Types, CallInv, Legal, SessionInv, NEW t \in ToolCalls, HandlerRuns(t),
           handler'[t] = handler[t]
    PROVE  HandlerRuns(t)'
<1> SUFFICES ASSUME handler[t].at = "allowed" PROVE Approved(Of(t))'
  BY DEF HandlerRuns
<1>1. handler[t].session \in 0..MaxSessions /\ handler[t].session > 0
  BY DEF Types, Handlers, SessionInv
<1>2. Of(t) \in Reviews /\ Of(t)' = Of(t)
  BY <1>1 DEF Of, Reviews, Sessions
<1> QED BY <1>2, LegalKeeps DEF HandlerRuns, Approved

HandlerStep(t) ==
    /\ PiKinds' /\ SessionInv' /\ Legal
    /\ tool' \in [ToolCalls -> {"none", "succeeded", "failed"}]
    /\ \A u \in ToolCalls : u # t =>
          /\ handler'[u] = handler[u] /\ calls'[u] = calls[u] /\ report'[u] = report[u]
          /\ tool'[u] = tool[u] /\ SameOutcomes(u)
    /\ HandlerResult(t)' /\ HandlerRuns(t)' /\ OutcomesOf(t)'

LEMMA RequestStep ==
    ASSUME AdapterInv, agent = "pi", UNCHANGED <<agent, step>>, NEW t \in ToolCalls, Continues(t)
    PROVE  HandlerStep(t)
<1>1. Types /\ CallInv /\ SessionInv /\ HandlerResult(t) /\ OutcomesOf(t)
  BY DEF AdapterInv
<1>2. PiKinds' /\ SessionInv'
  BY <1>1, ContinuesSession
<1>3. /\ Legal /\ UNCHANGED <<tool, report>> /\ Handling(t)
      /\ \A u \in ToolCalls : u # t => calls'[u] = calls[u]
      /\ \A q \in Reviews : call'[q].outcome = call[q].outcome
  BY DEF Continues
<1>4. PICK at \in Places :
         /\ Goes(t, at) /\ (at = "allowed" => Approved(Of(t))' /\ calls'[t] = "approve")
  BY DEF Continues
<1>5. handler'[t].at = at /\ \A u \in ToolCalls : u # t => handler'[u] = handler[u]
  BY <1>1, <1>3, <1>4, GoesEffect
<1>6. \A u \in ToolCalls : SameOutcomes(u)
  BY <1>3 DEF SameOutcomes, Reviews
<1>7. HandlerRuns(t)' /\ OutcomesOf(t)'
  BY <1>1, <1>3, <1>4, <1>5, <1>6, OutcomesStay DEF HandlerRuns
<1>8. HandlerResult(t)'
  <2>1. handler[t].at # "ended" /\ at # "ended"
    BY <1>3, <1>4 DEF Handling, InHand, Places
  <2>2. tool[t] = "none" /\ Unreported(t)' /\ report[t] = 0
    BY <1>1, <1>6, <2>1, UnreportedStays DEF HandlerResult
  <2> QED BY <1>3, <1>4, <1>5, <2>1, <2>2 DEF HandlerResult
<1> QED BY <1>1, <1>2, <1>3, <1>5, <1>6, <1>7, <1>8 DEF HandlerStep, Types

LEMMA CallStep ==
    ASSUME AdapterInv, CaptureInv, agent = "pi", UNCHANGED <<agent, step>>, NEW t \in ToolCalls,
           ToolCall(t) \/ CaptureEnds(t)
    PROVE  HandlerStep(t)
<1>1. Types /\ CallInv /\ SessionInv /\ HandlerResult(t) /\ OutcomesOf(t)
  BY DEF AdapterInv
<1>2. /\ PiKinds' /\ SessionInv' /\ UNCHANGED <<call, tool, calls, report>>
      /\ handler[t].at \in {"off", "capture"} /\ handler'[t].at \in {"register", "capture", "submit"}
      /\ \A u \in ToolCalls : u # t => handler'[u] = handler[u]
  BY <1>1, CallSession, CaptureEndsSession
<1>3. Legal /\ \A u \in ToolCalls : SameOutcomes(u)
  BY <1>1, <1>2, QuietService
<1>4. HandlerRuns(t)' /\ OutcomesOf(t)' /\ (Unreported(t) => Unreported(t)')
  BY <1>1, <1>2, <1>3, OutcomesStay, UnreportedStays DEF HandlerRuns
<1>5. HandlerResult(t)'
  BY <1>1, <1>2, <1>4 DEF HandlerResult
<1> QED BY <1>1, <1>2, <1>3, <1>4, <1>5 DEF HandlerStep, Types

LEMMA EndStep ==
    ASSUME AdapterInv, agent = "pi", UNCHANGED <<agent, step>>, NEW t \in ToolCalls, ToolEnds(t)
    PROVE  HandlerStep(t)
<1>1. Types /\ CallInv /\ SessionInv /\ HandlerResult(t) /\ OutcomesOf(t)
  BY DEF AdapterInv
<1>2. PiKinds' /\ SessionInv' /\ UNCHANGED <<call, calls>>
  BY <1>1, EndSession DEF ToolEnds
<1>3. Legal /\ \A u \in ToolCalls : SameOutcomes(u)
  BY <1>1, <1>2, QuietService
<1>4. /\ handler[t].at \in {"allowed", "blocked"}
      /\ handler'[t].at = "ended"
      /\ handler[t].at = "blocked" => tool' = tool /\ handler'[t].outcome # "succeeded"
      /\ handler[t].at = "allowed" /\ calls[t] # "reject" =>
            /\ tool'[t] \in {"succeeded", "failed"}
            /\ handler'[t].outcome = "succeeded" <=> tool'[t] = "succeeded"
      /\ tool' \in [ToolCalls -> {"none", "succeeded", "failed"}]
      /\ \A u \in ToolCalls : u # t =>
            handler'[u] = handler[u] /\ tool'[u] = tool[u] /\ report'[u] = report[u]
  BY <1>1, ToolEndEffect
<1>5. tool[t] = "none" /\ Unreported(t)'
  BY <1>1, <1>3, <1>4, UnreportedStays DEF HandlerResult
<1>6. HandlerResult(t)'
  BY <1>1, <1>4, <1>5 DEF HandlerResult
<1>7. OutcomesOf(t)' /\ HandlerRuns(t)'
  BY <1>4, <1>5, UnreportedIsTrue DEF HandlerRuns
<1> QED BY <1>2, <1>3, <1>4, <1>6, <1>7 DEF HandlerStep

LEMMA ReportStep ==
    ASSUME AdapterInv, agent = "pi", UNCHANGED <<agent, step>>, NEW t \in ToolCalls, Report(t)
    PROVE  HandlerStep(t)
<1>1. Types /\ CallInv /\ SessionInv /\ HandlerResult(t) /\ OutcomesOf(t)
  BY DEF AdapterInv
<1>2. handler[t].at = "ended"
  BY <1>1 DEF Report, HandlerResult
<1>3. PiKinds' /\ SessionInv' /\ Legal /\ UNCHANGED <<tool, handler>>
  BY <1>1, <1>2, ReportSession DEF Report
<1>4. /\ handler[t].outcome \in Outcomes /\ Of(t) \in Reviews
      /\ Reported(Of(t), handler[t].outcome) \/ UNCHANGED call
      /\ \A u \in ToolCalls : u # t => calls'[u] = calls[u] /\ report'[u] = report[u]
  BY <1>1, <1>2, ReportEffect
<1>5. /\ \A q \in Reviews : q # Of(t) => call'[q] = call[q]
      /\ call'[Of(t)].outcome \in {call[Of(t)].outcome, handler[t].outcome}
  BY <1>1, <1>4, ReportIsLegal
<1>6. \A u \in ToolCalls : u # t => SameOutcomes(u)
  BY <1>5 DEF SameOutcomes, Reviews, Of
<1>7. OutcomesOf(t)'
  <2> SUFFICES ASSUME NEW s \in Sessions
               PROVE  /\ call'[<<s, t>>].outcome = "succeeded" =>
                            tool'[t] = "succeeded" \/ WithoutExitCode(t)'
                      /\ call'[<<s, t>>].outcome \in {"failed", "not_executed"} => tool'[t] # "succeeded"
    BY DEF OutcomesOf
  <2>1. call'[<<s, t>>].outcome \in {call[<<s, t>>].outcome, handler[t].outcome}
    BY <1>5 DEF Reviews
  <2>2. handler[t].outcome = "succeeded" <=> tool[t] = "succeeded"
    BY <1>1, <1>2 DEF HandlerResult
  <2> QED BY <1>1, <1>3, <2>1, <2>2 DEF OutcomesOf, WithoutExitCode
<1>8. HandlerResult(t)' /\ HandlerRuns(t)'
  BY <1>1, <1>2, <1>3 DEF HandlerResult, HandlerRuns
<1> QED BY <1>1, <1>3, <1>4, <1>6, <1>7, <1>8 DEF HandlerStep, Types

LEMMA PiStep ==
    ASSUME AdapterInv, CaptureInv, agent = "pi", PiNext, UNCHANGED <<agent, pluginVars>>
    PROVE  AdapterInv' /\ Legal
<1>1. Types /\ CallInv /\ SessionInv /\ AgentInv /\ UNCHANGED <<agent, step, promise>>
  BY DEF AdapterInv, pluginVars
<1>2. AgentInv' /\ \A t \in ToolCalls : HookResult(t)'
  BY <1>1 DEF AgentInv, HookResult, NotAsked, At
<1>3. SUFFICES /\ PiKinds' /\ SessionInv' /\ Legal
               /\ tool' \in [ToolCalls -> {"none", "succeeded", "failed"}]
               /\ \A t \in ToolCalls : HandlerResult(t)' /\ HandlerRuns(t)' /\ OutcomesOf(t)'
  <2>1. CallInv' /\ call' \in [Reviews -> Service!States]
    BY <1>1, <1>3, CallInvKept DEF Legal
  <2>2. Types'
    BY <1>1, <1>3, <2>1 DEF Types, PiKinds
  <2>3. \A t \in ToolCalls : PromiseInv(t)' /\ HooksRun(t)'
    BY <1>1, <1>3, HooksKeep DEF AdapterInv
  <2> QED BY <1>2, <1>3, <2>1, <2>2, <2>3 DEF AdapterInv
<1>4. ASSUME NEW t \in ToolCalls, HandlerStep(t)
      PROVE  /\ PiKinds' /\ SessionInv' /\ Legal
             /\ tool' \in [ToolCalls -> {"none", "succeeded", "failed"}]
             /\ \A u \in ToolCalls : HandlerResult(u)' /\ HandlerRuns(u)' /\ OutcomesOf(u)'
  <2>1. ASSUME NEW u \in ToolCalls, u # t
        PROVE  HandlerResult(u)' /\ HandlerRuns(u)' /\ OutcomesOf(u)'
    <3>1. /\ HandlerResult(u) /\ HandlerRuns(u) /\ OutcomesOf(u)
          /\ handler'[u] = handler[u] /\ calls'[u] = calls[u] /\ report'[u] = report[u]
          /\ tool'[u] = tool[u] /\ SameOutcomes(u) /\ Legal
      BY <1>4, <2>1 DEF AdapterInv, HandlerStep
    <3>2. OutcomesOf(u)' /\ HandlerRuns(u)' /\ (Unreported(u) => Unreported(u)')
      BY <1>1, <3>1, HandlersKeep, OutcomesStay, UnreportedStays
    <3> QED BY <1>1, <3>1, <3>2 DEF HandlerResult
  <2> QED BY <1>4, <2>1 DEF HandlerStep
<1>5. ASSUME UNCHANGED <<call, tool>>, PiKinds', SessionInv', Legal,
             \A t \in ToolCalls :
                /\ handler'[t] = handler[t]
                   \/ (Handling(t) /\ handler'[t].at = "blocked")
                /\ calls'[t] \in {calls[t], "none"} /\ report'[t] \in {report[t], 0}
      PROVE  /\ tool' \in [ToolCalls -> {"none", "succeeded", "failed"}]
             /\ \A u \in ToolCalls : HandlerResult(u)' /\ HandlerRuns(u)' /\ OutcomesOf(u)'
  <2>1. ASSUME NEW u \in ToolCalls
        PROVE  HandlerResult(u)' /\ HandlerRuns(u)' /\ OutcomesOf(u)'
    <3>1. HandlerResult(u) /\ HandlerRuns(u) /\ OutcomesOf(u) /\ SameOutcomes(u)
      BY <1>1, <1>5, QuietService DEF AdapterInv
    <3>2. OutcomesOf(u)' /\ (Unreported(u) => Unreported(u)')
      BY <1>1, <1>5, <3>1, OutcomesStay, UnreportedStays
    <3>3. CASE handler'[u] = handler[u]
      <4>1. HandlerRuns(u)'
        BY <1>1, <1>5, <3>1, <3>3, HandlersKeep
      <4>2. HandlerResult(u)'
        BY <1>1, <1>5, <3>1, <3>2, <3>3 DEF HandlerResult
      <4> QED BY <3>2, <4>1, <4>2
    <3>4. CASE Handling(u) /\ handler'[u].at = "blocked"
      <4>1. handler[u].at # "ended"
        BY <3>4 DEF Handling, InHand
      <4>2. HandlerRuns(u)' /\ HandlerResult(u)'
        BY <1>1, <1>5, <3>1, <3>2, <3>4, <4>1 DEF HandlerResult, HandlerRuns
      <4> QED BY <3>2, <4>2
    <3> QED BY <1>5, <3>3, <3>4
  <2> QED BY <1>1, <1>5, <2>1 DEF Types
<1>6. CASE \/ StartEnds \/ ServiceForgets \/ Beat \/ CaptureGoesOn
           \/ \E t \in ToolCalls : Capture(t) \/ DeadlinePasses(t)
  <2>1. /\ Aside /\ PiKinds' /\ UNCHANGED <<session, live, configured, calls>>
        /\ joining' => joining
        /\ registered' => registered \/ (configured /\ live)
    BY <1>1, <1>6, PiQuietStep
  <2>2. SessionInv'
    BY <1>1, <2>1, QuietSession
  <2>3. UNCHANGED <<call, tool, handler, report, calls>> /\ Legal
    BY <1>1, <2>1, QuietService DEF Aside
  <2> QED BY <1>5, <2>1, <2>2, <2>3
<1>7. CASE SessionStart
  <2>1. PiKinds' /\ SessionInv' /\ UNCHANGED <<call, tool, handler, report>>
        /\ calls' = [t \in ToolCalls |-> "none"]
    BY <1>1, <1>7, StartSession
  <2>2. Legal
    BY <1>1, <2>1, QuietService
  <2> QED BY <1>5, <2>1, <2>2
<1>8. CASE SessionShutdown
  <2>1. /\ PiKinds' /\ SessionInv' /\ UNCHANGED <<call, tool>>
        /\ calls' = [t \in ToolCalls |-> "none"] /\ report' = [t \in ToolCalls |-> 0]
        /\ \A t \in ToolCalls :
              IF Handling(t) THEN handler'[t].at = "blocked" ELSE handler'[t] = handler[t]
    BY <1>1, <1>8, ShutdownSession
  <2>2. Legal
    BY <1>1, <2>1, QuietService
  <2> QED BY <1>5, <2>1, <2>2
<1>9. CASE \E t \in ToolCalls :
              \/ RegisterForCall(t) \/ Submit(t) \/ Wake(t) \/ Poll(t)
              \/ ToolCall(t) \/ CaptureEnds(t) \/ ToolEnds(t) \/ Report(t)
  <2>1. PICK t \in ToolCalls :
              \/ RegisterForCall(t) \/ Submit(t) \/ Wake(t) \/ Poll(t)
              \/ ToolCall(t) \/ CaptureEnds(t) \/ ToolEnds(t) \/ Report(t)
    BY <1>9
  <2>2. HandlerStep(t)
    BY <1>1, <2>1, RequestEnds, RequestStep, CallStep, EndStep, ReportStep
  <2> QED BY <1>4, <2>2
<1> QED BY <1>6, <1>7, <1>8, <1>9 DEF PiNext, CallSteps

-----------------------------------------------------------------------------
(* The capture. *)
LEMMA NothingReferred ==
    Len(NoCommand.refs) = 0 /\ DOMAIN NoCommand.refs = {}
<1>1. NoCommand.refs = <<>>
  BY DEF NoCommand
<1>2. <<>> \in Seq(Nat) /\ Len(<<>>) = 0
  OBVIOUS
<1>3. DOMAIN <<>> = 1..Len(<<>>)
  BY <1>2, LenProperties
<1> QED BY <1>1, <1>2, <1>3

LEMMA NotRunningKind ==
    NotRunning \in Captures
<1>1. <<>> \in Seq(Files) /\ NoCommand \in AllCommands /\ 0 \in 0..MaxBytes
  BY CommandAssumption DEF AllCommands
<1>2. NotRunning = [of |-> {}, command |-> NoCommand, at |-> 1, files |-> <<>>,
                    skipped |-> {}, total |-> 0, status |-> "complete"]
  BY DEF NotRunning, NoCommand
<1> QED BY <1>1, <1>2 DEF Captures

LEMMA NotRunningIsCaptured ==
    ASSUME capture = NotRunning
    PROVE  CaptureInv
<1>1. /\ capture.of = {} /\ capture.command = NoCommand /\ capture.at = 1 /\ capture.files = <<>>
      /\ capture.skipped = {} /\ capture.total = 0 /\ capture.status = "complete"
  BY DEF NotRunning, NoCommand
<1>2. capture \in Captures
  BY NotRunningKind
<1>3. DOMAIN capture.command.refs = {} /\ Len(capture.files) = 0
  BY <1>1, NothingReferred
<1> QED BY <1>1, <1>2, <1>3, CommandAssumption DEF CaptureInv, Capturing

LEMMA StartedIsCaptured ==
    ASSUME NEW t \in ToolCalls, NEW command \in Commands[t], CaptureStarts(t, command),
           handler'[t].at = "capture"
    PROVE  CaptureInv'
<1>1. /\ capture'.of = {t} /\ capture'.command = command /\ capture'.at = 1
      /\ capture'.files = <<>> /\ capture'.skipped = {} /\ capture'.total = 0
      /\ capture'.status = "complete"
  BY DEF CaptureStarts, NotRunning
<1>2. <<>> \in Seq(Files) /\ command \in AllCommands /\ 0 \in 0..MaxBytes
  BY CommandAssumption DEF AllCommands
<1>3. capture' \in Captures
  <2> DEFINE first == [NotRunning EXCEPT !.of = {t}]
  <2>1. NotRunning \in Captures
    BY NotRunningKind
  <2>2. capture' = [first EXCEPT !.command = command]
    BY <2>1 DEF CaptureStarts, Captures
  <2>3. first \in Captures
    BY <2>1 DEF Captures
  <2> HIDE DEF first
  <2> QED BY <1>2, <2>2, <2>3 DEF Captures
<1>4. \A n \in DOMAIN capture'.command.refs : ~(n < capture'.at)
  BY <1>1, CommandAssumption
<1>5. Len(capture'.files) = 0
  BY <1>1
<1> QED BY <1>1, <1>3, <1>4, <1>5, CommandAssumption DEF CaptureInv, Capturing

LEMMA CommandRefs ==
    ASSUME NEW c \in AllCommands
    PROVE  Len(c.refs) \in Nat /\ DOMAIN c.refs = 1..Len(c.refs)
<1>1. CASE c = NoCommand
  BY <1>1, NothingReferred
<1>2. CASE c \in UNION {Commands[t] : t \in ToolCalls}
  BY <1>2, CommandAssumption
<1> QED BY <1>1, <1>2 DEF AllCommands

(* What the next reference of the command is. *)
LEMMA NextReference ==
    ASSUME CaptureInv, Capturing, ~AllRead
    PROVE  /\ capture.at \in DOMAIN capture.command.refs /\ Ref.path \in AllPaths
           /\ capture.at \in Nat \ {0}
           /\ Len(capture.command.refs) \in Nat
           /\ DOMAIN capture.command.refs = 1..Len(capture.command.refs)
<1>1. capture.command \in AllCommands /\ capture.at \in Nat \ {0}
  BY DEF CaptureInv, Captures
<1>2. Len(capture.command.refs) \in Nat
      /\ DOMAIN capture.command.refs = 1..Len(capture.command.refs)
  BY <1>1, CommandRefs
<1>3. capture.at \in DOMAIN capture.command.refs
  BY <1>1, <1>2 DEF AllRead
<1>4. Ref.path \in PathsOf(capture.command)
  BY <1>3 DEF PathsOf, Ref
<1> QED BY <1>1, <1>2, <1>3, <1>4 DEF AllPaths

(* A file that is attached, in terms of the parts of the capture.           *)
LEMMA AttachEffect ==
    ASSUME capture \in Captures, NEW path \in AllPaths, NEW complete \in BOOLEAN,
           NEW whole \in BOOLEAN, NEW bytes \in Nat, capture.total + bytes <= MaxBytes
    PROVE  /\ Attach(path, complete, bytes, whole) \in Captures
           /\ Attach(path, complete, bytes, whole).of = capture.of
           /\ Attach(path, complete, bytes, whole).command = capture.command
           /\ Attach(path, complete, bytes, whole).at = capture.at
           /\ Attach(path, complete, bytes, whole).files
                 = Append(capture.files, [path |-> path, complete |-> complete, whole |-> whole])
           /\ Attach(path, complete, bytes, whole).skipped = capture.skipped
           /\ Attach(path, complete, bytes, whole).status
                 = IF complete THEN capture.status ELSE "incomplete"
<1> DEFINE a == Attach(path, complete, bytes, whole)
<1>1. /\ a.of = capture.of /\ a.command = capture.command /\ a.at = capture.at
      /\ a.files = Append(capture.files, [path |-> path, complete |-> complete, whole |-> whole])
      /\ a.skipped = capture.skipped /\ a.total = capture.total + bytes
      /\ a.status = IF complete THEN capture.status ELSE "incomplete"
  BY DEF Attach, Captures
<1>2. [path |-> path, complete |-> complete, whole |-> whole] \in Files
  BY DEF Files
<1> DEFINE a1 == [capture EXCEPT !.files = Append(@, [path |-> path, complete |-> complete, whole |-> whole])]
           a2 == [a1 EXCEPT !.total = capture.total + bytes]
<1>3. a = [a2 EXCEPT !.status = IF complete THEN capture.status ELSE "incomplete"]
  BY DEF Attach, Captures
<1>4. a1 \in Captures
  <2>1. Append(capture.files, [path |-> path, complete |-> complete, whole |-> whole]) \in Seq(Files)
    BY <1>2 DEF Captures
  <2> QED BY <2>1 DEF Captures
<1>5. a2 \in Captures
  <2>1. capture.total + bytes \in 0..MaxBytes
    BY CommandAssumption DEF Captures
  <2> HIDE DEF a1
  <2> QED BY <1>4, <2>1 DEF Captures
<1>6. a \in Captures
  <2> HIDE DEF a, a2
  <2>1. (IF complete THEN capture.status ELSE "incomplete") \in {"complete", "incomplete"}
    BY DEF Captures
  <2> QED BY <1>3, <1>5, <2>1 DEF Captures
<1> QED BY <1>1, <1>6

(* One file that could not be had whole makes the capture incomplete, for    *)
(* good; where the capture goes on does not matter.                         *)
LEMMA IncompleteStays ==
    ASSUME CaptureInv, NEW path \in AllPaths, NEW at \in Nat \ {0}, UNCHANGED handler, Capturing,
           capture' = [Unattached(path) EXCEPT !.at = at]
    PROVE  CaptureInv'
<1> DEFINE a == Attach(path, FALSE, 0, FALSE)
<1>1. capture \in Captures /\ capture.total + 0 <= MaxBytes
  BY CommandAssumption DEF CaptureInv, Captures
<1>2. /\ a \in Captures /\ a.of = capture.of /\ a.status = "incomplete"
      /\ a.files = Append(capture.files, [path |-> path, complete |-> FALSE, whole |-> FALSE])
  BY <1>1, AttachEffect
<1>3. capture.files \in Seq(Files) /\ [path |-> path, complete |-> FALSE, whole |-> FALSE] \in Files
  BY <1>1 DEF Captures, Files
<1>4. a.files # <<>>
  <2>1. Append(capture.files, [path |-> path, complete |-> FALSE, whole |-> FALSE]) # <<>>
    BY <1>3, AppendProperties
  <2> QED BY <1>2, <2>1
<1> HIDE DEF a
<1>5. capture' = [a EXCEPT !.at = at]
  BY DEF a, Unattached
<1>6. /\ capture' \in Captures /\ capture'.of = a.of /\ capture'.status = "incomplete"
      /\ capture'.files # <<>>
  BY <1>2, <1>4, <1>5 DEF Captures
<1> QED BY <1>2, <1>6 DEF CaptureInv, Capturing

(* A reference that is covered extends what is covered.                      *)
LEMMA CoveredGrows ==
    ASSUME CaptureInv, Capturing, ~AllRead, UNCHANGED handler, NEW path, path = Ref.path,
           capture' \in Captures, capture'.of = capture.of, capture'.command = capture.command,
           capture'.at = capture.at + 1, capture'.status = capture.status,
           capture'.files = <<>> => capture.files = <<>>,
           capture.status # "incomplete" => Len(capture'.files) <= MaxFiles,
           \A p \in AllPaths : Covered(p) => Covered(p)',
           capture.status # "incomplete" => Covered(path)'
    PROVE  CaptureInv'
<1>1. /\ capture.at \in DOMAIN capture.command.refs /\ capture.at \in Nat
      /\ DOMAIN capture.command.refs = 1..Len(capture.command.refs)
      /\ Len(capture.command.refs) \in Nat
      /\ capture.command \in AllCommands
  BY NextReference DEF CaptureInv, Captures
<1>2. ASSUME capture.status # "incomplete", NEW n \in DOMAIN capture.command.refs,
             n < capture.at + 1, NEW p, p = capture.command.refs[n].path
      PROVE  Covered(p)'
  <2>1. p \in AllPaths
    BY <1>1, <1>2 DEF AllPaths, PathsOf
  <2>2. CASE n = capture.at
    <3>1. p = path
      BY <1>2, <2>2 DEF Ref
    <3> QED BY <1>2, <3>1
  <2>3. CASE n # capture.at
    <3>1. n < capture.at
      BY <1>1, <1>2, <2>3
    <3>2. Covered(p)
      BY <1>2, <3>1 DEF CaptureInv
    <3> QED BY <2>1, <3>2
  <2> QED BY <2>2, <2>3
<1>3. ASSUME capture'.status # "incomplete", NEW n \in DOMAIN capture'.command.refs,
             n < capture'.at
      PROVE  Covered(capture.command.refs[n].path)'
  <2> DEFINE p == capture.command.refs[n].path
  <2>1. p = capture'.command.refs[n].path
    OBVIOUS
  <2>2. Covered(p)'
    BY <1>2, <1>3 DEF Covered
  <2> QED BY <2>2
<1>4. Capturing => \E t \in ToolCalls : capture'.of = {t} /\ handler'[t].at = "capture"
  BY DEF CaptureInv
<1> QED BY <1>3, <1>4 DEF CaptureInv, Capturing

LEMMA CaptureStep ==
    ASSUME CaptureInv, CaptureNext, UNCHANGED handler
    PROVE  CaptureInv'
<1>1. Capturing /\ ~AllRead /\ capture \in Captures
  BY DEF CaptureNext, CaptureInv
<1>2. /\ capture.at \in DOMAIN capture.command.refs /\ Ref.path \in AllPaths
      /\ capture.at \in Nat \ {0}
      /\ Len(capture.command.refs) \in Nat
      /\ DOMAIN capture.command.refs = 1..Len(capture.command.refs)
  BY <1>1, NextReference
<1>3. capture.at + 1 \in Nat \ {0} /\ Len(capture.command.refs) + 1 \in Nat \ {0}
  BY <1>2
<1>4. /\ capture.files \in Seq(Files) /\ Len(capture.files) \in Nat
      /\ DOMAIN capture.files = 1..Len(capture.files)
  BY <1>1, LenProperties DEF Captures
<1>5. PICK path : path = Ref.path /\ capture.total + 0 <= MaxBytes
  BY <1>1, CommandAssumption DEF Captures
<1>6. CASE Ref.path \in Seen /\ capture' = Passed(capture)
  <2>1. /\ capture' \in Captures /\ capture'.of = capture.of /\ capture'.command = capture.command
        /\ capture'.at = capture.at + 1 /\ capture'.status = capture.status
        /\ capture'.files = capture.files /\ capture'.skipped = capture.skipped
    BY <1>1, <1>3, <1>6 DEF Passed, Captures
  <2>2. \A p : Covered(p) => Covered(p)'
    BY <2>1 DEF Covered
  <2>3. capture.status # "incomplete" => Covered(path)
    <3>1. PICK n \in 1..(capture.at - 1) : Ref.path = capture.command.refs[n].path
      BY <1>6 DEF Seen
    <3>2. n \in DOMAIN capture.command.refs /\ n < capture.at
      BY <1>2
    <3> QED BY <1>5, <3>1, <3>2 DEF CaptureInv
  <2>4. capture.status # "incomplete" => Len(capture'.files) <= MaxFiles
    BY <2>1 DEF CaptureInv
  <2> QED BY <1>1, <1>5, <2>1, <2>2, <2>3, <2>4, CoveredGrows
<1>7. CASE Ref.path = Problem /\ capture' = Passed(Unattached(Problem))
  <2>1. Unattached(Problem).at = capture.at
    BY <1>1, <1>2, <1>7, <1>5, AttachEffect DEF Unattached
  <2>2. capture' = [Unattached(Problem) EXCEPT !.at = capture.at + 1]
    BY <1>7, <2>1 DEF Passed
  <2> QED BY <1>1, <1>2, <1>3, <1>7, <2>2, IncompleteStays
<1>8. CASE capture' = Ended(Unattached(Ref.path))
  <2>1. Unattached(Ref.path).command = capture.command
    BY <1>1, <1>2, <1>5, AttachEffect DEF Unattached
  <2>2. capture' = [Unattached(Ref.path) EXCEPT !.at = Len(capture.command.refs) + 1]
    BY <1>8, <2>1 DEF Ended
  <2> QED BY <1>1, <1>2, <1>3, <2>2, IncompleteStays
<1>9. ASSUME Ref.path # Problem, Len(capture.files) < MaxFiles,
             NEW kind \in Kinds, NEW stat \in Sizes, NEW size \in Sizes,
             capture' = Passed(Snapshot(kind, stat, size))
      PROVE  CaptureInv'
  <2>1. CASE Snapshot(kind, stat, size) = Unattached(Ref.path)
    <3>1. Unattached(Ref.path).at = capture.at
      BY <1>1, <1>2, <1>5, AttachEffect DEF Unattached
    <3>2. capture' = [Unattached(Ref.path) EXCEPT !.at = capture.at + 1]
      BY <1>9, <2>1, <3>1 DEF Passed
    <3> QED BY <1>1, <1>2, <1>3, <3>2, IncompleteStays
  <2>2. CASE Snapshot(kind, stat, size) = [capture EXCEPT !.skipped = @ \cup {Ref.path}]
    <3> DEFINE b == [capture EXCEPT !.skipped = @ \cup {Ref.path}]
    <3>1. /\ b \in Captures /\ b.of = capture.of /\ b.command = capture.command
          /\ b.at = capture.at /\ b.status = capture.status /\ b.files = capture.files
          /\ b.skipped = capture.skipped \cup {Ref.path}
      BY <1>1, <1>2 DEF Captures
    <3> HIDE DEF b
    <3>2. /\ capture' \in Captures /\ capture'.of = capture.of /\ capture'.command = capture.command
          /\ capture'.at = capture.at + 1 /\ capture'.status = capture.status
          /\ capture'.files = capture.files /\ capture'.skipped = capture.skipped \cup {Ref.path}
      <4>1. capture' = [b EXCEPT !.at = b.at + 1]
        BY <1>9, <2>2 DEF Passed, b
      <4> QED BY <1>3, <3>1, <4>1 DEF Captures
    <3>3. \A p : Covered(p) => Covered(p)'
      BY <3>2 DEF Covered
    <3>4. Covered(path)'
      BY <1>9, <1>5, <3>2 DEF Covered
    <3>5. capture.status # "incomplete" => Len(capture'.files) <= MaxFiles
      BY <3>2 DEF CaptureInv
    <3> QED BY <1>1, <1>5, <3>2, <3>3, <3>4, <3>5, CoveredGrows
  <2>3. CASE /\ Snapshot(kind, stat, size) = Attach(Ref.path, TRUE, Held(size), Held(size) = size)
             /\ ~TooLarge(Held(size))
    <3> DEFINE file == [path |-> Ref.path, complete |-> TRUE, whole |-> TRUE]
               b == Attach(Ref.path, TRUE, Held(size), TRUE)
    <3>1. /\ Held(size) = size /\ Held(size) \in Nat
          /\ capture.total + Held(size) <= MaxBytes
      BY <1>1, <2>3, CommandAssumption DEF Sizes, TooLarge, Held, Captures
    <3>2. /\ b \in Captures /\ b.of = capture.of /\ b.command = capture.command
          /\ b.at = capture.at /\ b.status = capture.status
          /\ b.files = Append(capture.files, file) /\ b.skipped = capture.skipped
      BY <1>1, <1>2, <3>1, AttachEffect
    <3>0. capture' = Passed(b)
      BY <1>9, <2>3, <3>1
    <3>4. file \in Files /\ file.path = Ref.path /\ file.complete /\ file.whole
      BY <1>2 DEF Files
    <3> HIDE DEF b, file
    <3>3. /\ capture' \in Captures /\ capture'.of = capture.of /\ capture'.command = capture.command
          /\ capture'.at = capture.at + 1 /\ capture'.status = capture.status
          /\ capture'.files = b.files /\ capture'.skipped = capture.skipped
      <4>1. capture' = [b EXCEPT !.at = b.at + 1]
        BY <3>0 DEF Passed
      <4> QED BY <1>3, <3>2, <4>1 DEF Captures
    <3>5. /\ Len(b.files) = Len(capture.files) + 1 /\ b.files # <<>>
          /\ DOMAIN b.files = 1..Len(b.files) /\ b.files[Len(b.files)] = file
          /\ \A k \in DOMAIN capture.files : k \in DOMAIN b.files /\ b.files[k] = capture.files[k]
      BY <1>4, <3>2, <3>4
    <3>6. \A p : Covered(p) => Covered(p)'
      BY <3>3, <3>5 DEF Covered
    <3>7. Covered(path)'
      <4>1. path # Problem /\ Len(b.files) \in DOMAIN capture'.files
            /\ capture'.files[Len(b.files)] = file
        BY <1>4, <1>9, <1>5, <3>3, <3>5
      <4> QED BY <1>5, <3>4, <4>1 DEF Covered
    <3>8. Len(capture'.files) <= MaxFiles
      BY <1>4, <1>9, <3>3, <3>5, CommandAssumption
    <3> QED BY <1>1, <1>5, <3>3, <3>5, <3>6, <3>7, <3>8, CoveredGrows
  <2> QED BY <2>1, <2>2, <2>3 DEF Snapshot
<1> QED BY <1>6, <1>7, <1>8, <1>9 DEF CaptureNext

-----------------------------------------------------------------------------
(* The whole. *)
LEMMA InitHolds ==
    ASSUME Init
    PROVE  Inv
<1>1. /\ call = [r \in Reviews |-> Service!NotSubmitted] /\ tool = [t \in ToolCalls |-> "none"]
      /\ agent \in {"pi", "opencode"}
  BY DEF Init, AgentInit, Service!Init
<1>2. /\ session = 0 /\ live = TRUE /\ configured = FALSE /\ registered = FALSE /\ joining = FALSE
      /\ calls = [t \in ToolCalls |-> "none"] /\ pending = 0
      /\ handler = [t \in ToolCalls |-> Off] /\ report = [t \in ToolCalls |-> 0]
      /\ joined = FALSE /\ overdue = {} /\ capture = NotRunning
      /\ step = [t \in ToolCalls |-> NotAsked]
      /\ promise = [t \in ToolCalls |-> NoPromise]
  BY DEF Init, PiInit, PluginInit
<1>3. Off \in Handlers /\ Off.at = "off" /\ Off.session = 0
  BY AgentAssumption DEF Off, Handlers, HandlerStates
<1>4. NotAsked \in Steps /\ NotAsked.where = "off"
  BY ScopeAssumption DEF NotAsked, At, Steps
<1>5. NoPromise \in Promises /\ NoPromise.child = "none"
  BY DEF NoPromise, Promises
<1>6. Service!NotSubmitted \in Service!States /\ Service!NotSubmitted.outcome = "none"
  BY DEF Service!NotSubmitted, Service!At, Service!States
<1>7. Types
  <2>1. session \in 0..MaxSessions
    BY <1>2, AgentAssumption
  <2>2. live \in BOOLEAN /\ configured \in BOOLEAN /\ registered \in BOOLEAN
        /\ joining \in BOOLEAN /\ joined \in BOOLEAN
    BY <1>2, Zenon
  <2>3. /\ call \in [Reviews -> Service!States] /\ tool \in [ToolCalls -> {"none", "succeeded", "failed"}]
        /\ calls \in [ToolCalls -> {"none", "pending", "approve", "reject"}]
        /\ report \in [ToolCalls -> 0..3]
    BY <1>1, <1>2, <1>6
  <2>4. /\ handler \in [ToolCalls -> Handlers] /\ step \in [ToolCalls -> Steps]
        /\ promise \in [ToolCalls -> Promises]
    BY <1>2, <1>3, <1>4, <1>5
  <2> QED BY <1>1, <1>2, <2>1, <2>2, <2>3, <2>4 DEF Types
<1>8. SessionInv
  <2>1. \A t \in ToolCalls : handler[t] = Off /\ ~Handling(t)
    BY <1>2, <1>3 DEF Handling, InHand
  <2>2. CallsInHand = {}
    BY <2>1 DEF CallsInHand
  <2>3. pending = Cardinality(CallsInHand)
    BY <1>2, <2>2, FS_EmptySet
  <2> QED BY <1>2, <1>3, <2>1, <2>3 DEF SessionInv
<1>9. CallInv /\ AgentInv
  BY <1>1, <1>2 DEF CallInv, AgentInv
<1>10. ASSUME NEW t \in ToolCalls
       PROVE  /\ PromiseInv(t) /\ HandlerResult(t) /\ HookResult(t)
              /\ HandlerRuns(t) /\ HooksRun(t) /\ OutcomesOf(t)
  <2>1. \A s \in Sessions : call[<<s, t>>].outcome = "none"
    BY <1>1, <1>6 DEF Reviews
  <2>2. handler[t].at = "off" /\ step[t].where = "off" /\ promise[t].child = "none"
        /\ tool[t] = "none" /\ report[t] = 0
    BY <1>1, <1>2, <1>3, <1>4, <1>5
  <2> QED BY <2>1, <2>2 DEF PromiseInv, HandlerResult, HookResult, HandlerRuns, HooksRun,
                             OutcomesOf, Unreported
<1>11. CaptureInv
  BY <1>2, NotRunningIsCaptured
<1> QED BY <1>7, <1>8, <1>9, <1>10, <1>11 DEF Inv, AdapterInv

LEMMA JudgeStep ==
    ASSUME AdapterInv, ServiceJudges, UNCHANGED <<agent, piVars, pluginVars>>
    PROVE  AdapterInv' /\ Legal
<1>1. Types /\ CallInv /\ SessionInv /\ AgentInv
  BY DEF AdapterInv
<1>2. /\ UNCHANGED <<session, live, configured, registered, joining, calls, pending, handler,
                     report, joined, overdue, agent, step, promise, tool>>
  BY DEF piVars, pluginVars, ServiceJudges
<1>3. Legal /\ \A q \in Reviews : call'[q].outcome \in {call[q].outcome, "none"}
  BY <1>1, JudgeIsLegal
<1>4. CallInv' /\ call' \in [Reviews -> Service!States]
  BY <1>1, <1>3, CallInvKept DEF Legal
<1>5. Types' /\ AgentInv'
  BY <1>1, <1>2, <1>4 DEF Types, AgentInv, NotAsked, At
<1>6. SessionInv'
  <2>1. \A t \in ToolCalls : Handling(t)' <=> Handling(t)
    BY <1>2 DEF Handling
  <2>2. pending' = Cardinality(CallsInHand')
    BY <1>1, <1>2, <2>1, SameCount
  <2> QED BY <1>1, <1>2, <2>1, <2>2 DEF SessionInv
<1>7. ASSUME NEW t \in ToolCalls
      PROVE  (/\ PromiseInv(t) /\ HandlerResult(t) /\ HookResult(t)
              /\ HandlerRuns(t) /\ HooksRun(t) /\ OutcomesOf(t))'
  <2>1. /\ PromiseInv(t) /\ HandlerResult(t) /\ HookResult(t)
        /\ HandlerRuns(t) /\ HooksRun(t) /\ OutcomesOf(t)
    BY DEF AdapterInv
  <2>2. PromiseInv(t)' /\ HooksRun(t)' /\ HandlerRuns(t)'
    BY <1>1, <1>2, <1>3, <2>1, HooksKeep, HandlersKeep
  <2>3. \A s \in Sessions : call'[<<s, t>>].outcome \in {call[<<s, t>>].outcome, "none"}
    BY <1>3 DEF Reviews
  <2>4. OutcomesOf(t)' /\ (Unreported(t) => Unreported(t)')
    BY <1>2, <2>1, <2>3 DEF OutcomesOf, Unreported, WithoutExitCode
  <2>5. HandlerResult(t)' /\ HookResult(t)'
    BY <1>2, <2>1, <2>4 DEF HandlerResult, HookResult
  <2> QED BY <2>2, <2>4, <2>5
<1> QED BY <1>3, <1>4, <1>5, <1>6, <1>7 DEF AdapterInv

(* While a capture runs nothing else of the handlers does. *)
LEMMA CaptureKept ==
    ASSUME AdapterInv, CaptureInv, [Next]_vars
    PROVE  CaptureInv'
<1>1. ASSUME UNCHANGED <<capture, handler>> PROVE CaptureInv'
  BY <1>1 DEF CaptureInv, Capturing, Covered
<1>2. ASSUME UNCHANGED capture, ~Capturing PROVE CaptureInv'
  BY <1>2 DEF CaptureInv, Capturing, Covered
<1>3. CASE UNCHANGED vars
  BY <1>1, <1>3 DEF vars, piVars
<1>4. CASE UNCHANGED piVars
  BY <1>1, <1>4 DEF piVars
<1>5. CASE PiNext
  <2>1. CASE SessionStart \/ StartEnds \/ ServiceForgets
    BY <1>1, <2>1 DEF SessionStart, StartEnds, ServiceForgets
  <2>2. CASE SessionShutdown \/ Beat
    BY <1>2, <2>2 DEF SessionShutdown, Beat
  <2>3. CASE CaptureGoesOn
    BY <2>3, CaptureStep DEF CaptureGoesOn
  <2>4. ASSUME NEW t \in ToolCalls,
               \/ ToolCall(t) \/ RegisterForCall(t) \/ Submit(t) \/ Wake(t) \/ Poll(t)
               \/ DeadlinePasses(t) \/ ToolEnds(t) \/ Report(t)
        PROVE  CaptureInv'
    BY <1>2, <2>4 DEF ToolCall, RegisterForCall, Submit, Wake, Poll, DeadlinePasses, ToolEnds, Report
  <2>5. ASSUME NEW t \in ToolCalls, Capture(t)
        PROVE  CaptureInv'
    <3>1. PICK command \in Commands[t] : CaptureStarts(t, command)
      BY <2>5 DEF Capture
    <3>2. handler'[t].at = "capture"
      BY <2>5 DEF Capture
    <3> QED BY <3>1, <3>2, StartedIsCaptured
  <2>6. ASSUME NEW t \in ToolCalls, CaptureEnds(t)
        PROVE  CaptureInv'
    <3>1. capture' = NotRunning
      BY <2>6 DEF CaptureEnds
    <3>2. (capture = NotRunning => CaptureInv)'
      BY NotRunningIsCaptured, PTL
    <3> QED BY <3>1, <3>2 DEF NotRunning
  <2> QED BY <1>5, <2>1, <2>2, <2>3, <2>4, <2>5, <2>6 DEF PiNext, CallSteps
<1> QED BY <1>3, <1>4, <1>5 DEF Next

LEMMA StepHolds ==
    ASSUME Inv, [Next]_vars
    PROVE  Inv' /\ Legal
<1>1. AdapterInv /\ CaptureInv /\ CaptureInv' /\ Types /\ agent \in {"pi", "opencode"}
  BY CaptureKept DEF Inv, AdapterInv, Types
<1>2. CASE UNCHANGED vars
  <2>1. Legal
    BY <1>1, <1>2, QuietService DEF vars, serviceVars
  <2>2. AdapterInv'
    BY <1>1, <1>2 DEF vars, serviceVars, piVars, pluginVars, AdapterInv, Types, CallInv, SessionInv,
       AgentInv, CallsInHand, Handling, NotAsked, At, PromiseInv, HandlerResult, HookResult, HandlerRuns,
       HooksRun, OutcomesOf, Unreported, WithoutExitCode, Approved, Of, ReviewOf
  <2> QED BY <1>1, <2>1, <2>2 DEF Inv
<1>3. CASE agent = "pi" /\ PiNext /\ UNCHANGED <<agent, pluginVars>>
  BY <1>1, <1>3, PiStep DEF Inv
<1>4. CASE agent = "opencode" /\ PluginNext /\ UNCHANGED <<agent, piVars>>
  BY <1>1, <1>4, PluginStep DEF Inv
<1>5. CASE ServiceJudges /\ UNCHANGED <<agent, piVars, pluginVars>>
  BY <1>1, <1>5, JudgeStep DEF Inv
<1> QED BY <1>2, <1>3, <1>4, <1>5 DEF Next

(* The adapters' invariant holds in every state: the counter of calls in     *)
(* hand, what a handler, a hook and a child know of the service's answer,    *)
(* and what of a command's files a running capture has.                     *)
THEOREM AdapterInvariantHolds == Spec => []Inv
<1>1. Init => Inv
  BY InitHolds
<1>2. Inv /\ [Next]_vars => Inv'
  BY StepHolds
<1> QED BY <1>1, <1>2, PTL DEF Spec

(* The state has its kind, and `pending`, of which the heartbeat's state is  *)
(* derived, is the number of calls in hand however requests, sessions and    *)
(* handlers end (the finally clause of the handler, and the shutdown).       *)
THEOREM AdapterTypesCorrect == Spec => []TypeOK
<1>1. Inv => TypeOK
  <2> SUFFICES ASSUME Inv PROVE TypeOK
    OBVIOUS
  <2>1. Types /\ SessionInv
    BY DEF Inv, AdapterInv
  <2>2. ASSUME NEW t \in ToolCalls
        PROVE  /\ handler[t].session \in 0..session /\ report[t] \in 0..3
               /\ promise[t].child \in {"none", "reading", "started", "asked"} \cup Settled
               /\ step[t].hook \in 0..Scopes
    <3>1. handler[t] \in Handlers /\ promise[t] \in Promises /\ step[t] \in Steps /\ report[t] \in 0..3
      BY <2>1 DEF Types
    <3>2. handler[t].session \in 0..MaxSessions /\ handler[t].session <= session /\ session \in 0..MaxSessions
      BY <2>1, <3>1 DEF Handlers, SessionInv, Types
    <3>3. handler[t].session \in 0..session
      BY <3>2, AgentAssumption
    <3> QED BY <3>1, <3>3 DEF Promises, Steps
  <2>3. pending = Cardinality({t \in ToolCalls : Handling(t)}) /\ (registered => live /\ configured)
    BY <2>1 DEF SessionInv, CallsInHand
  <2> QED BY <2>1, <2>2, <2>3 DEF TypeOK, Types
<1> QED BY <1>1, AdapterInvariantHolds, PTL

(* A tool runs only when the service has allowed this very call of this      *)
(* session, with what was asked: no lost answer, error, deadline, shutdown,  *)
(* disposal or change of the arguments by another plugin lets it run.        *)
THEOREM AdaptersRunAsApproved == Spec => []RunsOnlyApproved
<1>1. Inv => RunsOnlyApproved
  BY DEF Inv, AdapterInv, RunsOnlyApproved, HandlerRuns, HooksRun, Approved
<1> QED BY <1>1, AdapterInvariantHolds, PTL

(* What the adapters report of a call is what became of it, whatever reports *)
(* are lost, repeated, late, or sent for a call that was blocked.            *)
THEOREM AdapterOutcomesTrue == Spec => []OutcomesAreTrue
<1>1. Inv => OutcomesAreTrue
  BY DEF Inv, AdapterInv, OutcomesAreTrue, OutcomesOf
<1> QED BY <1>1, AdapterInvariantHolds, PTL

(* A capture that ends without being incomplete has every file the command   *)
(* refers to, within both limits, for every command, every limit and every   *)
(* change of the files while they are read (captureScripts).                 *)
THEOREM CompleteCapturesAreWhole == Spec => []CompleteMeansWhole
<1>1. Inv => CompleteMeansWhole
  <2> SUFFICES ASSUME Inv, Capturing, AllRead, Status # "incomplete"
               PROVE  /\ \A n \in DOMAIN capture.command.refs : Covered(capture.command.refs[n].path)
                      /\ capture.total <= MaxBytes /\ Len(capture.files) <= MaxFiles
    BY DEF CompleteMeansWhole, Covered
  <2>1. CaptureInv /\ capture \in Captures
    BY DEF Inv, CaptureInv
  <2>2. capture.status # "incomplete"
    BY <2>1 DEF Status, CaptureInv
  <2>3. capture.total <= MaxBytes /\ Len(capture.files) <= MaxFiles
    BY <2>1, <2>2, CommandAssumption DEF Captures, CaptureInv
  <2>4. /\ Len(capture.command.refs) \in Nat
        /\ DOMAIN capture.command.refs = 1..Len(capture.command.refs)
    BY <2>1, CommandRefs DEF Captures
  <2>5. \A n \in DOMAIN capture.command.refs : n < capture.at
    BY <2>1, <2>4 DEF AllRead, Captures
  <2> QED BY <2>1, <2>2, <2>3, <2>5 DEF CaptureInv
<1> QED BY <1>1, AdapterInvariantHolds, PTL

(* Whatever the adapters send and whenever they send it, the service makes   *)
(* only moves its contract knows: what is proved of them needs no more of    *)
(* the engine than what the engine is proved to do.                          *)
THEOREM AdaptersKeepContract == Spec => Service!Safety
<1>1. Init => Service!Init
  BY DEF Init, AgentInit
<1>2. Inv /\ [Next]_vars => [Service!Next]_call
  BY StepHolds DEF Legal, Moved, Service!Next
<1> QED BY <1>1, <1>2, AdapterInvariantHolds, PTL DEF Spec, Service!Safety
=============================================================================
