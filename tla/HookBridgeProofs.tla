-------------------------- MODULE HookBridgeProofs --------------------------
(***************************************************************************)
(* Machine-checked proofs about the hooks, for every set of hooks, calls   *)
(* and payloads and every bound: the composition implements the engine, so *)
(* that what is proved of the engine holds for it; a tool runs only with   *)
(* an approval for what every hook captured; a result in the record is one *)
(* the tool had; and an approval is not good for a second run.             *)
(***************************************************************************)
EXTENDS HookBridge, ReviewEngineProofs

-----------------------------------------------------------------------------
(* What a step does to one hook *)

(* Assigning to the process counter leaves the rest of the record alone. *)
LEMMA GotoEffect ==
    ASSUME HookTypeOK, NEW h \in Hooks, NEW pc, Goto(h, pc), NEW g \in Hooks
    PROVE  /\ g # h => hook'[g] = hook[g]
           /\ g = h => hook'[g] = [hook[h] EXCEPT !.pc = pc]
BY DEF Goto, HookTypeOK

LEMMA GotoType ==
    ASSUME HookTypeOK, NEW h \in Hooks, NEW pc \in Requests \cup Ended \cup {"judge"},
           Goto(h, pc), UNCHANGED <<tool, attempts, outcomes>>
    PROVE  HookTypeOK'
<1>1. [hook[h] EXCEPT !.pc = pc] \in HookRecords
  BY DEF HookTypeOK, HookRecords
<1>2. hook' \in [Hooks -> HookRecords]
  BY <1>1 DEF Goto, HookTypeOK
<1> QED BY <1>2 DEF HookTypeOK

(* Where a process goes after a request. *)
LEMMA NextPlace ==
    ASSUME HookTypeOK, NEW h \in Hooks
    PROVE  /\ AfterFailure(h) \in {"register", "denied", "ended"}
           /\ hook[h].pc # "beat" => AfterFailure(h) # "register"
           /\ AfterContact(h) \in {"submit", "report", "ended"}
           /\ AfterContact(h) = "submit" => hook[h].event = "pre"
           /\ AfterContact(h) = "report" =>
                 hook[h].event = "post" /\ tool[CallOf[h]] # "unknown"
<1>1. hook[h] \in HookRecords
  BY DEF HookTypeOK
<1>2. hook[h].event \in {"pre", "post"}
  BY <1>1 DEF HookRecords
<1>3. CASE hook[h].event = "pre"
  BY <1>3 DEF AfterFailure, AfterContact
<1>4. CASE hook[h].event = "post"
  BY <1>4 DEF AfterFailure, AfterContact, Confirmed
<1> QED BY <1>2, <1>3, <1>4

(* The Agent starts the hooks of one call and no others. *)
LEMMA StartEffect ==
    ASSUME HookTypeOK, NEW c \in Calls, NEW event \in {"pre", "post"}, Start(c, event)
    PROVE  /\ hook' \in [Hooks -> HookRecords]
           /\ \A h \in Hooks :
                 /\ CallOf[h] # c => hook'[h] = hook[h]
                 /\ CallOf[h] = c =>
                       /\ hook'[h].event = event
                       /\ hook'[h].pc = "beat"
                       /\ hook'[h].payload = hook[h].payload
<1> DEFINE known == reviews[c].execution \in {"succeeded", "failed"}
           started(h) == [hook[h] EXCEPT !.event = event, !.pc = "beat", !.replay = known]
<1>1. known \in BOOLEAN
  OBVIOUS
<1>2. hook' = [h \in Hooks |-> IF CallOf[h] # c THEN hook[h] ELSE started(h)]
  BY DEF Start
<1> HIDE DEF known
<1>3. ASSUME NEW h \in Hooks
      PROVE  /\ started(h) \in HookRecords
             /\ started(h).event = event
             /\ started(h).pc = "beat"
             /\ started(h).payload = hook[h].payload
  <2>1. hook[h] \in HookRecords
    BY DEF HookTypeOK
  <2>2. "beat" \in Requests \cup Ended \cup {"judge"}
    BY DEF Requests
  <2> QED BY <1>1, <2>1, <2>2 DEF HookRecords
<1> HIDE DEF started
<1>4. ASSUME NEW h \in Hooks PROVE hook'[h] = IF CallOf[h] # c THEN hook[h] ELSE started(h)
  BY <1>2
<1>5. hook' \in [Hooks -> HookRecords]
  BY <1>2, <1>3 DEF HookTypeOK
<1> QED BY <1>3, <1>4, <1>5

-----------------------------------------------------------------------------
(* The composition implements the engine *)

(* A process that reports knows how the tool ended. *)
LEMMA ReportKnows ==
    ASSUME HookInv, NEW h \in Hooks, hook[h].pc = "report"
    PROVE  Confirmed(CallOf[h]) \in {"succeeded", "failed"}
<1>1. LifeOf(h)
  BY DEF HookInv
<1>2. hook[h].pc \notin Ended
  BY DEF Ended
<1> QED BY <1>1, <1>2 DEF LifeOf, Ran, Confirmed

(* A step of the Agent, of a hook or of the service is a step of the       *)
(* engine or leaves the engine alone.                                      *)
LEMMA EngineStep == HookInv /\ [HookNext]_allVars => [Next]_vars
<1> SUFFICES ASSUME HookInv, [HookNext]_allVars PROVE [Next]_vars
  OBVIOUS
<1> USE DEF Next
<1>1. ASSUME NEW c \in Calls, NEW o, AgentCalls(c) \/ AgentRuns(c, o) \/ AgentBlocked(c)
      PROVE  [Next]_vars
  BY <1>1 DEF AgentCalls, AgentRuns, AgentBlocked
<1>2. ASSUME NEW h \in Hooks, Process(h) PROVE [Next]_vars
  <2>1. CallOf[h] \in Calls /\ Owner[CallOf[h]] \in Instances
    BY HookAssumption, OwnerAssumption
  <2>2. ASSUME RequestFails(h) \/ Judge(h) \/ Poll(h) PROVE [Next]_vars
    BY <2>2 DEF RequestFails, Judge, Poll
  <2>3. ASSUME NEW heard \in BOOLEAN, Beat(h, heard) \/ Join(h, heard) \/ Rebeat(h, heard)
        PROVE  [Next]_vars
    BY <2>1, <2>3 DEF Beat, Join, Rebeat, Reviewer
  <2>4. ASSUME NEW heard \in BOOLEAN, NEW p \in Payloads, Ask(h, p, heard)
        PROVE  [Next]_vars
    BY <2>1, <2>4 DEF Ask
  <2>5. ASSUME Report(h) PROVE [Next]_vars
    <3>1. Confirmed(CallOf[h]) \in {"succeeded", "failed"}
      BY <2>5, ReportKnows DEF Report
    <3> QED BY <2>1, <2>5, <3>1 DEF Report
  <2> QED BY <1>2, <2>2, <2>3, <2>4, <2>5 DEF Process
<1>3. ASSUME Service PROVE [Next]_vars
  BY <1>3 DEF Service
<1>4. ASSUME Time PROVE [Next]_vars
  BY <1>4 DEF Time
<1>5. ASSUME UNCHANGED allVars PROVE [Next]_vars
  BY <1>5 DEF allVars, vars
<1> QED BY <1>1, <1>2, <1>3, <1>4, <1>5 DEF HookNext

-----------------------------------------------------------------------------
(* The inductive invariant *)

LEMMA HookInvInit == HookInit => HookInv
<1> SUFFICES ASSUME HookInit PROVE HookInv
  OBVIOUS
<1>1. Idle \in HookRecords
  BY DEF Idle, HookRecords, NoAnswer, Ended
<1>2. HookTypeOK
  BY <1>1, HookAssumption DEF HookInit, HookTypeOK
<1>3. \A h \in Hooks : LifeOf(h)
  BY HookAssumption DEF HookInit, Idle, LifeOf, Ran, Ended
<1>4. RunsOnlyApproved
  BY DEF HookInit, RunsOnlyApproved
<1> QED BY <1>2, <1>3, <1>4 DEF HookInv

(* What a review keeps once it was submitted. *)
LEMMA ReviewKeeps ==
    ASSUME Inv, [Next]_vars, NEW c \in Calls, reviews[c].decision # "none"
    PROVE  /\ reviews'[c].decision # "none"
           /\ reviews'[c].payload = reviews[c].payload
           /\ reviews[c].decision = "approve" => reviews'[c].decision = "approve"
<1>1. Effect(c)
  BY StepEffect DEF Inv
<1>2. reviews[c] \in ReviewRecords
  BY DEF Inv, TypeOK
<1>3. CASE Kept(c)
  BY <1>3 DEF Kept
<1>4. CASE ByPolicy(c) \/ QueuedForHuman(c) \/ AskedOfModel(c)
  BY <1>4 DEF ByPolicy, QueuedForHuman, AskedOfModel
<1>5. CASE ByHuman(c) \/ ByModel(c) \/ Withdrawn(c)
  BY <1>5 DEF ByHuman, ByModel, Withdrawn, Closes, StillAsked, Pending
<1>6. CASE Transferred(c) \/ Reported(c)
  BY <1>2, <1>6 DEF Transferred, Reported, ReviewRecords
<1> QED BY <1>1, <1>3, <1>4, <1>5, <1>6 DEF Effect

(* A submission leaves the record of what was submitted. *)
LEMMA SubmitEffect ==
    ASSUME TypeOK, NEW c \in Calls, NEW p \in Payloads, NEW v \in PolicyVerdicts,
           Submit(c, p, v)
    PROVE  reviews'[c].decision # "none" /\ reviews'[c].payload = p
<1>1. CASE SubmitByPolicy(c, p, v)
  <2> DEFINE by == IF v.path = "scope" THEN "SCOPE" ELSE "RULE"
  <2>1. reviews'[c] = [Decided(NewReview(p), v.decision, by) EXCEPT !.path = v.path]
    BY <1>1, CommitEffect DEF SubmitByPolicy
  <2>2. v.decision \in {"approve", "reject"}
    BY <1>1 DEF SubmitByPolicy, PolicyVerdicts, NoVerdict
  <2> HIDE DEF by
  <2> QED BY <2>1, <2>2 DEF Decided, NewReview, Unasked
<1>2. CASE SubmitToHuman(c, p, v)
  <2>1. reviews'[c] = [NewReview(p) EXCEPT !.path = "human", !.needsHuman = TRUE]
    BY <1>2, CommitEffect DEF SubmitToHuman
  <2> QED BY <2>1, QueuedFields DEF Submits, Queued
<1>3. CASE SubmitToModel(c, p, v)
  <2>1. reviews'[c] = [NewReview(p) EXCEPT !.path = "model",
                                           !.deadline = clock + ModelWait]
    BY <1>3, CommitEffect DEF SubmitToModel
  <2> QED BY <2>1, QueuedFields DEF Submits, Queued
<1> QED BY <1>1, <1>2, <1>3 DEF Submit

(* A hook that does not move keeps its part of the invariant. *)
LEMMA RestingHook ==
    ASSUME Inv, [Next]_vars, NEW h \in Hooks, LifeOf(h),
           hook'[h] = hook[h], tool'[CallOf[h]] = tool[CallOf[h]]
    PROVE  LifeOf(h)'
<1>1. CallOf[h] \in Calls
  BY HookAssumption
<1> QED BY <1>1, ReviewKeeps DEF LifeOf, Ran

(* What a hook is told is a copy of the record. *)
LEMMA ViewType ==
    ASSUME NEW r \in ReviewRecords
    PROVE  /\ HookView(r) \in [decision : {"none", "pending", "approve", "reject"},
                               execution : {"not_executed", "awaiting_execution",
                                            "succeeded", "failed"},
                               deadline : Nat]
           /\ HookView(r).decision = r.decision
BY DEF HookView, ReviewRecords

(* The records of hooks and Agent keep their kinds. *)
LEMMA HookTypeStep ==
    ASSUME TypeOK, TypeOK', HookInv, [HookNext]_allVars
    PROVE  HookTypeOK'
<1> USE DEF HookInv
<1>1. ASSUME NEW c \in Calls, AgentCalls(c) PROVE HookTypeOK'
  <2>1. attempts[c] + 1 \in 0..MaxAttempts
    BY <1>1, HookAssumption DEF AgentCalls, HookTypeOK
  <2>2. attempts' \in [Calls -> 0..MaxAttempts]
    BY <1>1, <2>1 DEF AgentCalls, HookTypeOK
  <2>3. hook' \in [Hooks -> HookRecords]
    BY <1>1, StartEffect DEF AgentCalls
  <2> QED BY <1>1, <2>2, <2>3 DEF AgentCalls, HookTypeOK
<1>2. ASSUME NEW c \in Calls, NEW o \in {"succeeded", "failed", "unknown"}, AgentRuns(c, o)
      PROVE  HookTypeOK'
  <2>1. hook' \in [Hooks -> HookRecords]
    BY <1>2, StartEffect DEF AgentRuns
  <2> QED BY <1>2, <2>1 DEF AgentRuns, HookTypeOK
<1>3. ASSUME NEW c \in Calls, AgentBlocked(c) PROVE HookTypeOK'
  BY <1>3 DEF AgentBlocked, HookTypeOK
<1>4. ASSUME NEW h \in Hooks, Process(h) PROVE HookTypeOK'
  <2> USE DEF Requests, Ended
  <2>0. hook[h] \in HookRecords /\ reviews[CallOf[h]] \in ReviewRecords
        /\ reviews'[CallOf[h]] \in ReviewRecords /\ clock \in Nat
    BY HookAssumption DEF HookTypeOK, TypeOK
  <2>1. ASSUME RequestFails(h) PROVE HookTypeOK'
    BY <2>1, NextPlace, GotoType DEF RequestFails
  <2>2. ASSUME NEW heard \in BOOLEAN, Beat(h, heard) \/ Join(h, heard) PROVE HookTypeOK'
    <3> DEFINE pc == IF heard THEN AfterContact(h) ELSE AfterFailure(h)
    <3>1. pc \in Requests \cup Ended \cup {"judge"}
      BY NextPlace
    <3>2. Goto(h, pc) /\ UNCHANGED <<tool, attempts, outcomes>>
      BY <2>2 DEF Beat, Join
    <3> QED BY <3>1, <3>2, GotoType
  <2>3. ASSUME NEW heard \in BOOLEAN, Rebeat(h, heard) PROVE HookTypeOK'
    <3>1. [hook[h] EXCEPT !.pc = IF heard THEN "poll" ELSE "denied",
                          !.lastBeat = clock] \in HookRecords
      BY <2>0 DEF HookRecords
    <3> QED BY <2>3, <3>1 DEF Rebeat, HookTypeOK
  <2>4. ASSUME NEW heard \in BOOLEAN, NEW p \in Payloads, Ask(h, p, heard)
        PROVE  HookTypeOK'
    <3> DEFINE view == HookView(reviews'[CallOf[h]])
    <3>1. view \in [decision : {"none", "pending", "approve", "reject"},
                    execution : {"not_executed", "awaiting_execution",
                                 "succeeded", "failed"},
                    deadline : Nat]
      BY <2>0, ViewType
    <3> HIDE DEF view
    <3>2. [hook[h] EXCEPT !.pc = IF heard THEN "judge" ELSE "denied", !.payload = p,
                          !.answer = view, !.lastBeat = clock] \in HookRecords
      BY <2>0, <3>1 DEF HookRecords
    <3> QED BY <2>4, <3>2 DEF Ask, HookTypeOK, view
  <2>5. ASSUME Judge(h) PROVE HookTypeOK'
    BY <2>5, GotoType DEF Judge
  <2>6. ASSUME Poll(h) PROVE HookTypeOK'
    <3> DEFINE view == HookView(reviews[CallOf[h]])
    <3>1. view \in [decision : {"none", "pending", "approve", "reject"},
                    execution : {"not_executed", "awaiting_execution",
                                 "succeeded", "failed"},
                    deadline : Nat]
      BY <2>0, ViewType
    <3> HIDE DEF view
    <3>2. [hook[h] EXCEPT !.pc = "judge", !.answer = view] \in HookRecords
      BY <2>0, <3>1 DEF HookRecords
    <3> QED BY <2>6, <3>2 DEF Poll, HookTypeOK, view
  <2>7. ASSUME Report(h) PROVE HookTypeOK'
    BY <2>7, GotoType DEF Report
  <2> QED BY <1>4, <2>1, <2>2, <2>3, <2>4, <2>5, <2>6, <2>7 DEF Process
<1>5. ASSUME Service \/ Time \/ UNCHANGED allVars PROVE HookTypeOK'
  BY <1>5 DEF Service, Time, allVars, hookVars, HookTypeOK
<1> QED BY <1>1, <1>2, <1>3, <1>4, <1>5 DEF HookNext

(* Every hook's part of the invariant is kept. *)
LEMMA LifeStep ==
    ASSUME Inv, HookInv, [HookNext]_allVars, NEW g \in Hooks
    PROVE  LifeOf(g)'
<1>0. HookTypeOK /\ LifeOf(g) /\ [Next]_vars /\ CallOf[g] \in Calls
      /\ hook[g] \in HookRecords
  BY EngineStep, HookAssumption DEF HookInv, HookTypeOK
<1>1. ASSUME NEW c \in Calls, AgentCalls(c) PROVE LifeOf(g)'
  <2>1. CASE CallOf[g] = c
    <3>1. hook'[g].event = "pre" /\ hook'[g].pc = "beat"
      BY <1>0, <1>1, <2>1, StartEffect DEF AgentCalls
    <3>2. tool'[c] = "hooks"
      BY <1>0, <1>1 DEF AgentCalls, HookTypeOK
    <3> QED BY <2>1, <3>1, <3>2 DEF LifeOf, Ran
  <2>2. CASE CallOf[g] # c
    BY <1>0, <1>1, <2>2, StartEffect, RestingHook DEF AgentCalls, HookTypeOK, HookInv
  <2> QED BY <2>1, <2>2
<1>2. ASSUME NEW c \in Calls, NEW o \in {"succeeded", "failed", "unknown"}, AgentRuns(c, o)
      PROVE  LifeOf(g)'
  <2>1. CASE CallOf[g] = c
    <3>1. hook'[g].event = "post" /\ hook'[g].pc = "beat"
      BY <1>0, <1>2, <2>1, StartEffect DEF AgentRuns
    <3>2. tool'[c] = o
      BY <1>0, <1>2 DEF AgentRuns, HookTypeOK
    <3> QED BY <2>1, <3>1, <3>2 DEF LifeOf, Ran
  <2>2. CASE CallOf[g] # c
    BY <1>0, <1>2, <2>2, StartEffect, RestingHook DEF AgentRuns, HookTypeOK, HookInv
  <2> QED BY <2>1, <2>2
<1>3. ASSUME NEW c \in Calls, AgentBlocked(c) PROVE LifeOf(g)'
  <2>1. CASE CallOf[g] = c
    <3>1. tool'[c] = "blocked" /\ hook' = hook /\ reviews' = reviews
      BY <1>0, <1>3 DEF AgentBlocked, HookTypeOK, vars
    <3>2. hook[g].pc \in Ended
      BY <1>3, <2>1 DEF AgentBlocked, AllEnded, HooksOf
    <3> QED BY <1>0, <2>1, <3>1, <3>2 DEF LifeOf, Ran, Ended
  <2>2. CASE CallOf[g] # c
    BY <1>0, <1>3, <2>2, RestingHook DEF AgentBlocked, HookTypeOK, HookInv
  <2> QED BY <2>1, <2>2
<1>4. ASSUME NEW h \in Hooks, Process(h) PROVE LifeOf(g)'
  <2>1. tool' = tool
    BY <1>4 DEF Process, RequestFails, Beat, Join, Rebeat, Ask, Judge, Poll, Report
  <2>2. CASE g # h
    <3>1. hook'[g] = hook[g]
      BY <1>4, <2>2 DEF Process, RequestFails, Beat, Join, Rebeat, Ask, Judge, Poll,
                        Report, Goto, HookInv, HookTypeOK
    <3> QED BY <1>0, <2>1, <3>1, RestingHook
  <2>3. CASE g = h
    <3>0. reviews[CallOf[g]].decision # "none" =>
             /\ reviews'[CallOf[g]].decision # "none"
             /\ reviews'[CallOf[g]].payload = reviews[CallOf[g]].payload
             /\ reviews[CallOf[g]].decision = "approve"
                   => reviews'[CallOf[g]].decision = "approve"
      BY <1>0, ReviewKeeps
    <3>1. ASSUME NEW pc \in {"denied", "ended", "register", "submit", "report"},
                 hook'[g] = [hook[g] EXCEPT !.pc = pc],
                 pc = "submit" => hook[g].event = "pre",
                 pc = "report" => hook[g].event = "post" /\ tool[CallOf[g]] # "unknown",
                 hook[g].pc \in Requests
          PROVE  LifeOf(g)'
      <4>1. hook'[g].pc = pc /\ hook'[g].event = hook[g].event
        BY <1>0, <3>1 DEF HookRecords
      <4>2. hook[g].pc \notin Ended
        BY <3>1 DEF Requests, Ended
      <4> QED BY <1>0, <2>1, <3>1, <4>1, <4>2 DEF LifeOf, Ran, Ended
    <3>2. ASSUME RequestFails(g) PROVE LifeOf(g)'
      <4>1. hook'[g] = [hook[g] EXCEPT !.pc = AfterFailure(g)] /\ hook[g].pc \in Requests
        BY <1>0, <3>2 DEF RequestFails, Goto, HookTypeOK
      <4> QED BY <1>0, <3>1, <4>1, NextPlace
    <3>3. ASSUME NEW heard \in BOOLEAN, Beat(g, heard) \/ Join(g, heard) PROVE LifeOf(g)'
      <4> DEFINE pc == IF heard THEN AfterContact(g) ELSE AfterFailure(g)
      <4>1. hook'[g] = [hook[g] EXCEPT !.pc = pc] /\ hook[g].pc \in Requests
        BY <1>0, <3>3 DEF Beat, Join, Goto, Requests, HookTypeOK
      <4>2. /\ pc \in {"denied", "ended", "register", "submit", "report"}
            /\ pc = "submit" => hook[g].event = "pre"
            /\ pc = "report" => hook[g].event = "post" /\ tool[CallOf[g]] # "unknown"
        BY <1>0, NextPlace
      <4> HIDE DEF pc
      <4> QED BY <3>1, <4>1, <4>2
    <3>4. ASSUME NEW heard \in BOOLEAN, Rebeat(g, heard) PROVE LifeOf(g)'
      <4>1. hook'[g] = [hook[g] EXCEPT !.pc = IF heard THEN "poll" ELSE "denied",
                                       !.lastBeat = clock]
        BY <1>0, <3>4 DEF Rebeat, HookTypeOK
      <4>2. /\ hook'[g].pc \in {"poll", "denied"}
            /\ hook'[g].event = hook[g].event
            /\ hook'[g].payload = hook[g].payload
            /\ hook'[g].answer = hook[g].answer
        BY <1>0, <4>1 DEF HookRecords
      <4>3. hook[g].pc = "rebeat"
        BY <3>4 DEF Rebeat
      <4> QED BY <1>0, <2>1, <3>0, <4>2, <4>3 DEF LifeOf, Ran, Ended
    <3>5. ASSUME NEW heard \in BOOLEAN, NEW p \in Payloads, Ask(g, p, heard)
          PROVE  LifeOf(g)'
      <4>1. hook'[g] = [hook[g] EXCEPT !.pc = IF heard THEN "judge" ELSE "denied",
                                       !.payload = p,
                                       !.answer = HookView(reviews'[CallOf[g]]),
                                       !.lastBeat = clock]
        BY <1>0, <3>5 DEF Ask, HookTypeOK
      <4>2. /\ hook'[g].pc \in {"judge", "denied"}
            /\ hook'[g].event = hook[g].event
            /\ hook'[g].payload = p
            /\ hook'[g].answer = HookView(reviews'[CallOf[g]])
        BY <1>0, <4>1 DEF HookRecords
      <4>3. hook[g].pc = "submit"
        BY <3>5 DEF Ask
      <4>4. reviews'[CallOf[g]].decision # "none" /\ reviews'[CallOf[g]].payload = p
        <5>1. CASE Known(CallOf[g], p) /\ UNCHANGED vars
          BY <5>1 DEF Known, vars
        <5>2. ASSUME NEW v \in PolicyVerdicts, Submit(CallOf[g], p, v)
              PROVE  reviews'[CallOf[g]].decision # "none"
                     /\ reviews'[CallOf[g]].payload = p
          BY <1>0, <5>2, SubmitEffect DEF Inv
        <5> QED BY <3>5, <5>1, <5>2 DEF Ask
      <4> QED BY <1>0, <2>1, <4>2, <4>3, <4>4 DEF LifeOf, Ran, Ended, HookView
    <3>6. ASSUME Judge(g) PROVE LifeOf(g)'
      <4>1. PICK pc \in {"allowed", "denied", "rebeat", "poll"} :
               Goto(g, pc) /\ (pc = "allowed" => Allows(g))
        <5>1. CASE Allows(g)
          BY <3>6, <5>1 DEF Judge
        <5>2. CASE ~ Allows(g) /\ ~ Waits(g)
          BY <3>6, <5>2 DEF Judge
        <5>3. CASE ~ Allows(g) /\ Waits(g)
          BY <3>6, <5>3 DEF Judge
        <5> QED BY <5>1, <5>2, <5>3
      <4>2. hook'[g] = [hook[g] EXCEPT !.pc = pc]
        BY <1>0, <4>1, GotoEffect
      <4>3. /\ hook'[g].pc = pc
            /\ hook'[g].event = hook[g].event
            /\ hook'[g].payload = hook[g].payload
            /\ hook'[g].answer = hook[g].answer
        BY <1>0, <4>2 DEF HookRecords
      <4>4. hook[g].pc = "judge"
        BY <3>6 DEF Judge
      <4> QED BY <1>0, <2>1, <3>0, <4>1, <4>3, <4>4 DEF LifeOf, Ran, Ended, Allows
    <3>7. ASSUME Poll(g) PROVE LifeOf(g)'
      <4>1. hook'[g] = [hook[g] EXCEPT !.pc = "judge",
                                       !.answer = HookView(reviews[CallOf[g]])]
        BY <1>0, <3>7 DEF Poll, HookTypeOK
      <4>2. /\ hook'[g].pc = "judge"
            /\ hook'[g].event = hook[g].event
            /\ hook'[g].payload = hook[g].payload
            /\ hook'[g].answer = HookView(reviews[CallOf[g]])
        BY <1>0, <4>1 DEF HookRecords
      <4>3. hook[g].pc = "poll" /\ reviews' = reviews
        BY <3>7 DEF Poll, vars
      <4> QED BY <1>0, <2>1, <4>2, <4>3 DEF LifeOf, Ran, Ended, HookView
    <3>8. ASSUME Report(g) PROVE LifeOf(g)'
      <4>1. hook'[g] = [hook[g] EXCEPT !.pc = "ended"] /\ hook[g].pc \in Requests
        BY <1>0, <3>8 DEF Report, Goto, Requests, HookTypeOK
      <4> QED BY <3>1, <4>1
    <3> QED BY <1>4, <2>3, <3>2, <3>3, <3>4, <3>5, <3>6, <3>7, <3>8 DEF Process
  <2> QED BY <2>2, <2>3
<1>5. ASSUME Service \/ Time \/ UNCHANGED allVars PROVE LifeOf(g)'
  BY <1>0, <1>5, RestingHook DEF Service, Time, allVars, hookVars
<1> QED BY <1>1, <1>2, <1>3, <1>4, <1>5 DEF HookNext

(* The Agent runs a tool only as it was approved. *)
LEMMA RunsStep ==
    ASSUME Inv, HookInv, [HookNext]_allVars
    PROVE  RunsOnlyApproved'
<1> SUFFICES ASSUME NEW c \in Calls, Ran(c)'
             PROVE  /\ reviews'[c].decision = "approve"
                    /\ \A h \in HooksOf(c) : hook'[h].payload = reviews'[c].payload
  BY DEF RunsOnlyApproved, Ran, HooksOf
<1>0. [Next]_vars /\ HookTypeOK
  BY EngineStep DEF HookInv
<1>1. ASSUME Ran(c), \A h \in HooksOf(c) : hook'[h].payload = hook[h].payload
      PROVE  /\ reviews'[c].decision = "approve"
             /\ \A h \in HooksOf(c) : hook'[h].payload = reviews'[c].payload
  BY <1>0, <1>1, ReviewKeeps DEF HookInv, RunsOnlyApproved, Ran
<1>2. ASSUME NEW d \in Calls, AgentCalls(d)
      PROVE  Ran(c) /\ \A h \in HooksOf(c) : hook'[h].payload = hook[h].payload
  <2>1. tool' = [tool EXCEPT ![d] = "hooks"]
    BY <1>2 DEF AgentCalls
  <2>2. Ran(c)
    BY <1>0, <2>1 DEF Ran, HookTypeOK
  <2> QED BY <1>0, <1>2, <2>2, StartEffect DEF AgentCalls, HooksOf
<1>3. ASSUME NEW d \in Calls, NEW o \in {"succeeded", "failed", "unknown"}, AgentRuns(d, o),
             d # c
      PROVE  Ran(c) /\ \A h \in HooksOf(c) : hook'[h].payload = hook[h].payload
  <2>1. Ran(c)
    BY <1>0, <1>3 DEF AgentRuns, Ran, HookTypeOK
  <2> QED BY <1>0, <1>3, <2>1, StartEffect DEF AgentRuns, HooksOf
<1>4. ASSUME NEW o \in {"succeeded", "failed", "unknown"}, AgentRuns(c, o)
      PROVE  /\ reviews'[c].decision = "approve"
             /\ \A h \in HooksOf(c) : hook'[h].payload = reviews'[c].payload
  <2>1. reviews' = reviews
    BY <1>4 DEF AgentRuns, vars
  <2>2. ASSUME NEW h \in HooksOf(c)
        PROVE  reviews[c].decision = "approve" /\ hook'[h].payload = reviews[c].payload
    <3>1. h \in Hooks /\ CallOf[h] = c
      BY DEF HooksOf
    <3>2. hook[h].pc = "allowed" /\ LifeOf(h)
      BY <1>4, <3>1 DEF AgentRuns, HookInv, HooksOf
    <3>3. hook'[h].payload = hook[h].payload
      BY <1>0, <1>4, <3>1, StartEffect DEF AgentRuns
    <3> QED BY <3>1, <3>2, <3>3 DEF LifeOf
  <2>3. \E h \in Hooks : h \in HooksOf(c)
    BY HookAssumption DEF HooksOf
  <2> QED BY <2>1, <2>2, <2>3
<1>5. ASSUME NEW d \in Calls, AgentBlocked(d)
      PROVE  Ran(c) /\ \A h \in HooksOf(c) : hook'[h].payload = hook[h].payload
  BY <1>0, <1>5 DEF AgentBlocked, Ran, HookTypeOK
<1>6. ASSUME NEW h \in Hooks, Process(h)
      PROVE  Ran(c) /\ \A g \in HooksOf(c) : hook'[g].payload = hook[g].payload
  <2>1. tool' = tool
    BY <1>6 DEF Process, RequestFails, Beat, Join, Rebeat, Ask, Judge, Poll, Report
  <2>2. Ran(c)
    BY <2>1 DEF Ran
  <2>3. ASSUME NEW g \in HooksOf(c) PROVE hook'[g].payload = hook[g].payload
    <3>1. /\ g \in Hooks /\ CallOf[g] = c
          /\ hook[g] \in HookRecords
          /\ hook[g].event = "post"
      BY <1>0, <2>2 DEF HooksOf, HookInv, LifeOf, HookTypeOK
    <3>2. hook[g].event # "pre" /\ hook[g].pc # "submit"
      BY <3>1 DEF HookInv, LifeOf
    <3>3. CASE g # h
      BY <1>0, <1>6, <3>1, <3>3 DEF Process, RequestFails, Beat, Join, Rebeat, Ask, Judge,
                               Poll, Report, Goto, HookTypeOK
    <3>4. CASE g = h
      <4>1. ASSUME NEW pc, Goto(g, pc) PROVE hook'[g].payload = hook[g].payload
        BY <1>0, <3>1, <4>1 DEF Goto, HookTypeOK, HookRecords
      <4>2. ASSUME NEW heard \in BOOLEAN, Rebeat(g, heard)
            PROVE  hook'[g].payload = hook[g].payload
        BY <1>0, <3>1, <4>2 DEF Rebeat, HookTypeOK, HookRecords
      <4>3. ASSUME Poll(g) PROVE hook'[g].payload = hook[g].payload
        BY <1>0, <3>1, <4>3 DEF Poll, HookTypeOK, HookRecords
      <4>4. ASSUME NEW heard \in BOOLEAN, NEW p \in Payloads, Ask(g, p, heard) PROVE FALSE
        BY <3>2, <4>4 DEF Ask
      <4>5. ASSUME \/ RequestFails(g) \/ Judge(g) \/ Report(g)
                   \/ \E heard \in BOOLEAN : Beat(g, heard) \/ Join(g, heard)
            PROVE  hook'[g].payload = hook[g].payload
        BY <4>1, <4>5 DEF RequestFails, Judge, Report, Beat, Join
      <4> QED BY <1>6, <3>4, <4>2, <4>3, <4>4, <4>5 DEF Process
    <3> QED BY <3>3, <3>4
  <2> QED BY <2>2, <2>3
<1>7. ASSUME Service \/ Time \/ UNCHANGED allVars
      PROVE  Ran(c) /\ \A h \in HooksOf(c) : hook'[h].payload = hook[h].payload
  BY <1>7 DEF Service, Time, allVars, hookVars, Ran
<1> QED BY <1>1, <1>2, <1>3, <1>4, <1>5, <1>6, <1>7 DEF HookNext

LEMMA HookInvStep == Inv /\ HookInv /\ [HookNext]_allVars => Inv' /\ HookInv'
<1> SUFFICES ASSUME Inv, HookInv, [HookNext]_allVars PROVE Inv' /\ HookInv'
  OBVIOUS
<1>1. Inv'
  BY EngineStep, InvStep
<1>2. HookTypeOK'
  BY <1>1, HookTypeStep DEF Inv
<1>3. \A h \in Hooks : LifeOf(h)'
  BY LifeStep
<1> QED BY <1>1, <1>2, <1>3, RunsStep DEF HookInv

-----------------------------------------------------------------------------
(* Theorems *)

(* The engine's and the hooks' invariants hold of the composition. *)
THEOREM HookInvariantHolds == HookSpec => [](Inv /\ HookInv)
<1>1. HookInit => Inv /\ HookInv
  BY InvInit, HookInvInit DEF HookInit
<1>2. (Inv /\ HookInv) /\ [HookNext]_allVars => (Inv /\ HookInv)'
  BY HookInvStep
<1> QED BY <1>1, <1>2, PTL DEF HookSpec

(* The composition implements the engine: every theorem about the engine   *)
(* holds whatever the hooks and the Agent do.                              *)
THEOREM HooksUseTheEngine == HookSpec => Spec
<1>1. HookInit => Init
  BY DEF HookInit
<1>2. (Inv /\ HookInv) /\ [HookNext]_allVars => [Next]_vars
  BY EngineStep
<1> QED BY <1>1, <1>2, HookInvariantHolds, PTL DEF HookSpec, Spec

(* The records of the hooks and of the Agent keep their kinds. *)
THEOREM HookTypesCorrect == HookSpec => []HookTypeOK
<1>1. Inv /\ HookInv => HookTypeOK
  BY DEF HookInv
<1> QED BY <1>1, HookInvariantHolds, PTL

(* A tool runs only with an approval on disk, for exactly what each of its *)
(* hooks captured, whatever is lost, late or repeated.                     *)
THEOREM ToolsRunAsApproved == HookSpec => []RunsOnlyApproved
<1>1. Inv /\ HookInv => RunsOnlyApproved
  BY DEF HookInv
<1> QED BY <1>1, HookInvariantHolds, PTL

-----------------------------------------------------------------------------
(* What hooks report. *)

Results == {"succeeded", "failed"}   \* what a hook reports

(* What a process that denies a replay is told. *)
ReplayOf(h) ==
    hook[h].event = "pre" /\ hook[h].replay =>
       /\ reviews[CallOf[h]].execution \in Results
       /\ hook[h].pc = "judge" => hook[h].answer.execution \in Results
       /\ hook[h].pc # "allowed"

ResultInv ==
    /\ ReportsAreTrue
    /\ \A c \in Calls : Ran(c) => tool[c] \in outcomes[c]
    /\ \A h \in Hooks : ReplayOf(h)

-----------------------------------------------------------------------------
(* Only a report changes the record of an approved call. *)

LEMMA EngineKeepsApproved ==
    ASSUME TypeOK, NEW c \in Calls, reviews[c].decision = "approve",
           \/ \E i \in Instances : Register(i) \/ Heartbeat(i)
           \/ \E i \in Instances, lost \in SUBSET Calls : Disconnect(i, lost)
           \/ \E d \in Calls, p \in Payloads, v \in PolicyVerdicts : Submit(d, p, v)
           \/ \E d \in Calls, p \in Payloads, v \in {"approve", "reject"} : Decide(d, p, v)
           \/ \E d \in Calls : ModelReview(d)
           \/ \E lost \in SUBSET Calls : Expire(lost)
           \/ \E m \in Modes : SaveSettings(m)
           \/ Crash \/ Tick \/ UNCHANGED vars
           \/ \E stale \in SUBSET Instances : Open(stale)
           \/ \E lost \in SUBSET Calls : OpenFails(lost)
    PROVE  reviews'[c] = reviews[c]
<1>0. reviews[c].decision # "pending" /\ reviews[c].decision # "none"
  OBVIOUS
<1>1. CASE \/ \E i \in Instances : Register(i) \/ Heartbeat(i)
           \/ \E m \in Modes : SaveSettings(m)
           \/ Crash \/ Tick \/ UNCHANGED vars
  BY <1>1 DEF Register, Heartbeat, SaveSettings, Crash, Tick, vars
<1>2. ASSUME NEW i \in Instances, NEW lost \in SUBSET Calls, Disconnect(i, lost)
      PROVE  reviews'[c] = reviews[c]
  BY <1>0, <1>2 DEF Disconnect, RejectAll, Pending
<1>3. ASSUME NEW d \in Calls, NEW p \in Payloads, NEW v \in PolicyVerdicts, Submit(d, p, v)
      PROVE  reviews'[c] = reviews[c]
  <2>1. c # d
    BY <1>0, <1>3 DEF Submit, SubmitByPolicy, SubmitToHuman, SubmitToModel, SubmitAccepted
  <2> QED BY <1>3, <2>1, CommitEffect DEF Submit, SubmitByPolicy, SubmitToHuman, SubmitToModel
<1>4. ASSUME NEW d \in Calls, NEW p \in Payloads, NEW v \in {"approve", "reject"}, Decide(d, p, v)
      PROVE  reviews'[c] = reviews[c]
  BY <1>0, <1>4, CommitEffect DEF Decide, Pending
<1>5. ASSUME NEW d \in Calls, ModelReview(d) PROVE reviews'[c] = reviews[c]
  <2>1. CASE ModelTooLate(d) \/ ModelLost(d)
    BY <2>1 DEF ModelTooLate, ModelLost
  <2>2. CASE ModelTransfers(d)
    BY <1>0, <2>2, CommitEffect DEF ModelTransfers, StillAsked, Pending
  <2>3. ASSUME NEW a \in {"approve", "reject", "error"}, ModelDecides(d, a)
        PROVE  reviews'[c] = reviews[c]
    <3>1. c # d
      BY <1>0, <2>3 DEF ModelDecides, StillAsked, Pending
    <3> QED BY <2>3, <3>1, CommitEffect DEF ModelDecides
  <2> QED BY <1>5, <2>1, <2>2, <2>3 DEF ModelReview
<1>6. ASSUME NEW lost \in SUBSET Calls, Expire(lost) PROVE reviews'[c] = reviews[c]
  BY <1>0, <1>6 DEF Expire, RejectAll, Due, Pending
<1>7. ASSUME NEW stale \in SUBSET Instances, Open(stale) PROVE reviews'[c] = reviews[c]
  BY <1>0, <1>7 DEF Open, RejectAll, Leftover, Pending
<1>8. ASSUME NEW lost \in SUBSET Calls, OpenFails(lost) PROVE reviews'[c] = reviews[c]
  BY <1>0, <1>8 DEF OpenFails, RejectAll, Leftover, Pending
<1> QED BY <1>1, <1>2, <1>3, <1>4, <1>5, <1>6, <1>7, <1>8

LEMMA OnlyReports ==
    ASSUME Inv, HookInv, [HookNext]_allVars, NEW c \in Calls, reviews[c].decision = "approve"
    PROVE  \/ reviews'[c] = reviews[c]
           \/ /\ tool[c] \in Results
              /\ reviews[c].execution = "awaiting_execution"
              /\ reviews'[c] = [reviews[c] EXCEPT !.execution = tool[c]]
<1>0. TypeOK
  BY DEF Inv
<1>1. ASSUME NEW d \in Calls, NEW o, AgentCalls(d) \/ AgentRuns(d, o) \/ AgentBlocked(d)
      PROVE  reviews'[c] = reviews[c]
  BY <1>1 DEF AgentCalls, AgentRuns, AgentBlocked, vars
<1>2. ASSUME NEW h \in Hooks, Process(h), ~ Report(h) PROVE reviews'[c] = reviews[c]
  <2>1. CallOf[h] \in Calls /\ Owner[CallOf[h]] \in Instances
    BY HookAssumption, OwnerAssumption
  <2>2. CASE RequestFails(h) \/ Judge(h) \/ Poll(h)
    BY <2>2 DEF RequestFails, Judge, Poll, vars
  <2>3. ASSUME NEW heard \in BOOLEAN, Beat(h, heard) \/ Join(h, heard) \/ Rebeat(h, heard)
        PROVE  reviews'[c] = reviews[c]
    BY <1>0, <2>1, <2>3, EngineKeepsApproved DEF Beat, Join, Rebeat, Reviewer
  <2>4. ASSUME NEW heard \in BOOLEAN, NEW p \in Payloads, Ask(h, p, heard)
        PROVE  reviews'[c] = reviews[c]
    BY <1>0, <2>1, <2>4, EngineKeepsApproved DEF Ask
  <2> QED BY <1>2, <2>2, <2>3, <2>4 DEF Process
<1>3. ASSUME NEW h \in Hooks, Report(h)
      PROVE  \/ reviews'[c] = reviews[c]
             \/ /\ tool[c] \in Results
                /\ reviews[c].execution = "awaiting_execution"
                /\ reviews'[c] = [reviews[c] EXCEPT !.execution = tool[c]]
  <2>1. CallOf[h] \in Calls
    BY HookAssumption
  <2>2. Confirmed(CallOf[h]) \in Results /\ Confirmed(CallOf[h]) = tool[CallOf[h]]
    BY <1>3, ReportKnows DEF Report, Confirmed, Results
  <2>3. CASE UNCHANGED vars
    BY <2>3 DEF vars
  <2>4. CASE Result(CallOf[h], Owner[CallOf[h]], Confirmed(CallOf[h]))
    BY <1>0, <2>1, <2>2, <2>4, CommitEffect DEF Result
  <2> QED BY <1>3, <2>3, <2>4 DEF Report
<1>4. CASE Service \/ Time \/ UNCHANGED allVars
  BY <1>0, <1>4, EngineKeepsApproved DEF Service, Time, allVars, vars
<1> QED BY <1>1, <1>2, <1>3, <1>4 DEF HookNext

(* A result appears only by a report, and then it is the tool's. *)
LEMMA ResultsAppear ==
    ASSUME Inv, HookInv, [HookNext]_allVars, NEW c \in Calls,
           reviews'[c].execution \in Results
    PROVE  \/ reviews[c].execution = reviews'[c].execution
           \/ tool[c] \in Results /\ reviews'[c].execution = tool[c]
<1>1. Effect(c) /\ reviews[c] \in ReviewRecords
  BY EngineStep, StepEffect DEF Inv, TypeOK
<1>2. CASE reviews[c].decision = "approve"
  BY <1>1, <1>2, OnlyReports DEF ReviewRecords
<1>3. CASE reviews[c].decision # "approve"
  <2>1. Kept(c) \/ Transferred(c)
    BY <1>1, <1>3 DEF Effect, ByPolicy, QueuedForHuman, AskedOfModel, Queued, ByHuman,
                      ByModel, Withdrawn, Closes, Reported, Results
  <2> QED BY <1>1, <2>1 DEF Kept, Transferred, ReviewRecords
<1> QED BY <1>2, <1>3

(* A result that is in the record stays. *)
LEMMA ResultsStay ==
    ASSUME Inv, HookInv, [HookNext]_allVars, NEW c \in Calls,
           reviews[c].execution \in Results
    PROVE  reviews'[c] = reviews[c]
<1>1. reviews[c].decision = "approve" /\ reviews[c].execution # "awaiting_execution"
  <2>1. reviews[c].decision \in {"none", "pending", "approve", "reject"}
    BY DEF Inv, TypeOK, ReviewRecords
  <2>2. reviews[c].decision # "none"
    BY DEF Inv, LifeCycle, Unasked, Results
  <2>3. reviews[c].decision \notin {"pending", "reject"}
    BY DEF Inv, LifeCycle, Results
  <2> QED BY <2>1, <2>2, <2>3 DEF Results
<1> QED BY <1>1, OnlyReports

-----------------------------------------------------------------------------
(* The inductive invariant *)

LEMMA OutcomesStep ==
    ASSUME Inv, HookInv, ResultInv, [HookNext]_allVars, NEW c \in Calls
    PROVE  /\ Ran(c)' => tool'[c] \in outcomes'[c]
           /\ outcomes[c] \subseteq outcomes'[c]
<1>0. HookTypeOK
  BY DEF HookInv
<1>1. ASSUME NEW d \in Calls, AgentCalls(d) \/ AgentBlocked(d)
      PROVE  (Ran(c)' => Ran(c) /\ tool'[c] = tool[c]) /\ outcomes' = outcomes
  BY <1>0, <1>1 DEF AgentCalls, AgentBlocked, HookTypeOK, Ran
<1>2. ASSUME NEW d \in Calls, NEW o \in {"succeeded", "failed", "unknown"}, AgentRuns(d, o)
      PROVE  /\ Ran(c)' => tool'[c] \in outcomes'[c]
             /\ outcomes[c] \subseteq outcomes'[c]
  <2>1. CASE c = d
    BY <1>0, <1>2, <2>1 DEF AgentRuns, HookTypeOK
  <2>2. CASE c # d
    BY <1>0, <1>2, <2>2 DEF AgentRuns, HookTypeOK, Ran, ResultInv
  <2> QED BY <2>1, <2>2
<1>3. ASSUME NEW h \in Hooks, Process(h) PROVE UNCHANGED <<tool, outcomes>>
  BY <1>3 DEF Process, RequestFails, Beat, Join, Rebeat, Ask, Judge, Poll, Report
<1>4. CASE Service \/ Time \/ UNCHANGED allVars
  BY <1>4 DEF Service, Time, allVars, hookVars, Ran, ResultInv
<1> QED BY <1>1, <1>2, <1>3, <1>4 DEF HookNext, Ran, ResultInv

(* The Agent's start of a process notes whether a result is known. *)
LEMMA StartNotes ==
    ASSUME HookTypeOK, NEW c \in Calls, NEW event \in {"pre", "post"}, Start(c, event),
           NEW h \in Hooks, CallOf[h] = c
    PROVE  /\ hook'[h].pc = "beat"
           /\ hook'[h].replay => reviews[c].execution \in Results
<1> DEFINE known == reviews[c].execution \in {"succeeded", "failed"}
<1>1. hook'[h] = [hook[h] EXCEPT !.event = event, !.pc = "beat", !.replay = known]
  BY DEF Start
<1>2. hook[h] \in HookRecords
  BY DEF HookTypeOK
<1> HIDE DEF known
<1>3. hook'[h].pc = "beat" /\ hook'[h].replay = known
  BY <1>1, <1>2 DEF HookRecords
<1> QED BY <1>3 DEF known, Results

LEMMA ReplayStep ==
    ASSUME Inv, HookInv, ResultInv, [HookNext]_allVars, NEW g \in Hooks
    PROVE  ReplayOf(g)'
<1>0. /\ HookTypeOK /\ ReplayOf(g) /\ CallOf[g] \in Calls /\ hook[g] \in HookRecords
      /\ reviews[CallOf[g]].execution \in Results
            => reviews'[CallOf[g]] = reviews[CallOf[g]]
  BY ResultsStay, HookAssumption DEF HookInv, HookTypeOK, ResultInv
<1>1. ASSUME hook'[g] = hook[g] PROVE ReplayOf(g)'
  BY <1>0, <1>1 DEF ReplayOf
<1>2. ASSUME NEW c \in Calls, NEW event \in {"pre", "post"}, Start(c, event), UNCHANGED vars
      PROVE  ReplayOf(g)'
  <2>1. CASE CallOf[g] = c
    <3>1. hook'[g].pc = "beat" /\ (hook'[g].replay => reviews[c].execution \in Results)
      BY <1>0, <1>2, <2>1, StartNotes
    <3>2. reviews' = reviews
      BY <1>2 DEF vars
    <3> QED BY <2>1, <3>1, <3>2 DEF ReplayOf
  <2>2. CASE CallOf[g] # c
    BY <1>0, <1>1, <1>2, <2>2, StartEffect
  <2> QED BY <2>1, <2>2
<1>3. ASSUME NEW h \in Hooks, Process(h), g # h PROVE hook'[g] = hook[g]
  BY <1>0, <1>3 DEF Process, RequestFails, Beat, Join, Rebeat, Ask, Judge, Poll, Report,
                    Goto, HookTypeOK
<1>4. ASSUME Process(g) PROVE ReplayOf(g)'
  <2>1. ASSUME NEW pc \in Requests \cup Ended \cup {"judge"},
               hook'[g] = [hook[g] EXCEPT !.pc = pc],
               pc = "allowed" => ~ (hook[g].event = "pre" /\ hook[g].replay),
               pc # "judge"
        PROVE  ReplayOf(g)'
    <3>1. /\ hook'[g].pc = pc /\ hook'[g].event = hook[g].event
          /\ hook'[g].replay = hook[g].replay
      BY <1>0, <2>1 DEF HookRecords
    <3> QED BY <1>0, <2>1, <3>1 DEF ReplayOf
  <2>2. CASE RequestFails(g) \/ Report(g) \/ \E heard \in BOOLEAN : Beat(g, heard) \/ Join(g, heard)
    <3>1. PICK pc \in {"register", "denied", "ended", "submit", "report"} : Goto(g, pc)
      BY <1>0, <2>2, NextPlace DEF RequestFails, Report, Beat, Join
    <3>2. hook'[g] = [hook[g] EXCEPT !.pc = pc]
      BY <1>0, <3>1, GotoEffect
    <3>3. pc \in Requests \cup Ended \cup {"judge"} /\ pc # "allowed" /\ pc # "judge"
      BY DEF Requests, Ended
    <3> QED BY <2>1, <3>2, <3>3
  <2>3. ASSUME NEW heard \in BOOLEAN, Rebeat(g, heard) PROVE ReplayOf(g)'
    <3>1. hook'[g] = [hook[g] EXCEPT !.pc = IF heard THEN "poll" ELSE "denied",
                                     !.lastBeat = clock]
      BY <1>0, <2>3 DEF Rebeat, HookTypeOK
    <3>2. /\ hook'[g].pc \in {"poll", "denied"} /\ hook'[g].event = hook[g].event
          /\ hook'[g].replay = hook[g].replay
      BY <1>0, <3>1 DEF HookRecords
    <3> QED BY <1>0, <3>2 DEF ReplayOf
  <2>4. ASSUME NEW heard \in BOOLEAN, NEW p \in Payloads, Ask(g, p, heard) PROVE ReplayOf(g)'
    <3> DEFINE view == HookView(reviews'[CallOf[g]])
    <3>1. hook'[g] = [hook[g] EXCEPT !.pc = IF heard THEN "judge" ELSE "denied", !.payload = p,
                                     !.answer = view, !.lastBeat = clock]
      BY <1>0, <2>4 DEF Ask, HookTypeOK
    <3>2. view.execution = reviews'[CallOf[g]].execution
      BY DEF HookView
    <3> HIDE DEF view
    <3>3. /\ hook'[g].pc \in {"judge", "denied"} /\ hook'[g].event = hook[g].event
          /\ hook'[g].replay = hook[g].replay /\ hook'[g].answer = view
      BY <1>0, <3>1 DEF HookRecords
    <3> QED BY <1>0, <3>2, <3>3 DEF ReplayOf
  <2>5. ASSUME Judge(g) PROVE ReplayOf(g)'
    <3>1. PICK pc \in {"allowed", "denied", "rebeat", "poll"} :
             Goto(g, pc) /\ (pc = "allowed" => Allows(g))
      <4>1. CASE Allows(g)
        BY <2>5, <4>1 DEF Judge
      <4>2. CASE ~ Allows(g) /\ ~ Waits(g)
        BY <2>5, <4>2 DEF Judge
      <4>3. CASE ~ Allows(g) /\ Waits(g)
        BY <2>5, <4>3 DEF Judge
      <4> QED BY <4>1, <4>2, <4>3
    <3>2. hook'[g] = [hook[g] EXCEPT !.pc = pc]
      BY <1>0, <3>1, GotoEffect
    <3>3. pc = "allowed" => ~ (hook[g].event = "pre" /\ hook[g].replay)
      BY <1>0, <2>5, <3>1 DEF Judge, Allows, ReplayOf, Results
    <3>4. pc \in Requests \cup Ended \cup {"judge"} /\ pc # "judge"
      BY DEF Requests, Ended
    <3> QED BY <2>1, <3>2, <3>3, <3>4
  <2>6. ASSUME Poll(g) PROVE ReplayOf(g)'
    <3> DEFINE view == HookView(reviews[CallOf[g]])
    <3>1. hook'[g] = [hook[g] EXCEPT !.pc = "judge", !.answer = view]
      BY <1>0, <2>6 DEF Poll, HookTypeOK
    <3>2. view.execution = reviews[CallOf[g]].execution
      BY DEF HookView
    <3> HIDE DEF view
    <3>3. /\ hook'[g].pc = "judge" /\ hook'[g].event = hook[g].event
          /\ hook'[g].replay = hook[g].replay /\ hook'[g].answer = view
      BY <1>0, <3>1 DEF HookRecords
    <3> QED BY <1>0, <3>2, <3>3 DEF ReplayOf
  <2> QED BY <1>4, <2>2, <2>3, <2>4, <2>5, <2>6 DEF Process
<1>5. CASE Service \/ Time \/ UNCHANGED allVars \/ \E c \in Calls : AgentBlocked(c)
  BY <1>1, <1>5 DEF Service, Time, AgentBlocked, allVars, hookVars
<1>6. ASSUME NEW c \in Calls, AgentCalls(c) PROVE ReplayOf(g)'
  BY <1>2, <1>6 DEF AgentCalls
<1>7. ASSUME NEW c \in Calls, NEW o \in {"succeeded", "failed", "unknown"}, AgentRuns(c, o)
      PROVE  ReplayOf(g)'
  BY <1>2, <1>7 DEF AgentRuns
<1> QED BY <1>1, <1>3, <1>4, <1>5, <1>6, <1>7 DEF HookNext

LEMMA ResultInvStep ==
    Inv /\ HookInv /\ ResultInv /\ [HookNext]_allVars => ResultInv'
<1> SUFFICES ASSUME Inv, HookInv, ResultInv, [HookNext]_allVars PROVE ResultInv'
  OBVIOUS
<1>1. ASSUME NEW c \in Calls, reviews'[c].execution \in {"succeeded", "failed"}
      PROVE  reviews'[c].execution \in outcomes'[c]
  <2>1. \/ reviews[c].execution = reviews'[c].execution
        \/ tool[c] \in Results /\ reviews'[c].execution = tool[c]
    BY <1>1, ResultsAppear DEF Results
  <2>2. reviews'[c].execution \in outcomes[c]
    BY <1>1, <2>1 DEF ResultInv, ReportsAreTrue, Ran, Results
  <2> QED BY <2>2, OutcomesStep
<1>2. ReportsAreTrue'
  BY <1>1 DEF ReportsAreTrue
<1>3. \A c \in Calls : Ran(c)' => tool'[c] \in outcomes'[c]
  BY OutcomesStep
<1>4. \A h \in Hooks : ReplayOf(h)'
  BY ReplayStep
<1> QED BY <1>2, <1>3, <1>4 DEF ResultInv

-----------------------------------------------------------------------------
(* Theorems *)

(* What is reported is what ran, and a process that starts after a report  *)
(* is told of it: the inductive invariant, with the hooks' and the         *)
(* engine's.                                                               *)
THEOREM ResultInvariantHolds == HookSpec => [](Inv /\ HookInv /\ ResultInv)
<1>1. HookInit => ResultInv
  BY HookAssumption DEF HookInit, Init, Idle, Unasked, ResultInv, ReportsAreTrue, Ran, ReplayOf
<1>2. Inv /\ HookInv /\ ResultInv /\ [HookNext]_allVars => ResultInv'
  BY ResultInvStep
<1> QED BY <1>1, <1>2, HookInvariantHolds, PTL DEF HookSpec

(* No retry, second hook or restart makes a failure a success (Result and  *)
(* bridge.go's resultState).                                               *)
THEOREM ResultsAreTrue == HookSpec => []ReportsAreTrue
<1>1. ResultInv => ReportsAreTrue
  BY DEF ResultInv
<1> QED BY <1>1, ResultInvariantHolds, PTL

(* A hook that starts when the result is known never allows the call.      *)
THEOREM ReplaysAreDenied == HookSpec => []ReplayIsDenied
<1>1. ResultInv => ReplayIsDenied
  BY DEF ResultInv, ReplayOf, ReplayIsDenied
<1> QED BY <1>1, ResultInvariantHolds, PTL
=============================================================================
