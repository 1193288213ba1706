------------------------ MODULE ReviewHistoryProofs -------------------------
(***************************************************************************)
(* What becomes of one call, for every set of calls, sessions and payloads *)
(* and every bound.  The review engine implements the contract of          *)
(* ReviewContract: its first state is the contract's, and each step is,    *)
(* for every call, a move of the contract or none.  (That every call is    *)
(* answered is checked by TLC.)  The audit rows are the exact history of a *)
(* call, and no call is allowed after its session.                         *)
(***************************************************************************)
EXTENDS ReviewEngineProofs, SequenceTheorems

(* Every record stands for a state of the contract. *)
LEMMA PromiseType ==
    ASSUME NEW r \in ReviewRecords
    PROVE  Promise(r) \in Contract!States
<1>1. Stage(r) \in {"unasked", "waiting", "allowed", "refused", "reported"}
  BY DEF Stage, ReviewRecords
<1>2. Judges(r.by) \in {"none", "policy", "human", "model", "engine"}
  BY DEF Judges, ReviewRecords, Deciders, Engines
<1>3. Stage(r) = "reported" => r.execution \in {"succeeded", "failed", "not_executed"}
  BY DEF Stage, ReviewRecords
<1>4. r.payload \in Payloads \cup {NoPayload}
  BY DEF ReviewRecords
<1> QED BY <1>1, <1>2, <1>3, <1>4 DEF Promise, Contract!States

LEMMA PromiseUnasked == Promise(Unasked) = Contract!NotSubmitted
BY DEF Promise, Unasked, Stage, Judges, Engines, Contract!NotSubmitted, Contract!At

(* A waiting review stands for a call that waits, without a judge. *)
LEMMA PromisePending ==
    ASSUME NEW r, r.decision = "pending", r.by = "none"
    PROVE  Promise(r) = [stage |-> "waiting", judge |-> "none",
                         payload |-> r.payload, outcome |-> "none"]
BY DEF Promise, Stage, Judges, Engines

(* A review that was just decided stands for an allowed or a refused call. *)
LEMMA PromiseClosed ==
    ASSUME NEW r, NEW d \in {"approve", "reject"}, r.decision = d,
           d = "approve" => r.execution = "awaiting_execution"
    PROVE  Promise(r) = [stage |-> IF d = "approve" THEN "allowed" ELSE "refused",
                         judge |-> Judges(r.by), payload |-> r.payload,
                         outcome |-> "none"]
BY DEF Promise, Stage

LEMMA MoveStep ==
    ASSUME Inv, [Next]_vars, NEW c \in Calls
    PROVE  \/ Promise(reviews'[c]) = Promise(reviews[c])
           \/ Contract!Moves(Promise(reviews[c]), Promise(reviews'[c]))
<1> DEFINE r == reviews[c]
           s == reviews'[c]
<1>1. Effect(c)
  BY StepEffect DEF Inv
<1>2. /\ LifeCycle
      /\ r \in ReviewRecords
      /\ r.decision = "none" => r = Unasked
      /\ r.decision = "pending" => r.by = "none"
  BY DEF Inv, TypeOK, LifeCycle
<1>3. CASE Kept(c)
  BY <1>3 DEF Kept
<1>4. CASE ByPolicy(c)
  <2>1. PICK p \in Payloads, d \in {"approve", "reject"}, by \in {"SCOPE", "RULE"} :
             /\ d = "approve" => p \notin Incomplete
             /\ s.payload = p /\ s.decision = d /\ s.by = by
             /\ d = "approve" => s.execution = "awaiting_execution"
    BY <1>4 DEF ByPolicy, Submits
  <2>2. Judges(s.by) = "policy"
    BY <2>1 DEF Judges, Engines
  <2> DEFINE stage == IF d = "approve" THEN "allowed" ELSE "refused"
  <2>3. Promise(s) = [stage |-> stage, judge |-> "policy", payload |-> p,
                      outcome |-> "none"]
    BY <2>1, <2>2, PromiseClosed
  <2>4. Promise(r) = Contract!NotSubmitted
    BY <1>2, <1>4, PromiseUnasked DEF ByPolicy
  <2>5. stage = "allowed" => Contract!MayAllow("policy", p)
    BY <2>1 DEF Contract!MayAllow
  <2>6. stage \in {"allowed", "refused"}
    OBVIOUS
  <2> HIDE DEF stage
  <2>8. Contract!AskAndJudge(Promise(r), Promise(s))
    BY <2>3, <2>4, <2>5, <2>6 DEF Contract!AskAndJudge, Contract!At
  <2> QED BY <2>8 DEF Contract!Moves
<1>5. CASE QueuedForHuman(c) \/ AskedOfModel(c)
  <2>1. PICK p \in Payloads : s.payload = p
    BY <1>5 DEF QueuedForHuman, AskedOfModel, Submits
  <2>2. s.decision = "pending" /\ s.by = "none"
    BY <1>5 DEF QueuedForHuman, AskedOfModel, Queued
  <2>3. Promise(s) = [stage |-> "waiting", judge |-> "none", payload |-> p,
                      outcome |-> "none"]
    BY <2>1, <2>2, PromisePending
  <2>4. Promise(r) = Contract!NotSubmitted
    BY <1>2, <1>5, PromiseUnasked DEF QueuedForHuman, AskedOfModel
  <2>6. Contract!Ask(Promise(r), Promise(s))
    BY <2>3, <2>4 DEF Contract!Ask, Contract!At
  <2> QED BY <2>6 DEF Contract!Moves
<1>6. ASSUME r.decision = "pending",
             NEW d \in {"approve", "reject"}, NEW by \in Deciders, Closes(c, d, by),
             Judges(by) \in {"human", "model", "engine"},
             d = "approve" => \/ by = "HUMAN"
                              \/ by = "MODEL" /\ r.payload \notin Incomplete
      PROVE  Contract!Moves(Promise(r), Promise(s))
  <2> DEFINE stage == IF d = "approve" THEN "allowed" ELSE "refused"
             judge == Judges(by)
  <2>1. Promise(r) = [stage |-> "waiting", judge |-> "none", payload |-> r.payload,
                      outcome |-> "none"]
    BY <1>2, <1>6, PromisePending
  <2>2. Promise(s) = [stage |-> stage, judge |-> judge, payload |-> r.payload,
                      outcome |-> "none"]
    BY <1>6, PromiseClosed DEF Closes
  <2>3. stage = "allowed" => Contract!MayAllow(judge, r.payload)
    BY <1>6 DEF Contract!MayAllow, Judges, Engines
  <2>4. stage \in {"allowed", "refused"}
    OBVIOUS
  <2>5. judge \in {"human", "model", "engine"}
    BY <1>6
  <2> HIDE DEF stage, judge
  <2>7. Promise(r).stage = "waiting" /\ Promise(r).payload = r.payload
    BY <2>1
  <2>8. Contract!Judge(Promise(r), Promise(s))
    BY <2>2, <2>3, <2>4, <2>5, <2>7 DEF Contract!Judge, Contract!At
  <2> QED BY <2>8 DEF Contract!Moves
<1>7. CASE ByHuman(c)
  <2>1. Judges("HUMAN") = "human" /\ "HUMAN" \in Deciders
    BY DEF Judges, Deciders, Engines
  <2> QED BY <1>6, <1>7, <2>1 DEF ByHuman, Pending
<1>8. CASE ByModel(c)
  <2>1. PICK d \in {"approve", "reject"}, by \in {"MODEL", "E_MODEL"} :
             /\ d = "approve" => by = "MODEL" /\ r.payload \notin Incomplete
             /\ Closes(c, d, by)
    BY <1>8 DEF ByModel
  <2>2. by \in Deciders /\ Judges(by) \in {"model", "engine"}
    BY DEF Judges, Deciders, Engines
  <2> QED BY <1>6, <1>8, <2>1, <2>2 DEF ByModel, StillAsked, Pending
<1>9. CASE Transferred(c)
  <2>1. /\ s.decision = "pending" /\ s.by = "none" /\ s.payload = r.payload
        /\ r.decision = "pending" /\ r.by = "none"
    BY <1>2, <1>9 DEF Transferred, StillAsked, Pending, ReviewRecords
  <2> QED BY <2>1, PromisePending
<1>10. CASE Reported(c)
  <2>1. PICK e \in {"succeeded", "failed", "not_executed"} :
             s = [r EXCEPT !.execution = e]
    BY <1>10 DEF Reported
  <2>2. r.decision = "approve" /\ r.execution = "awaiting_execution"
    BY <1>10 DEF Reported
  <2>3. Promise(r) = [stage |-> "allowed", judge |-> Judges(r.by),
                      payload |-> r.payload, outcome |-> "none"]
    BY <2>2, PromiseClosed
  <2>4. s.decision = "approve" /\ s.execution = e /\ s.by = r.by /\ s.payload = r.payload
    BY <1>2, <2>1, <2>2 DEF ReviewRecords
  <2>5. Promise(s) = [stage |-> "reported", judge |-> Judges(r.by),
                      payload |-> r.payload, outcome |-> e]
    BY <2>4 DEF Promise, Stage
  <2>7. /\ Promise(r).stage = "allowed"
        /\ Promise(r).judge = Judges(r.by)
        /\ Promise(r).payload = r.payload
    BY <2>3
  <2>8. Contract!Report(Promise(r), Promise(s))
    BY <2>5, <2>7 DEF Contract!Report, Contract!At
  <2> QED BY <2>8 DEF Contract!Moves
<1>11. CASE Withdrawn(c)
  <2>1. PICK by \in {"E_TIMEOUT", "E_SESSION", "E_RESTART"} : Closes(c, "reject", by)
    BY <1>11 DEF Withdrawn
  <2>2. by \in Deciders /\ Judges(by) = "engine"
    BY DEF Judges, Deciders, Engines
  <2> QED BY <1>6, <1>11, <2>1, <2>2 DEF Withdrawn, Pending
<1> QED BY <1>1, <1>3, <1>4, <1>5, <1>7, <1>8, <1>9, <1>10, <1>11 DEF Effect

(* For every sequence of handlers, crashes and lost writes, the engine     *)
(* keeps the contract: one verdict per call, by a judge entitled to it,    *)
(* and an outcome only for what was allowed.                               *)
THEOREM EngineKeepsContract == Spec => KeepsContract
<1> DEFINE state == [c \in Calls |-> Promise(reviews[c])]
<1>1. Init => Contract!Init
  BY PromiseUnasked DEF Init, Contract!Init
<1>2. ASSUME Inv, [Next]_vars PROVE Contract!Next
  <2>1. TypeOK'
    BY <1>2, TypeStep DEF Inv
  <2>2. state' \in [Calls -> Contract!States]
    BY <2>1, PromiseType DEF TypeOK
  <2>3. \A c \in Calls : \/ state'[c] = state[c]
                         \/ Contract!Moves(state[c], state'[c])
    BY <1>2, MoveStep
  <2> QED BY <2>2, <2>3 DEF Contract!Next
<1>3. Inv /\ [Next]_vars => [Contract!Next]_state
  BY <1>2
<1> QED BY <1>1, <1>3, InvariantHolds, PTL DEF Spec, KeepsContract, Contract!Safety

-----------------------------------------------------------------------------
(* The rows of a call that was handed to a human are two. *)
LEMMA AppendToOne ==
    ASSUME NEW x, NEW y
    PROVE  Append(<<x>>, y) = <<x, y>>
<1> DEFINE S == {x, y}
<1>1. <<x>> \in Seq(S) /\ <<x, y>> \in Seq(S)
  OBVIOUS
<1>2. Append(<<x>>, y) \in Seq(S) /\ Len(Append(<<x>>, y)) = Len(<<x, y>>)
  BY <1>1
<1>3. ASSUME NEW i \in 1 .. Len(<<x, y>>)
      PROVE  Append(<<x>>, y)[i] = <<x, y>>[i]
  <2>1. i = 1 \/ i = 2
    OBVIOUS
  <2> QED BY <1>1, <2>1
<1> QED BY <1>1, <1>2, <1>3, SeqEqual

(* What a step does to the record and the rows of one call. *)
Adds(c, action) == audit'[c] = Append(audit[c], action)

Untouched(c) == reviews'[c] = reviews[c] /\ audit'[c] = audit[c]

Asked(c) ==
    LET s == reviews'[c] IN
    /\ reviews[c].decision = "none"
    /\ instances[Owner[c]].state = "connected" /\ instances' = instances
    /\ Adds(c, "submit")
    /\ s.decision = "pending" \/ (s.decision \in {"approve", "reject"} /\ s.by \in {"SCOPE", "RULE"})
    /\ s.decision = "approve" => s.execution = "awaiting_execution"

Closed(c) ==
    /\ Pending(c)
    /\ \E by \in {"HUMAN", "MODEL"} \cup Engines, d \in {"approve", "reject"} :
          Closes(c, d, by) /\ Adds(c, ClosingAction(by))

HandedOver(c) ==
    /\ StillAsked(c)
    /\ instances' = instances
    /\ reviews'[c] = [reviews[c] EXCEPT !.needsHuman = TRUE, !.path = "human"]
    /\ Adds(c, "incomplete")

Told(c) ==
    /\ reviews[c].decision = "approve" /\ reviews[c].execution = "awaiting_execution"
    /\ \E s \in {"succeeded", "failed", "not_executed"} :
          reviews'[c] = [reviews[c] EXCEPT !.execution = s]
    /\ Adds(c, "result")

Trace(c) == Untouched(c) \/ Asked(c) \/ Closed(c) \/ HandedOver(c) \/ Told(c)

LEMMA CommitTrace ==
    ASSUME TypeOK, NEW d \in Calls, NEW r, NEW a, CommitReview(d, r, a), NEW c \in Calls
    PROVE  /\ c = d => reviews'[c] = r /\ Adds(c, a)
           /\ c # d => Untouched(c)
BY DEF CommitReview, TypeOK, Adds, Untouched

LEMMA RejectTrace ==
    ASSUME TypeOK, NEW S \in SUBSET Calls, NEW by, NEW action, RejectAll(S, by, action),
           \A d \in S : /\ Pending(d) /\ by[d] \in Engines
                        /\ action[d] = ClosingAction(by[d]),
           NEW c \in Calls
    PROVE  (c \in S => Closed(c)) /\ (c \notin S => Untouched(c))
<1>1. CASE c \in S
  <2>1. reviews'[c] = Decided(reviews[c], "reject", by[c]) /\ Adds(c, action[c])
    BY <1>1 DEF RejectAll, Adds
  <2>2. Closes(c, "reject", by[c])
    BY <1>1, <2>1, ClosesFields DEF Deciders
  <2> QED BY <1>1, <2>1, <2>2 DEF Closed
<1>2. CASE c \notin S
  BY <1>2 DEF RejectAll, Untouched
<1> QED BY <1>1, <1>2

LEMMA Named ==
    /\ ClosingAction("HUMAN") = "human" /\ ClosingAction("MODEL") = "model"
    /\ ClosingAction("E_MODEL") = "model" /\ ClosingAction("E_TIMEOUT") = "timeout"
    /\ ClosingAction("E_SESSION") = "cancel" /\ ClosingAction("E_RESTART") = "restart"
BY DEF ClosingAction

(* Every step, for every call. *)
LEMMA StepTrace ==
    ASSUME TypeOK, [Next]_vars, NEW c \in Calls
    PROVE  Trace(c)
<1> USE DEF Trace
<1>1. CASE \/ \E i \in Instances : Register(i) \/ Heartbeat(i)
           \/ \E m \in Modes : SaveSettings(m)
           \/ Crash \/ Tick \/ UNCHANGED vars
  BY <1>1 DEF Register, Heartbeat, SaveSettings, Crash, Tick, vars, Untouched
<1>2. ASSUME NEW i \in Instances, NEW lost \in SUBSET Calls, Disconnect(i, lost)
      PROVE  Trace(c)
  <2> DEFINE S == {d \in Calls : Owner[d] = i /\ Pending(d)} \ lost
  <2>1. RejectAll(S, Always("E_SESSION"), Always("cancel"))
    BY <1>2 DEF Disconnect
  <2>2. /\ S \in SUBSET Calls
        /\ \A d \in S : /\ Pending(d) /\ Always("E_SESSION")[d] \in Engines
                        /\ Always("cancel")[d] = ClosingAction(Always("E_SESSION")[d])
    BY Named DEF Always, Engines
  <2> HIDE DEF S
  <2> QED BY <2>1, <2>2, RejectTrace
<1>3. ASSUME NEW d \in Calls, NEW p \in Payloads, NEW v \in PolicyVerdicts, Submit(d, p, v)
      PROVE  Trace(c)
  <2>1. CASE c # d
    BY <1>3, <2>1, CommitTrace DEF Submit, SubmitByPolicy, SubmitToHuman, SubmitToModel
  <2>2. ASSUME c = d
        PROVE  /\ reviews[c].decision = "none" /\ instances' = instances
               /\ instances[Owner[c]].state = "connected"
    BY <1>3, <2>2 DEF Submit, SubmitByPolicy, SubmitToHuman, SubmitToModel, SubmitAccepted, Reachable
  <2>3. CASE c = d /\ SubmitByPolicy(d, p, v)
    <3> DEFINE by == IF v.path = "scope" THEN "SCOPE" ELSE "RULE"
    <3>1. /\ reviews'[c] = [Decided(NewReview(p), v.decision, by) EXCEPT !.path = v.path]
          /\ Adds(c, "submit")
      BY <2>3, CommitTrace DEF SubmitByPolicy
    <3>2. v.decision \in {"approve", "reject"} /\ by \in {"SCOPE", "RULE"}
      BY <2>3 DEF SubmitByPolicy, PolicyVerdicts, NoVerdict
    <3> HIDE DEF by
    <3>3. /\ reviews'[c].decision = v.decision /\ reviews'[c].by = by
          /\ v.decision = "approve" => reviews'[c].execution = "awaiting_execution"
      BY <3>1, <3>2 DEF Decided, NewReview, Unasked
    <3> QED BY <2>2, <2>3, <3>1, <3>2, <3>3 DEF Asked
  <2>4. CASE c = d /\ SubmitToHuman(d, p, v)
    <3>1. /\ reviews'[c] = [NewReview(p) EXCEPT !.path = "human", !.needsHuman = TRUE]
          /\ Adds(c, "submit")
      BY <2>4, CommitTrace DEF SubmitToHuman
    <3>2. Queued(c, "human")
      BY <3>1, QueuedFields
    <3> QED BY <2>2, <2>4, <3>1, <3>2 DEF Asked, Queued
  <2>5. CASE c = d /\ SubmitToModel(d, p, v)
    <3>1. /\ reviews'[c] = [NewReview(p) EXCEPT !.path = "model", !.deadline = clock + ModelWait]
          /\ Adds(c, "submit")
      BY <2>5, CommitTrace DEF SubmitToModel
    <3>2. Queued(c, "model")
      BY <3>1, QueuedFields
    <3> QED BY <2>2, <2>5, <3>1, <3>2 DEF Asked, Queued
  <2> QED BY <1>3, <2>1, <2>3, <2>4, <2>5 DEF Submit
<1>4. ASSUME NEW d \in Calls, NEW p \in Payloads, NEW v \in {"approve", "reject"}, Decide(d, p, v)
      PROVE  Trace(c)
  <2>1. CASE c # d
    BY <1>4, <2>1, CommitTrace DEF Decide
  <2>2. CASE c = d
    <3>1. reviews'[c] = Decided(reviews[c], v, "HUMAN") /\ Adds(c, "human") /\ Pending(c)
      BY <1>4, <2>2, CommitTrace DEF Decide
    <3>2. Closes(c, v, "HUMAN")
      BY <3>1, ClosesFields DEF Deciders
    <3> QED BY <3>1, <3>2, Named DEF Closed
  <2> QED BY <2>1, <2>2
<1>5. ASSUME NEW d \in Calls, NEW i \in Instances,
             NEW s \in {"succeeded", "failed", "not_executed"}, Result(d, i, s)
      PROVE  Trace(c)
  <2>1. CASE c # d
    BY <1>5, <2>1, CommitTrace DEF Result
  <2>2. CASE c = d
    <3>1. reviews'[c] = [reviews[c] EXCEPT !.execution = s] /\ Adds(c, "result")
      BY <1>5, <2>2, CommitTrace DEF Result
    <3> QED BY <1>5, <2>2, <3>1 DEF Result, Told
  <2> QED BY <2>1, <2>2
<1>6. ASSUME NEW d \in Calls, ModelReview(d) PROVE Trace(c)
  <2>1. CASE ModelTooLate(d) \/ ModelLost(d)
    BY <2>1 DEF ModelTooLate, ModelLost, Untouched
  <2>2. CASE ModelTransfers(d)
    <3>1. CASE c # d
      BY <2>2, <3>1, CommitTrace DEF ModelTransfers
    <3>2. CASE c = d
      <4>1. /\ reviews'[c] = [reviews[c] EXCEPT !.needsHuman = TRUE, !.path = "human"]
            /\ Adds(c, "incomplete")
        BY <2>2, <3>2, CommitTrace DEF ModelTransfers
      <4> QED BY <2>2, <3>2, <4>1 DEF ModelTransfers, ModelReturns, HandedOver
    <3> QED BY <3>1, <3>2
  <2>3. ASSUME NEW a \in {"approve", "reject", "error"}, ModelDecides(d, a) PROVE Trace(c)
    <3>1. CASE c # d
      BY <2>3, <3>1, CommitTrace DEF ModelDecides
    <3>2. CASE c = d
      <4> DEFINE by == IF a = "error" THEN "E_MODEL" ELSE "MODEL"
                 v == IF a = "error" THEN "reject" ELSE a
      <4>1. reviews'[c] = Decided(reviews[c], v, by) /\ Adds(c, "model") /\ Pending(c)
        BY <2>3, <3>2, CommitTrace DEF ModelDecides, StillAsked
      <4>2. v \in {"approve", "reject"} /\ by \in {"MODEL", "E_MODEL"}
        OBVIOUS
      <4> HIDE DEF by, v
      <4>3. Closes(c, v, by)
        BY <4>1, <4>2, ClosesFields DEF Deciders, Engines
      <4>4. by \in {"HUMAN", "MODEL"} \cup Engines /\ ClosingAction(by) = "model"
        BY <4>2, Named DEF Engines
      <4> QED BY <4>1, <4>2, <4>3, <4>4 DEF Closed
    <3> QED BY <3>1, <3>2
  <2> QED BY <1>6, <2>1, <2>2, <2>3 DEF ModelReview
<1>7. ASSUME NEW lost \in SUBSET Calls, Expire(lost) PROVE Trace(c)
  <2> DEFINE by == [d \in Calls |-> IF Overdue(d) THEN "E_TIMEOUT" ELSE "E_SESSION"]
             action == [d \in Calls |-> IF Overdue(d) THEN "timeout" ELSE "cancel"]
  <2>1. RejectAll(Due \ lost, by, action)
    BY <1>7 DEF Expire
  <2>2. /\ Due \ lost \in SUBSET Calls
        /\ \A d \in Due \ lost : /\ Pending(d) /\ by[d] \in Engines
                                 /\ action[d] = ClosingAction(by[d])
    BY Named DEF Due, Engines
  <2> HIDE DEF by, action
  <2> QED BY <2>1, <2>2, RejectTrace
<1>8. ASSUME NEW lost \in SUBSET Calls,
             RejectAll(Leftover \ lost, Always("E_RESTART"), Always("restart"))
      PROVE  Trace(c)
  <2>1. /\ Leftover \ lost \in SUBSET Calls
        /\ \A d \in Leftover \ lost :
              /\ Pending(d) /\ Always("E_RESTART")[d] \in Engines
              /\ Always("restart")[d] = ClosingAction(Always("E_RESTART")[d])
    BY Named DEF Leftover, Always, Engines
  <2> QED BY <1>8, <2>1, RejectTrace
<1>9. ASSUME NEW stale \in SUBSET Instances, Open(stale) PROVE Trace(c)
  <2>1. Leftover \ {} = Leftover /\ {} \in SUBSET Calls
    OBVIOUS
  <2> QED BY <1>8, <1>9, <2>1 DEF Open
<1>10. ASSUME NEW lost \in SUBSET Calls, OpenFails(lost) PROVE Trace(c)
  BY <1>8, <1>10 DEF OpenFails
<1> QED BY <1>1, <1>2, <1>3, <1>4, <1>5, <1>6, <1>7, <1>9, <1>10 DEF Next

-----------------------------------------------------------------------------
(* The rows are the history. *)

LEMMA TrailStep ==
    ASSUME Inv, AuditTrail, [Next]_vars, NEW c \in Calls
    PROVE  audit'[c] \in Trails(reviews'[c])
<1> DEFINE r == reviews[c]
           s == reviews'[c]
<1>0. TypeOK /\ Trace(c) /\ audit[c] \in Trails(r) /\ r \in ReviewRecords
  BY StepTrace DEF Inv, AuditTrail, TypeOK
<1>1. CASE Untouched(c)
  BY <1>0, <1>1 DEF Untouched
<1>2. CASE Asked(c)
  <2>1. audit[c] = <<>>
    BY <1>0, <1>2 DEF Asked, Trails
  <2>2. audit'[c] = <<"submit">>
    BY <1>2, <2>1 DEF Asked, Adds
  <2>3. <<"submit">> \in Openings(s)
    BY DEF Openings
  <2>4. Trails(s) = Openings(s)
    BY <1>2 DEF Asked, Trails, Verdicts
  <2> QED BY <2>2, <2>3, <2>4
<1>3. CASE Closed(c)
  <2>1. PICK by \in {"HUMAN", "MODEL"} \cup Engines, d \in {"approve", "reject"} :
           Closes(c, d, by) /\ Adds(c, ClosingAction(by)) /\ r.decision = "pending"
    BY <1>3 DEF Closed, Pending
  <2>2. by \notin {"SCOPE", "RULE"}
    BY DEF Engines
  <2>3. audit[c] \in Openings(r)
    BY <1>0, <2>1 DEF Trails, Verdicts
  <2>4. Openings(s) = Openings(r)
    BY <2>1 DEF Closes, Openings
  <2>5. Trails(s) = {Append(t, ClosingAction(by)) : t \in Openings(s)}
    BY <2>1, <2>2 DEF Closes, Trails, Verdicts
  <2> QED BY <2>1, <2>3, <2>4, <2>5 DEF Adds
<1>4. CASE HandedOver(c)
  <2>1. r.decision = "pending" /\ r.path = "model" /\ r.mode = "model"
    BY <1>4 DEF HandedOver, StillAsked, Pending, Inv, QueueConsistent
  <2>2. s.decision = "pending" /\ s.path = "human" /\ s.mode = "model"
    BY <1>0, <1>4, <2>1 DEF HandedOver, ReviewRecords
  <2>3. audit[c] = <<"submit">>
    BY <1>0, <2>1 DEF Trails, Verdicts, Openings
  <2>4. audit'[c] = <<"submit", "incomplete">>
    <3>1. audit'[c] = Append(audit[c], "incomplete")
      BY <1>4 DEF HandedOver, Adds
    <3>2. Append(<<"submit">>, "incomplete") = <<"submit", "incomplete">>
      BY AppendToOne
    <3> QED BY <2>3, <3>1, <3>2
  <2>5. Trails(s) = Openings(s)
    <3> HIDE DEF s
    <3> QED BY <2>2 DEF Trails, Verdicts
  <2>6. <<"submit", "incomplete">> \in Openings(s)
    <3> HIDE DEF s
    <3> QED BY <2>2 DEF Openings
  <2> QED BY <2>4, <2>5, <2>6
<1>5. CASE Told(c)
  <2>1. PICK e \in {"succeeded", "failed", "not_executed"} : s = [r EXCEPT !.execution = e]
    BY <1>5 DEF Told
  <2>2. /\ s.execution = e /\ s.decision = r.decision /\ s.by = r.by /\ s.path = r.path
        /\ s.mode = r.mode
    BY <1>0, <2>1 DEF ReviewRecords
  <2>3. r.decision = "approve" /\ r.execution = "awaiting_execution" /\ Adds(c, "result")
    BY <1>5 DEF Told
  <2>4. audit[c] \in Verdicts(r)
    BY <1>0, <2>3 DEF Trails
  <2>5. Verdicts(s) = Verdicts(r)
    BY <2>2 DEF Verdicts, Openings
  <2>6. Trails(s) = {Append(t, "result") : t \in Verdicts(s)}
    BY <2>1, <2>2, <2>3 DEF Trails
  <2> QED BY <2>3, <2>4, <2>5, <2>6 DEF Adds
<1> QED BY <1>0, <1>1, <1>2, <1>3, <1>4, <1>5 DEF Trace

(* Each handler commits its row with its record, so the rows of a call are *)
(* exactly what its record went through, at any moment and after a crash.  *)
THEOREM RowsAreTheHistory == Spec => []AuditTrail
<1>1. Init => AuditTrail
  BY DEF Init, AuditTrail, Trails, Unasked
<1>2. Inv /\ AuditTrail /\ [Next]_vars => AuditTrail'
  BY TrailStep DEF AuditTrail
<1> QED BY <1>1, <1>2, InvariantHolds, PTL DEF Spec

-----------------------------------------------------------------------------
(* Sessions *)

(* As long as no write is lost, whoever waits has a connected session. *)
WaitersConnected ==
    \A c \in Calls : faults = 0 /\ Pending(c) => instances[Owner[c]].state = "connected"

LEMMA FaultsCount ==
    ASSUME TypeOK, [Next]_vars, faults' = 0
    PROVE  faults = 0
<1>1. faults' = faults \/ \E lost : Lose(lost)
  BY DEF Next, Register, Heartbeat, Disconnect, Submit, SubmitByPolicy, SubmitToHuman,
     SubmitToModel, SubmitAccepted, Decide, Result, ModelReview, ModelTooLate, ModelTransfers,
     ModelDecides, ModelReturns, ModelLost, Expire, SaveSettings, Crash, Open, OpenFails,
     Tick, vars
<1> QED BY <1>1, LoseEffect

LEMMA SessionStep ==
    ASSUME TypeOK, WaitersConnected, [Next]_vars, NEW c \in Calls, faults' = 0, Pending(c)'
    PROVE  instances'[Owner[c]].state = "connected"
<1>0. Trace(c) /\ Owner[c] \in Instances /\ instances \in [Instances -> InstanceRecords]
  BY StepTrace, OwnerAssumption DEF TypeOK
<1>1. faults = 0
  BY FaultsCount
<1>2. CASE Asked(c)
  BY <1>2 DEF Asked
<1>3. CASE HandedOver(c)
  BY <1>1, <1>3 DEF HandedOver, StillAsked, WaitersConnected
<1>4. CASE Closed(c) \/ Told(c)
  <2>1. reviews[c] \in ReviewRecords
    BY DEF TypeOK
  <2> QED BY <1>4, <2>1 DEF Closed, Closes, Told, Pending, ReviewRecords
<1>5. CASE Untouched(c)
  <2>0. Pending(c) /\ instances[Owner[c]].state = "connected"
    BY <1>1, <1>5 DEF Untouched, Pending, WaitersConnected
  <2>1. ASSUME NEW i \in Instances, Register(i) \/ Heartbeat(i)
        PROVE  instances'[Owner[c]].state = "connected"
    BY <1>0, <2>0, <2>1 DEF Register, Heartbeat, InstanceRecords
  <2>2. ASSUME NEW i \in Instances, NEW lost \in SUBSET Calls, Disconnect(i, lost)
        PROVE  instances'[Owner[c]].state = "connected"
    <3>1. lost = {}
      BY <2>2, LoseEffect DEF Disconnect
    <3>2. CASE Owner[c] = i
      <4>1. reviews'[c] = Decided(reviews[c], "reject", "E_SESSION")
        BY <2>0, <2>2, <3>1, <3>2 DEF Disconnect, RejectAll, Always
      <4>2. Closes(c, "reject", "E_SESSION")
        BY <4>1, ClosesFields DEF Deciders, Engines
      <4> QED BY <4>2 DEF Closes, Pending
    <3>3. CASE Owner[c] # i
      BY <1>0, <2>0, <2>2, <3>3 DEF Disconnect
    <3> QED BY <3>2, <3>3
  <2>3. ASSUME NEW stale \in SUBSET Instances, Open(stale) PROVE FALSE
    <3>1. reviews'[c] = Decided(reviews[c], "reject", "E_RESTART")
      BY <2>0, <2>3 DEF Open, RejectAll, Leftover, Always
    <3>2. Closes(c, "reject", "E_RESTART")
      BY <3>1, ClosesFields DEF Deciders, Engines
    <3> QED BY <3>2 DEF Closes, Pending
  <2>4. CASE ~ \/ \E i \in Instances : Register(i) \/ Heartbeat(i)
               \/ \E i \in Instances, lost \in SUBSET Calls : Disconnect(i, lost)
               \/ \E stale \in SUBSET Instances : Open(stale)
    <3>1. instances' = instances
      BY <2>4 DEF Next, Submit, SubmitByPolicy, SubmitToHuman,
           SubmitToModel, SubmitAccepted, Decide, Result, ModelReview, ModelTooLate, ModelTransfers,
           ModelDecides, ModelReturns, ModelLost, Expire, SaveSettings, Crash, OpenFails, Tick, vars
    <3> QED BY <2>0, <3>1
  <2> QED BY <2>1, <2>2, <2>3, <2>4
<1> QED BY <1>0, <1>2, <1>3, <1>4, <1>5 DEF Trace

(* A call that waited when its session ended is never allowed, although    *)
(* Decide and modelReview do not look at the session: Disconnect and Open  *)
(* reject it, unless the database refuses.                                 *)
THEOREM SessionEndIsFinal == Spec => NoApprovalAfterSessionEnd
<1> DEFINE A == \A c \in Calls :
          Pending(c) /\ reviews'[c].decision = "approve" /\ faults' = 0
              => instances[Owner[c]].state = "connected"
<1>1. Init => WaitersConnected
  BY DEF Init, WaitersConnected, Pending, Unasked
<1>2. Inv /\ WaitersConnected /\ [Next]_vars => WaitersConnected'
  BY SessionStep DEF WaitersConnected, Inv
<1>3. Inv /\ WaitersConnected /\ [Next]_vars => A
  BY FaultsCount DEF WaitersConnected, Inv
<1>4. Spec => [][A]_vars
  BY <1>1, <1>2, <1>3, InvariantHolds, PTL DEF Spec
<1> QED BY <1>4 DEF NoApprovalAfterSessionEnd
=============================================================================
