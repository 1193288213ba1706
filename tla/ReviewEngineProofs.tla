------------------------- MODULE ReviewEngineProofs -------------------------
(***************************************************************************)
(* Machine-checked proofs about the review engine, for every set of        *)
(* sessions, calls and payloads, every deadline and every bound.           *)
(***************************************************************************)
EXTENDS ReviewEngine, TLAPS

-----------------------------------------------------------------------------
(* Lemmas about the operators the handlers are built from *)

(* A decision by anyone entitled to one is a well-formed record. *)
LEMMA DecidedType ==
    ASSUME NEW r \in ReviewRecords, NEW decision \in {"approve", "reject"},
           NEW by \in Deciders, clock \in Nat
    PROVE  Decided(r, decision, by) \in ReviewRecords
<1> DEFINE execution == IF decision = "approve" THEN "awaiting_execution"
                                                ELSE "not_executed"
<1>1. execution \in {"not_executed", "awaiting_execution", "succeeded", "failed"}
  OBVIOUS
<1> HIDE DEF execution
<1>2. [r EXCEPT !.decision = decision, !.by = by, !.needsHuman = FALSE,
                !.execution = execution, !.decidedAt = clock] \in ReviewRecords
  BY <1>1 DEF ReviewRecords
<1> QED BY <1>2 DEF Decided, execution

(* What Submit builds before the verdict is a well-formed record. *)
LEMMA NewReviewType ==
    ASSUME TypeOK, NEW p \in Payloads
    PROVE  NewReview(p) \in ReviewRecords
<1>1. Unasked \in ReviewRecords
  BY DEF Unasked, ReviewRecords, Modes
<1>2. clock + ApprovalSeconds \in Nat /\ clock \in Nat /\ run \in Nat /\ mode \in Modes
  BY TimeAssumption DEF TypeOK
<1> QED BY <1>1, <1>2 DEF NewReview, ReviewRecords

(* One transaction of change() keeps the two tables well-formed. *)
LEMMA CommitType ==
    ASSUME TypeOK, NEW c \in Calls, NEW r \in ReviewRecords, NEW a \in Actions,
           CommitReview(c, r, a)
    PROVE  /\ reviews' \in [Calls -> ReviewRecords]
           /\ audit' \in [Calls -> Seq(Actions)]
BY DEF TypeOK, CommitReview

(* And so does a loop of them. *)
LEMMA RejectAllType ==
    ASSUME TypeOK, NEW S \in SUBSET Calls,
           NEW by \in [Calls -> Deciders], NEW action \in [Calls -> Actions],
           RejectAll(S, by, action)
    PROVE  /\ reviews' \in [Calls -> ReviewRecords]
           /\ audit' \in [Calls -> Seq(Actions)]
<1>1. \A c \in Calls : Decided(reviews[c], "reject", by[c]) \in ReviewRecords
  BY DecidedType DEF TypeOK
<1>2. reviews' \in [Calls -> ReviewRecords]
  BY <1>1 DEF RejectAll, TypeOK
<1>3. audit' \in [Calls -> Seq(Actions)]
  BY DEF RejectAll, TypeOK
<1> QED BY <1>2, <1>3

(* Losing commits only counts faults. *)
LEMMA LoseType ==
    ASSUME TypeOK, NEW lost, Lose(lost)
    PROVE  faults' \in Nat
BY DEF TypeOK, Lose

-----------------------------------------------------------------------------
(* Type correctness *)

LEMMA TypeInit == Init => TypeOK
<1> SUFFICES ASSUME Init PROVE TypeOK
  OBVIOUS
<1>1. instances \in [Instances -> InstanceRecords]
  BY DEF Init, Absent, InstanceRecords
<1>2. reviews \in [Calls -> ReviewRecords]
  BY DEF Init, Unasked, ReviewRecords, Modes
<1>3. audit \in [Calls -> Seq(Actions)]
  BY DEF Init
<1> QED BY <1>1, <1>2, <1>3 DEF Init, TypeOK, Modes

LEMMA TypeStep == TypeOK /\ [Next]_vars => TypeOK'
<1> SUFFICES ASSUME TypeOK, [Next]_vars PROVE TypeOK'
  OBVIOUS
<1>1. ASSUME NEW i \in Instances, Register(i) \/ Heartbeat(i) PROVE TypeOK'
  <2>1. clock \in Nat /\ instances \in [Instances -> InstanceRecords]
    BY DEF TypeOK
  <2>2. CASE Register(i)
    <3>1. [state |-> "connected", heartbeat |-> clock] \in InstanceRecords
      BY <2>1 DEF InstanceRecords
    <3> QED BY <2>1, <2>2, <3>1 DEF TypeOK, Register
  <2>3. CASE Heartbeat(i)
    <3>1. [instances[i] EXCEPT !.heartbeat = clock] \in InstanceRecords
      BY <2>1 DEF InstanceRecords
    <3> QED BY <2>1, <2>3, <3>1 DEF TypeOK, Heartbeat
  <2> QED BY <1>1, <2>2, <2>3
<1>2. ASSUME NEW i \in Instances, NEW lost \in SUBSET Calls, Disconnect(i, lost)
      PROVE  TypeOK'
  <2>1. instances' \in [Instances -> InstanceRecords]
    BY <1>2 DEF TypeOK, Disconnect, InstanceRecords
  <2>2. /\ reviews' \in [Calls -> ReviewRecords]
        /\ audit' \in [Calls -> Seq(Actions)]
    <3> DEFINE S == {c \in Calls : Owner[c] = i /\ Pending(c)} \ lost
    <3>1. RejectAll(S, Always("E_SESSION"), Always("cancel"))
      BY <1>2 DEF Disconnect
    <3>2. /\ Always("E_SESSION") \in [Calls -> Deciders]
          /\ Always("cancel") \in [Calls -> Actions]
      BY DEF Always, Deciders, Engines, Actions
    <3>3. S \in SUBSET Calls
      OBVIOUS
    <3> HIDE DEF S
    <3> QED BY <3>1, <3>2, <3>3, RejectAllType
  <2>3. faults' \in Nat
    BY <1>2, LoseType DEF Disconnect
  <2> QED BY <1>2, <2>1, <2>2, <2>3 DEF TypeOK, Disconnect
<1>3. ASSUME NEW c \in Calls, NEW p \in Payloads, NEW v \in PolicyVerdicts,
             Submit(c, p, v)
      PROVE  TypeOK'
  <2> DEFINE Frame == UNCHANGED <<clock, up, run, faults, mode, instances>>
  <2>1. NewReview(p) \in ReviewRecords
    BY NewReviewType
  <2>2. "submit" \in Actions
    BY DEF Actions
  <2>3. CASE SubmitByPolicy(c, p, v)
    <3> DEFINE by == IF v.path = "scope" THEN "SCOPE" ELSE "RULE"
               d == Decided(NewReview(p), v.decision, by)
               r == [d EXCEPT !.path = v.path]
    <3>1. v.decision \in {"approve", "reject"} /\ v.path \in {"scope", "rule"}
      BY <2>3 DEF SubmitByPolicy, PolicyVerdicts, NoVerdict
    <3>2. d \in ReviewRecords
      BY <3>1, <2>1, DecidedType DEF TypeOK, Deciders
    <3>3. r \in ReviewRecords
      BY <3>1, <3>2 DEF ReviewRecords
    <3>4. CommitReview(c, r, "submit")
      BY <2>3 DEF SubmitByPolicy
    <3> HIDE DEF r
    <3> QED BY <3>3, <3>4, <2>2, <2>3, CommitType
            DEF TypeOK, SubmitByPolicy, SubmitAccepted
  <2>4. CASE SubmitToHuman(c, p, v)
    <3> DEFINE r == [NewReview(p) EXCEPT !.path = "human", !.needsHuman = TRUE]
    <3>1. r \in ReviewRecords
      BY <2>1 DEF ReviewRecords
    <3>2. CommitReview(c, r, "submit")
      BY <2>4 DEF SubmitToHuman
    <3> HIDE DEF r
    <3> QED BY <3>1, <3>2, <2>2, <2>4, CommitType
            DEF TypeOK, SubmitToHuman, SubmitAccepted
  <2>5. CASE SubmitToModel(c, p, v)
    <3> DEFINE r == [NewReview(p) EXCEPT !.path = "model",
                                         !.deadline = clock + ModelWait]
    <3>0. clock + ModelWait \in Nat
      BY TimeAssumption DEF TypeOK
    <3>1. r \in ReviewRecords
      BY <2>1, <3>0 DEF ReviewRecords
    <3>2. CommitReview(c, r, "submit")
      BY <2>5 DEF SubmitToModel
    <3> HIDE DEF r
    <3> QED BY <3>1, <3>2, <2>2, <2>5, CommitType
            DEF TypeOK, SubmitToModel, SubmitAccepted
  <2> QED BY <1>3, <2>3, <2>4, <2>5 DEF Submit
<1>4. ASSUME NEW c \in Calls, NEW p \in Payloads, NEW d \in {"approve", "reject"},
             Decide(c, p, d)
      PROVE  TypeOK'
  <2>1. Decided(reviews[c], d, "HUMAN") \in ReviewRecords
    BY DecidedType DEF TypeOK, Deciders
  <2>2. /\ reviews' \in [Calls -> ReviewRecords]
        /\ audit' \in [Calls -> Seq(Actions)]
    BY <1>4, <2>1, CommitType DEF Decide, Actions
  <2> QED BY <1>4, <2>2 DEF TypeOK, Decide
<1>5. ASSUME NEW c \in Calls, NEW i \in Instances,
             NEW s \in {"succeeded", "failed", "not_executed"}, Result(c, i, s)
      PROVE  TypeOK'
  <2>1. [reviews[c] EXCEPT !.execution = s] \in ReviewRecords
    BY DEF TypeOK, ReviewRecords
  <2>2. /\ reviews' \in [Calls -> ReviewRecords]
        /\ audit' \in [Calls -> Seq(Actions)]
    BY <1>5, <2>1, CommitType DEF Result, Actions
  <2> QED BY <1>5, <2>2 DEF TypeOK, Result
<1>6. ASSUME NEW c \in Calls, ModelReview(c) PROVE TypeOK'
  <2>1. CASE ModelTooLate(c)
    BY <2>1 DEF TypeOK, ModelTooLate, ModelReturns
  <2>2. CASE ModelTransfers(c)
    <3>1. [reviews[c] EXCEPT !.needsHuman = TRUE, !.path = "human"] \in ReviewRecords
      BY DEF TypeOK, ReviewRecords
    <3>2. /\ reviews' \in [Calls -> ReviewRecords]
          /\ audit' \in [Calls -> Seq(Actions)]
      BY <2>2, <3>1, CommitType DEF ModelTransfers, Actions
    <3> QED BY <2>2, <3>2 DEF TypeOK, ModelTransfers, ModelReturns
  <2>3. ASSUME NEW a \in {"approve", "reject", "error"}, ModelDecides(c, a)
        PROVE  TypeOK'
    <3> DEFINE r == IF a = "error" THEN Decided(reviews[c], "reject", "E_MODEL")
                                   ELSE Decided(reviews[c], a, "MODEL")
    <3>1. r \in ReviewRecords
      BY DecidedType DEF TypeOK, Deciders, Engines
    <3>2. CommitReview(c, r, "model")
      BY <2>3 DEF ModelDecides
    <3> HIDE DEF r
    <3>3. /\ reviews' \in [Calls -> ReviewRecords]
          /\ audit' \in [Calls -> Seq(Actions)]
      BY <3>1, <3>2, CommitType DEF Actions
    <3> QED BY <2>3, <3>3 DEF TypeOK, ModelDecides, ModelReturns
  <2>4. CASE ModelLost(c)
    BY <2>4, LoseType DEF TypeOK, ModelLost
  <2> QED BY <1>6, <2>1, <2>2, <2>3, <2>4 DEF ModelReview
<1>7. ASSUME NEW lost \in SUBSET Calls, Expire(lost) PROVE TypeOK'
  <2> DEFINE by == [c \in Calls |-> IF Overdue(c) THEN "E_TIMEOUT" ELSE "E_SESSION"]
             action == [c \in Calls |-> IF Overdue(c) THEN "timeout" ELSE "cancel"]
             S == Due \ lost
  <2>1. RejectAll(S, by, action)
    BY <1>7 DEF Expire
  <2>2. by \in [Calls -> Deciders] /\ action \in [Calls -> Actions]
    BY DEF Deciders, Engines, Actions
  <2>3. S \in SUBSET Calls
    BY DEF Due
  <2> HIDE DEF by, action, S
  <2>4. /\ reviews' \in [Calls -> ReviewRecords]
        /\ audit' \in [Calls -> Seq(Actions)]
    BY <2>1, <2>2, <2>3, RejectAllType
  <2> QED BY <1>7, <2>4, LoseType DEF TypeOK, Expire
<1>8. ASSUME NEW m \in Modes, SaveSettings(m) PROVE TypeOK'
  BY <1>8 DEF TypeOK, SaveSettings
<1>9. CASE Crash
  BY <1>9 DEF TypeOK, Crash
<1>10. ASSUME NEW stale \in SUBSET Instances, Open(stale) PROVE TypeOK'
  <2>1. instances' \in [Instances -> InstanceRecords]
    BY <1>10 DEF TypeOK, Open, InstanceRecords
  <2>2. /\ Leftover \in SUBSET Calls
        /\ Always("E_RESTART") \in [Calls -> Deciders]
        /\ Always("restart") \in [Calls -> Actions]
    BY DEF Leftover, Always, Deciders, Engines, Actions
  <2>3. /\ reviews' \in [Calls -> ReviewRecords]
        /\ audit' \in [Calls -> Seq(Actions)]
    BY <1>10, <2>2, RejectAllType DEF Open
  <2> QED BY <1>10, <2>1, <2>3, LoseType DEF TypeOK, Open
<1>11. ASSUME NEW lost \in SUBSET Calls, OpenFails(lost) PROVE TypeOK'
  <2>2. /\ Leftover \ lost \in SUBSET Calls
        /\ Always("E_RESTART") \in [Calls -> Deciders]
        /\ Always("restart") \in [Calls -> Actions]
    BY DEF Leftover, Always, Deciders, Engines, Actions
  <2>3. /\ reviews' \in [Calls -> ReviewRecords]
        /\ audit' \in [Calls -> Seq(Actions)]
    BY <1>11, <2>2, RejectAllType DEF OpenFails
  <2> QED BY <1>11, <2>3, LoseType DEF TypeOK, OpenFails
<1>12. CASE Tick
  BY <1>12 DEF TypeOK, Tick
<1>13. CASE UNCHANGED vars
  BY <1>13 DEF TypeOK, vars
<1> QED BY <1>1, <1>2, <1>3, <1>4, <1>5, <1>6, <1>7, <1>8, <1>9, <1>10, <1>11,
           <1>12, <1>13 DEF Next

(* Every record and every audit trail stays well-formed. *)
THEOREM TypeCorrect == Spec => []TypeOK
<1>1. Init => TypeOK
  BY TypeInit
<1>2. TypeOK /\ [Next]_vars => TypeOK'
  BY TypeStep
<1> QED BY <1>1, <1>2, PTL DEF Spec

-----------------------------------------------------------------------------
(* What one step does to one review *)

(* The review is not the step's business.  If the step is a restart, the   *)
(* review was not pending; if it ends the model request, nobody waits for  *)
(* its answer or a write was lost.                                         *)
Kept(c) ==
    /\ reviews'[c] = reviews[c]
    /\ clock' >= clock
    /\ faults' = 0 => faults = 0
    /\ Pending(c) /\ up' => up /\ run' = run
    /\ c \in calling' => c \in calling /\ up'
    /\ faults' = 0 /\ up' /\ StillAsked(c)' /\ c \in calling => c \in calling'

(* The fields of a review that a step decides or submits. *)
Closes(c, d, by) ==
    LET r == reviews[c]
        s == reviews'[c]
    IN  /\ s.decision = d
        /\ s.by = by
        /\ s.needsHuman = FALSE
        /\ s.decidedAt = clock
        /\ d = "reject" => s.execution = "not_executed"
        /\ d = "approve" => s.execution = "awaiting_execution"
        /\ s.path = r.path
        /\ s.payload = r.payload
        /\ s.mode = r.mode
        /\ s.deadline = r.deadline
        /\ s.run = r.run

Submits(c, p, path) ==
    LET s == reviews'[c] IN
    /\ s.payload = p
    /\ s.path = path
    /\ s.mode = mode
    /\ s.run = run

Queued(c, path) ==
    LET s == reviews'[c] IN
    /\ s.decision = "pending"
    /\ s.by = "none"
    /\ s.needsHuman = (path = "human")
    /\ s.execution = "not_executed"

ByPolicy(c) ==
    /\ reviews[c].decision = "none"
    /\ c \in calling' => c \in calling /\ up'
    /\ \E p \in Payloads, d \in {"approve", "reject"}, path \in {"scope", "rule"},
          by \in {"SCOPE", "RULE"} :
          /\ d = "approve" => p \notin Incomplete /\ by = "RULE"
          /\ Submits(c, p, path)
          /\ reviews'[c].decision = d
          /\ reviews'[c].by = by
          /\ reviews'[c].needsHuman = FALSE
          /\ d = "reject" => reviews'[c].execution = "not_executed"
          /\ d = "approve" => reviews'[c].execution = "awaiting_execution"

QueuedForHuman(c) ==
    /\ reviews[c].decision = "none"
    /\ up' /\ run' = run
    /\ c \in calling' => c \in calling
    /\ \E p \in Payloads : Submits(c, p, "human")
    /\ Queued(c, "human")

AskedOfModel(c) ==
    /\ reviews[c].decision = "none"
    /\ up' /\ run' = run
    /\ mode = "model"
    /\ c \in calling'
    /\ \E p \in Payloads : Submits(c, p, "model")
    /\ Queued(c, "model")

ByHuman(c) ==
    /\ Pending(c)
    /\ reviews[c].mode = "human" \/ reviews[c].path = "human"
    /\ ~ Overdue(c)
    /\ calling' = calling
    /\ up'
    /\ \E d \in {"approve", "reject"} : Closes(c, d, "HUMAN")

ByModel(c) ==
    /\ StillAsked(c)
    /\ c \in calling
    /\ c \notin calling'
    /\ \E d \in {"approve", "reject"}, by \in {"MODEL", "E_MODEL"} :
          /\ d = "approve" => by = "MODEL" /\ reviews[c].payload \notin Incomplete
          /\ Closes(c, d, by)

Transferred(c) ==
    /\ StillAsked(c)
    /\ up' /\ up /\ run' = run
    /\ c \in calling
    /\ c \notin calling'
    /\ reviews'[c] = [reviews[c] EXCEPT !.needsHuman = TRUE, !.path = "human"]

Reported(c) ==
    /\ reviews[c].decision = "approve"
    /\ reviews[c].execution = "awaiting_execution"
    /\ calling' = calling
    /\ up'
    /\ \E s \in {"succeeded", "failed", "not_executed"} :
          reviews'[c] = [reviews[c] EXCEPT !.execution = s]

Withdrawn(c) ==
    /\ Pending(c)
    /\ calling' = calling
    /\ \E by \in {"E_TIMEOUT", "E_SESSION", "E_RESTART"} :
          /\ by = "E_TIMEOUT" => Overdue(c)
          /\ by = "E_RESTART" => ~ up
          /\ by # "E_RESTART" => up'
          /\ Closes(c, "reject", by)

Effect(c) ==
    \/ Kept(c) \/ ByPolicy(c) \/ QueuedForHuman(c) \/ AskedOfModel(c) \/ ByHuman(c)
    \/ ByModel(c) \/ Transferred(c) \/ Reported(c) \/ Withdrawn(c)

(* A loop of rejections touches each review it finds and no other. *)
LEMMA RejectAllEffect ==
    ASSUME NEW S \in SUBSET Calls, NEW by, NEW action, RejectAll(S, by, action),
           NEW c \in Calls
    PROVE  /\ c \in S => reviews'[c] = Decided(reviews[c], "reject", by[c])
           /\ c \notin S => reviews'[c] = reviews[c]
BY DEF RejectAll

(* One commit touches one review. *)
LEMMA CommitEffect ==
    ASSUME TypeOK, NEW d \in Calls, NEW r, NEW a, CommitReview(d, r, a), NEW c \in Calls
    PROVE  /\ c = d => reviews'[c] = r
           /\ c # d => reviews'[c] = reviews[c]
BY DEF CommitReview, TypeOK

LEMMA ClosesFields ==
    ASSUME TypeOK, NEW c \in Calls, NEW d \in {"approve", "reject"},
           NEW by \in Deciders, reviews'[c] = Decided(reviews[c], d, by)
    PROVE  Closes(c, d, by)
<1>1. reviews[c] \in ReviewRecords
  BY DEF TypeOK
<1> QED BY <1>1 DEF Closes, Decided, ReviewRecords

LEMMA QueuedFields ==
    ASSUME TypeOK, NEW c \in Calls, NEW p \in Payloads,
           NEW path \in {"human", "model"},
           \/ /\ path = "human"
              /\ reviews'[c] = [NewReview(p) EXCEPT !.path = path, !.needsHuman = TRUE]
           \/ /\ path = "model"
              /\ reviews'[c] = [NewReview(p) EXCEPT !.path = path,
                                                    !.deadline = clock + ModelWait]
    PROVE  Submits(c, p, path) /\ Queued(c, path)
BY DEF Submits, Queued, NewReview, Unasked

(* Losing a write is never undone. *)
LEMMA LoseEffect ==
    ASSUME TypeOK, NEW lost, Lose(lost)
    PROVE  faults' = 0 => faults = 0 /\ lost = {}
BY DEF Lose, TypeOK

LEMMA StepEffect ==
    ASSUME TypeOK, calling # {} => up, [Next]_vars, NEW c \in Calls
    PROVE  Effect(c)
<1> USE DEF Effect
<1>0. clock \in Nat /\ faults \in Nat
  BY DEF TypeOK
<1>1. ASSUME NEW i \in Instances, Register(i) \/ Heartbeat(i) PROVE Effect(c)
  BY <1>0, <1>1 DEF Register, Heartbeat, Kept
<1>2. ASSUME NEW i \in Instances, NEW lost \in SUBSET Calls, Disconnect(i, lost)
      PROVE  Effect(c)
  <2> DEFINE due == {d \in Calls : Owner[d] = i /\ Pending(d)}
  <2>1. RejectAll(due \ lost, Always("E_SESSION"), Always("cancel"))
    BY <1>2 DEF Disconnect
  <2>2. due \ lost \in SUBSET Calls
    OBVIOUS
  <2>3. CASE c \in due \ lost
    <3>1. reviews'[c] = Decided(reviews[c], "reject", Always("E_SESSION")[c])
      BY <2>1, <2>2, <2>3, RejectAllEffect
    <3>2. Closes(c, "reject", "E_SESSION")
      BY <3>1, ClosesFields DEF Always, Deciders, Engines
    <3> QED BY <3>2, <2>3, <1>2 DEF Disconnect, Withdrawn
  <2>4. CASE c \notin due \ lost
    <3>1. reviews'[c] = reviews[c]
      BY <2>1, <2>2, <2>4, RejectAllEffect
    <3>2. faults' = 0 => faults = 0
      BY <1>2, LoseEffect DEF Disconnect
    <3> QED BY <1>0, <1>2, <3>1, <3>2 DEF Disconnect, Kept
  <2> QED BY <2>3, <2>4
<1>3. ASSUME NEW d \in Calls, NEW p \in Payloads, NEW v \in PolicyVerdicts,
             Submit(d, p, v)
      PROVE  Effect(c)
  <2>1. CASE c # d
    <3>1. reviews'[c] = reviews[c]
      BY <1>3, <2>1, CommitEffect
         DEF Submit, SubmitByPolicy, SubmitToHuman, SubmitToModel
    <3>2. c \in calling' <=> c \in calling
      BY <1>3, <2>1 DEF Submit, SubmitByPolicy, SubmitToHuman, SubmitToModel
    <3> QED BY <1>0, <1>3, <3>1, <3>2
            DEF Submit, SubmitByPolicy, SubmitToHuman, SubmitToModel,
                SubmitAccepted, Kept
  <2>2. CASE c = d /\ SubmitByPolicy(d, p, v)
    <3> DEFINE by == IF v.path = "scope" THEN "SCOPE" ELSE "RULE"
    <3>1. reviews'[c] = [Decided(NewReview(p), v.decision, by) EXCEPT !.path = v.path]
      BY <2>2, CommitEffect DEF SubmitByPolicy
    <3>2. /\ v.decision \in {"approve", "reject"}
          /\ v.path \in {"scope", "rule"}
          /\ by \in {"SCOPE", "RULE"}
          /\ v.decision = "approve" => by = "RULE"
      BY <2>2 DEF SubmitByPolicy, PolicyVerdicts, NoVerdict
    <3>3. v.decision = "approve" => p \notin Incomplete
      BY <2>2 DEF SubmitByPolicy, ForcedHuman
    <3>4. reviews[c].decision = "none" /\ calling' = calling /\ up'
      BY <2>2 DEF SubmitByPolicy, SubmitAccepted
    <3> HIDE DEF by
    <3>5. /\ Submits(c, p, v.path)
          /\ reviews'[c].decision = v.decision
          /\ reviews'[c].by = by
          /\ reviews'[c].needsHuman = FALSE
          /\ v.decision = "reject" => reviews'[c].execution = "not_executed"
          /\ v.decision = "approve" => reviews'[c].execution = "awaiting_execution"
      BY <3>1, <3>2 DEF Submits, Decided, NewReview, Unasked
    <3> QED BY <3>2, <3>3, <3>4, <3>5 DEF ByPolicy
  <2>3. CASE c = d /\ SubmitToHuman(d, p, v)
    <3>1. reviews'[c] = [NewReview(p) EXCEPT !.path = "human", !.needsHuman = TRUE]
      BY <2>3, CommitEffect DEF SubmitToHuman
    <3>2. Submits(c, p, "human") /\ Queued(c, "human")
      BY <3>1, QueuedFields
    <3> QED BY <2>3, <3>2 DEF SubmitToHuman, SubmitAccepted, QueuedForHuman
  <2>4. CASE c = d /\ SubmitToModel(d, p, v)
    <3>1. reviews'[c] = [NewReview(p) EXCEPT !.path = "model",
                                             !.deadline = clock + ModelWait]
      BY <2>4, CommitEffect DEF SubmitToModel
    <3>2. Submits(c, p, "model") /\ Queued(c, "model")
      BY <3>1, QueuedFields
    <3> QED BY <2>4, <3>2 DEF SubmitToModel, SubmitAccepted, AskedOfModel
  <2> QED BY <1>3, <2>1, <2>2, <2>3, <2>4 DEF Submit
<1>4. ASSUME NEW d \in Calls, NEW p \in Payloads, NEW v \in {"approve", "reject"},
             Decide(d, p, v)
      PROVE  Effect(c)
  <2>1. CASE c # d
    <3>1. reviews'[c] = reviews[c]
      BY <1>4, <2>1, CommitEffect DEF Decide
    <3> QED BY <1>0, <1>4, <3>1 DEF Decide, Kept
  <2>2. CASE c = d
    <3>1. reviews'[c] = Decided(reviews[c], v, "HUMAN")
      BY <1>4, <2>2, CommitEffect DEF Decide
    <3>2. Closes(c, v, "HUMAN")
      BY <3>1, ClosesFields DEF Deciders
    <3> QED BY <1>4, <2>2, <3>2 DEF Decide, ByHuman
  <2> QED BY <2>1, <2>2
<1>5. ASSUME NEW d \in Calls, NEW i \in Instances,
             NEW s \in {"succeeded", "failed", "not_executed"}, Result(d, i, s)
      PROVE  Effect(c)
  <2>1. CASE c # d
    <3>1. reviews'[c] = reviews[c]
      BY <1>5, <2>1, CommitEffect DEF Result
    <3> QED BY <1>0, <1>5, <3>1 DEF Result, Kept
  <2>2. CASE c = d
    <3>1. reviews'[c] = [reviews[c] EXCEPT !.execution = s]
      BY <1>5, <2>2, CommitEffect DEF Result
    <3> QED BY <1>5, <2>2, <3>1 DEF Result, Reported
  <2> QED BY <2>1, <2>2
<1>6. ASSUME NEW d \in Calls, ModelReview(d) PROVE Effect(c)
  <2>1. CASE c # d
    <3>1. reviews'[c] = reviews[c]
      BY <1>6, <2>1, CommitEffect
         DEF ModelReview, ModelTooLate, ModelTransfers, ModelDecides, ModelLost
    <3>2. c \in calling' <=> c \in calling
      BY <1>6, <2>1 DEF ModelReview, ModelTooLate, ModelTransfers, ModelDecides,
                        ModelLost, ModelReturns
    <3>3. faults' = 0 => faults = 0
      BY <1>6, LoseEffect DEF ModelReview, ModelTooLate, ModelTransfers,
                              ModelDecides, ModelLost, ModelReturns
    <3>4. clock' = clock /\ up' = up /\ run' = run /\ up
      BY <1>6 DEF ModelReview, ModelTooLate, ModelTransfers, ModelDecides,
                  ModelLost, ModelReturns
    <3> QED BY <1>0, <3>1, <3>2, <3>3, <3>4 DEF Kept
  <2>2. CASE c = d /\ ModelTooLate(d)
    <3>1. ~ StillAsked(c)'
      BY <2>2 DEF ModelTooLate, ModelReturns, StillAsked, Pending, Overdue
    <3> QED BY <1>0, <2>2, <3>1 DEF ModelTooLate, ModelReturns, Kept
  <2>3. CASE c = d /\ ModelTransfers(d)
    <3>1. reviews'[c] = [reviews[c] EXCEPT !.needsHuman = TRUE, !.path = "human"]
      BY <2>3, CommitEffect DEF ModelTransfers
    <3> QED BY <2>3, <3>1 DEF ModelTransfers, ModelReturns, Transferred
  <2>4. ASSUME NEW a \in {"approve", "reject", "error"}, c = d, ModelDecides(d, a)
        PROVE  Effect(c)
    <3> DEFINE by == IF a = "error" THEN "E_MODEL" ELSE "MODEL"
               v == IF a = "error" THEN "reject" ELSE a
    <3>1. reviews'[c] = Decided(reviews[c], v, by)
      BY <2>4, CommitEffect DEF ModelDecides
    <3>2. /\ v \in {"approve", "reject"}
          /\ by \in {"MODEL", "E_MODEL"}
          /\ v = "approve" => by = "MODEL" /\ reviews[c].payload \notin Incomplete
      BY <2>4 DEF ModelDecides
    <3>3. StillAsked(c) /\ c \in calling /\ c \notin calling'
      BY <2>4 DEF ModelDecides, ModelReturns
    <3> HIDE DEF by, v
    <3>4. Closes(c, v, by)
      BY <3>1, <3>2, ClosesFields DEF Deciders, Engines
    <3> QED BY <3>2, <3>3, <3>4 DEF ByModel
  <2>5. CASE c = d /\ ModelLost(d)
    <3>1. faults' # 0
      BY <2>5, LoseEffect DEF ModelLost
    <3> QED BY <1>0, <2>5, <3>1 DEF ModelLost, Kept
  <2> QED BY <1>6, <2>1, <2>2, <2>3, <2>4, <2>5 DEF ModelReview
<1>7. ASSUME NEW lost \in SUBSET Calls, Expire(lost) PROVE Effect(c)
  <2> DEFINE by == [d \in Calls |-> IF Overdue(d) THEN "E_TIMEOUT" ELSE "E_SESSION"]
             action == [d \in Calls |-> IF Overdue(d) THEN "timeout" ELSE "cancel"]
  <2>1. RejectAll(Due \ lost, by, action)
    BY <1>7 DEF Expire
  <2>2. Due \ lost \in SUBSET Calls
    BY DEF Due
  <2>3. CASE c \in Due \ lost
    <3> HIDE DEF by, action
    <3>1. reviews'[c] = Decided(reviews[c], "reject", by[c])
      BY <2>1, <2>2, <2>3, RejectAllEffect
    <3>2. /\ by[c] \in {"E_TIMEOUT", "E_SESSION"}
          /\ by[c] = "E_TIMEOUT" => Overdue(c)
      BY DEF by
    <3>3. Pending(c) /\ calling' = calling /\ up'
      BY <1>7, <2>3 DEF Expire, Due
    <3>4. Closes(c, "reject", by[c])
      BY <3>1, <3>2, ClosesFields DEF Deciders, Engines
    <3> QED BY <3>2, <3>3, <3>4 DEF Withdrawn
  <2>4. CASE c \notin Due \ lost
    <3> HIDE DEF by, action
    <3>1. reviews'[c] = reviews[c]
      BY <2>1, <2>2, <2>4, RejectAllEffect
    <3>2. faults' = 0 => faults = 0
      BY <1>7, LoseEffect DEF Expire
    <3> QED BY <1>0, <1>7, <3>1, <3>2 DEF Expire, Kept
  <2> QED BY <2>3, <2>4
<1>8. ASSUME NEW m \in Modes, SaveSettings(m) PROVE Effect(c)
  BY <1>0, <1>8 DEF SaveSettings, Kept
<1>9. CASE Crash
  BY <1>0, <1>9 DEF Crash, Kept
<1>10. ASSUME NEW stale \in SUBSET Instances, Open(stale) PROVE Effect(c)
  <2>1. RejectAll(Leftover, Always("E_RESTART"), Always("restart"))
    BY <1>10 DEF Open
  <2>2. Leftover \in SUBSET Calls
    BY DEF Leftover
  <2>3. CASE c \in Leftover
    <3>1. reviews'[c] = Decided(reviews[c], "reject", Always("E_RESTART")[c])
      BY <2>1, <2>2, <2>3, RejectAllEffect
    <3>2. Closes(c, "reject", "E_RESTART")
      BY <3>1, ClosesFields DEF Always, Deciders, Engines
    <3> QED BY <3>2, <2>3, <1>10 DEF Open, Leftover, Withdrawn
  <2>4. CASE c \notin Leftover
    <3>1. reviews'[c] = reviews[c]
      BY <2>1, <2>2, <2>4, RejectAllEffect
    <3>2. faults' = 0 => faults = 0
      BY <1>10, LoseEffect DEF Open
    <3>3. ~ Pending(c)
      BY <2>4 DEF Leftover
    <3> QED BY <1>0, <1>10, <3>1, <3>2, <3>3 DEF Open, Kept
  <2> QED BY <2>3, <2>4
<1>11. ASSUME NEW lost \in SUBSET Calls, OpenFails(lost) PROVE Effect(c)
  <2>1. RejectAll(Leftover \ lost, Always("E_RESTART"), Always("restart"))
    BY <1>11 DEF OpenFails
  <2>2. Leftover \ lost \in SUBSET Calls
    BY DEF Leftover
  <2>3. CASE c \in Leftover \ lost
    <3>1. reviews'[c] = Decided(reviews[c], "reject", Always("E_RESTART")[c])
      BY <2>1, <2>2, <2>3, RejectAllEffect
    <3>2. Closes(c, "reject", "E_RESTART")
      BY <3>1, ClosesFields DEF Always, Deciders, Engines
    <3> QED BY <3>2, <2>3, <1>11 DEF OpenFails, Leftover, Withdrawn
  <2>4. CASE c \notin Leftover \ lost
    <3>1. reviews'[c] = reviews[c]
      BY <2>1, <2>2, <2>4, RejectAllEffect
    <3>2. faults' = 0 => faults = 0
      BY <1>11, LoseEffect DEF OpenFails
    <3> QED BY <1>0, <1>11, <3>1, <3>2 DEF OpenFails, Kept
  <2> QED BY <2>3, <2>4
<1>12. CASE Tick
  BY <1>0, <1>12 DEF Tick, Kept
<1>13. CASE UNCHANGED vars
  <2>1. StillAsked(c)' <=> StillAsked(c)
    BY <1>13 DEF vars, StillAsked, Pending, Overdue
  <2> QED BY <1>0, <1>13 DEF vars, Kept
<1> QED BY <1>1, <1>2, <1>3, <1>4, <1>5, <1>6, <1>7, <1>8, <1>9, <1>10, <1>11,
           <1>12, <1>13 DEF Next

-----------------------------------------------------------------------------
(* The inductive invariant *)

LEMMA InvInit == Init => Inv
<1> SUFFICES ASSUME Init PROVE Inv
  OBVIOUS
<1>1. TypeOK
  BY TypeInit
<1>2. \A c \in Calls : reviews[c] = Unasked
  BY DEF Init
<1>3. calling = {}
  BY DEF Init
<1>4. LifeCycle
  <2>1. Unasked.decision = "none"
    BY DEF Unasked
  <2> QED BY <1>2, <2>1 DEF LifeCycle
<1>5. IncompleteNeedsHuman /\ DecidedInTime
  BY <1>2 DEF IncompleteNeedsHuman, DecidedInTime, Unasked
<1>6. PendingOfThisRun /\ QueueConsistent
  BY <1>2 DEF PendingOfThisRun, QueueConsistent, Unasked, Pending
<1>7. OneAnswerer
  BY <1>2, <1>3 DEF OneAnswerer, Unasked, StillAsked, Pending
<1> QED BY <1>1, <1>3, <1>4, <1>5, <1>6, <1>7 DEF Inv

LEMMA LifeCycleStep == Inv /\ [Next]_vars => LifeCycle'
<1> SUFFICES ASSUME Inv, [Next]_vars, NEW c \in Calls
             PROVE  LET r == reviews'[c] IN
                    /\ r.decision = "none" => r = Unasked
                    /\ r.decision # "none" => r.payload \in Payloads
                    /\ r.decision = "pending" =>
                          /\ r.by = "none"
                          /\ r.path \in {"human", "model"}
                          /\ r.execution = "not_executed"
                    /\ r.decision = "approve" =>
                          /\ r.by \in {"RULE", "HUMAN", "MODEL"}
                          /\ r.path # "none"
                    /\ r.decision = "reject" =>
                          /\ r.by # "none"
                          /\ r.path # "none"
                          /\ r.execution = "not_executed"
  BY DEF LifeCycle
<1>1. Effect(c)
  BY StepEffect DEF Inv
<1>2. LifeCycle /\ reviews[c] \in ReviewRecords
  BY DEF Inv, TypeOK
<1>3. CASE Kept(c)
  BY <1>2, <1>3 DEF Kept, LifeCycle
<1>4. CASE ByPolicy(c)
  BY <1>4 DEF ByPolicy, Submits
<1>5. CASE QueuedForHuman(c)
  BY <1>5 DEF QueuedForHuman, Submits, Queued
<1>6. CASE AskedOfModel(c)
  BY <1>6 DEF AskedOfModel, Submits, Queued
<1>7. CASE ByHuman(c)
  BY <1>2, <1>7 DEF ByHuman, Closes, Pending, LifeCycle
<1>8. CASE ByModel(c)
  BY <1>2, <1>8 DEF ByModel, StillAsked, Closes, Pending, LifeCycle
<1>9. CASE Transferred(c)
  BY <1>2, <1>9 DEF Transferred, StillAsked, Pending, LifeCycle, ReviewRecords
<1>10. CASE Reported(c)
  BY <1>2, <1>10 DEF Reported, LifeCycle, ReviewRecords
<1>11. CASE Withdrawn(c)
  BY <1>2, <1>11 DEF Withdrawn, Closes, Pending, LifeCycle
<1> QED BY <1>1, <1>3, <1>4, <1>5, <1>6, <1>7, <1>8, <1>9, <1>10, <1>11 DEF Effect

LEMMA IncompleteNeedsHumanStep == Inv /\ [Next]_vars => IncompleteNeedsHuman'
<1> SUFFICES ASSUME Inv, [Next]_vars, NEW c \in Calls
             PROVE  (/\ reviews[c].decision = "approve"
                      /\ reviews[c].payload \in Incomplete
                          => reviews[c].by = "HUMAN")'
  BY DEF IncompleteNeedsHuman
<1>1. Effect(c)
  BY StepEffect DEF Inv
<1>2. /\ LifeCycle /\ IncompleteNeedsHuman
      /\ reviews[c] \in ReviewRecords
      /\ clock \in Nat
      /\ calling # {} => up
  BY DEF Inv, TypeOK
<1>3. CASE Kept(c)
  BY <1>2, <1>3 DEF Kept, LifeCycle, IncompleteNeedsHuman
<1>4. CASE ByPolicy(c)
  BY <1>2, <1>4 DEF ByPolicy, Submits, LifeCycle, IncompleteNeedsHuman
<1>5. CASE QueuedForHuman(c)
  BY <1>2, <1>5 DEF QueuedForHuman, Submits, Queued, LifeCycle, IncompleteNeedsHuman
<1>6. CASE AskedOfModel(c)
  BY <1>2, <1>6 DEF AskedOfModel, Submits, Queued, LifeCycle, IncompleteNeedsHuman
<1>7. CASE ByHuman(c)
  BY <1>2, <1>7 DEF ByHuman, Closes, Pending, LifeCycle, IncompleteNeedsHuman
<1>8. CASE ByModel(c)
  BY <1>2, <1>8 DEF ByModel, Closes, StillAsked, Pending, LifeCycle, IncompleteNeedsHuman
<1>9. CASE Transferred(c)
  BY <1>2, <1>9 DEF Transferred, StillAsked, Pending, ReviewRecords, LifeCycle, IncompleteNeedsHuman
<1>10. CASE Reported(c)
  BY <1>2, <1>10 DEF Reported, ReviewRecords, LifeCycle, IncompleteNeedsHuman
<1>11. CASE Withdrawn(c)
  BY <1>2, <1>11 DEF Withdrawn, Closes, Pending, LifeCycle, IncompleteNeedsHuman
<1> QED BY <1>1, <1>3, <1>4, <1>5, <1>6, <1>7, <1>8, <1>9, <1>10, <1>11 DEF Effect

LEMMA DecidedInTimeStep == Inv /\ [Next]_vars => DecidedInTime'
<1> SUFFICES ASSUME Inv, [Next]_vars, NEW c \in Calls
             PROVE  LET r == reviews'[c] IN
                    /\ r.by \in {"HUMAN", "MODEL", "E_MODEL"} => r.decidedAt <= r.deadline
                    /\ r.by = "E_TIMEOUT" => r.decidedAt > r.deadline
  BY DEF DecidedInTime
<1>1. Effect(c)
  BY StepEffect DEF Inv
<1>2. /\ LifeCycle /\ DecidedInTime
      /\ reviews[c] \in ReviewRecords
      /\ clock \in Nat
      /\ reviews[c].deadline \in Nat
  BY DEF Inv, TypeOK, ReviewRecords
<1>3. CASE Kept(c)
  BY <1>2, <1>3 DEF Kept, LifeCycle, Overdue, DecidedInTime
<1>4. CASE ByPolicy(c)
  BY <1>2, <1>4 DEF ByPolicy, Submits, LifeCycle, Overdue, DecidedInTime
<1>5. CASE QueuedForHuman(c)
  BY <1>2, <1>5 DEF QueuedForHuman, Submits, Queued, LifeCycle, Overdue, DecidedInTime
<1>6. CASE AskedOfModel(c)
  BY <1>2, <1>6 DEF AskedOfModel, Submits, Queued, LifeCycle, Overdue, DecidedInTime
<1>7. CASE ByHuman(c)
  BY <1>2, <1>7 DEF ByHuman, Closes, Pending, LifeCycle, Overdue, DecidedInTime
<1>8. CASE ByModel(c)
  BY <1>2, <1>8 DEF ByModel, Closes, StillAsked, Pending, LifeCycle, Overdue, DecidedInTime
<1>9. CASE Transferred(c)
  BY <1>2, <1>9 DEF Transferred, StillAsked, Pending, ReviewRecords, LifeCycle, Overdue, DecidedInTime
<1>10. CASE Reported(c)
  BY <1>2, <1>10 DEF Reported, ReviewRecords, LifeCycle, Overdue, DecidedInTime
<1>11. CASE Withdrawn(c)
  BY <1>2, <1>11 DEF Withdrawn, Closes, Pending, LifeCycle, Overdue, DecidedInTime
<1> QED BY <1>1, <1>3, <1>4, <1>5, <1>6, <1>7, <1>8, <1>9, <1>10, <1>11 DEF Effect

LEMMA QueueConsistentStep == Inv /\ [Next]_vars => QueueConsistent'
<1> SUFFICES ASSUME Inv, [Next]_vars, NEW c \in Calls
             PROVE  LET r == reviews'[c] IN
                    /\ r.needsHuman <=> Pending(c)' /\ r.path = "human"
                    /\ Pending(c)' /\ ~ r.needsHuman
                           => r.path = "model" /\ r.mode = "model"
  BY DEF QueueConsistent
<1>1. Effect(c)
  BY StepEffect DEF Inv
<1>2. /\ LifeCycle /\ QueueConsistent
      /\ reviews[c] \in ReviewRecords
      /\ clock \in Nat
      /\ calling # {} => up
  BY DEF Inv, TypeOK
<1>3. CASE Kept(c)
  BY <1>2, <1>3 DEF Kept, LifeCycle, QueueConsistent, Pending
<1>4. CASE ByPolicy(c)
  BY <1>2, <1>4 DEF ByPolicy, Submits, LifeCycle, QueueConsistent, Pending
<1>5. CASE QueuedForHuman(c)
  BY <1>2, <1>5 DEF QueuedForHuman, Submits, Queued, LifeCycle, QueueConsistent, Pending
<1>6. CASE AskedOfModel(c)
  BY <1>2, <1>6 DEF AskedOfModel, Submits, Queued, LifeCycle, QueueConsistent, Pending
<1>7. CASE ByHuman(c)
  BY <1>2, <1>7 DEF ByHuman, Closes, LifeCycle, QueueConsistent, Pending
<1>8. CASE ByModel(c)
  BY <1>2, <1>8 DEF ByModel, Closes, StillAsked, LifeCycle, QueueConsistent, Pending
<1>9. CASE Transferred(c)
  BY <1>2, <1>9 DEF Transferred, StillAsked, ReviewRecords, LifeCycle, QueueConsistent, Pending
<1>10. CASE Reported(c)
  BY <1>2, <1>10 DEF Reported, ReviewRecords, LifeCycle, QueueConsistent, Pending
<1>11. CASE Withdrawn(c)
  BY <1>2, <1>11 DEF Withdrawn, Closes, LifeCycle, QueueConsistent, Pending
<1> QED BY <1>1, <1>3, <1>4, <1>5, <1>6, <1>7, <1>8, <1>9, <1>10, <1>11 DEF Effect

LEMMA PendingOfThisRunStep == Inv /\ [Next]_vars => PendingOfThisRun'
<1> SUFFICES ASSUME Inv, [Next]_vars, NEW c \in Calls
             PROVE  up' /\ Pending(c)' => reviews'[c].run = run'
  BY DEF PendingOfThisRun
<1>1. Effect(c)
  BY StepEffect DEF Inv
<1>2. /\ LifeCycle /\ PendingOfThisRun
      /\ reviews[c] \in ReviewRecords
      /\ clock \in Nat
      /\ calling # {} => up
  BY DEF Inv, TypeOK
<1>3. CASE Kept(c)
  BY <1>2, <1>3 DEF Kept, LifeCycle, PendingOfThisRun, Pending
<1>4. CASE ByPolicy(c)
  BY <1>2, <1>4 DEF ByPolicy, Submits, LifeCycle, PendingOfThisRun, Pending
<1>5. CASE QueuedForHuman(c)
  BY <1>2, <1>5 DEF QueuedForHuman, Submits, Queued, LifeCycle, PendingOfThisRun, Pending
<1>6. CASE AskedOfModel(c)
  BY <1>2, <1>6 DEF AskedOfModel, Submits, Queued, LifeCycle, PendingOfThisRun, Pending
<1>7. CASE ByHuman(c)
  BY <1>2, <1>7 DEF ByHuman, Closes, LifeCycle, PendingOfThisRun, Pending
<1>8. CASE ByModel(c)
  BY <1>2, <1>8 DEF ByModel, Closes, StillAsked, LifeCycle, PendingOfThisRun, Pending
<1>9. CASE Transferred(c)
  BY <1>2, <1>9 DEF Transferred, StillAsked, ReviewRecords, LifeCycle, PendingOfThisRun, Pending
<1>10. CASE Reported(c)
  BY <1>2, <1>10 DEF Reported, ReviewRecords, LifeCycle, PendingOfThisRun, Pending
<1>11. CASE Withdrawn(c)
  BY <1>2, <1>11 DEF Withdrawn, Closes, LifeCycle, PendingOfThisRun, Pending
<1> QED BY <1>1, <1>3, <1>4, <1>5, <1>6, <1>7, <1>8, <1>9, <1>10, <1>11 DEF Effect

LEMMA OneAnswererStep == Inv /\ [Next]_vars => OneAnswerer'
<1> SUFFICES ASSUME Inv, [Next]_vars, NEW c \in Calls
             PROVE  /\ c \in calling' =>
                          /\ reviews'[c].path = "model"
                          /\ reviews'[c].by \in {"none", "E_TIMEOUT", "E_SESSION"}
                    /\ up' /\ faults' = 0 /\ StillAsked(c)' => c \in calling'
  BY DEF OneAnswerer
<1>1. Effect(c)
  BY StepEffect DEF Inv
<1>2. /\ LifeCycle /\ OneAnswerer /\ QueueConsistent
      /\ reviews[c] \in ReviewRecords
      /\ reviews[c].deadline \in Nat
      /\ clock \in Nat
      /\ c \in calling => up
  BY DEF Inv, TypeOK, ReviewRecords
<1>a. Unasked.path = "none"
  BY DEF Unasked
<1>b. StillAsked(c)' => reviews'[c].decision = "pending" /\ ~ reviews'[c].needsHuman
  BY DEF StillAsked, Pending
<1>3. CASE Kept(c)
  <2>1. clock' \in Nat
    BY TypeStep DEF Inv, TypeOK
  <2>2. StillAsked(c)' => StillAsked(c)
    BY <1>2, <1>3, <2>1 DEF Kept, StillAsked, Pending, Overdue
  <2>3. up' /\ StillAsked(c)' => up
    BY <1>3, <2>2 DEF Kept, StillAsked
  <2> QED BY <1>2, <1>3, <2>2, <2>3 DEF Kept, OneAnswerer
<1>4. CASE ByPolicy(c)
  BY <1>2, <1>4, <1>a, <1>b DEF ByPolicy, LifeCycle, OneAnswerer
<1>5. CASE QueuedForHuman(c)
  BY <1>2, <1>5, <1>a, <1>b DEF QueuedForHuman, Queued, LifeCycle, OneAnswerer
<1>6. CASE AskedOfModel(c)
  BY <1>6 DEF AskedOfModel, Submits, Queued
<1>7. CASE ByHuman(c)
  <2>1. reviews[c].path = "human"
    BY <1>2, <1>7 DEF ByHuman, Pending, LifeCycle, QueueConsistent
  <2> QED BY <1>2, <1>7, <1>b, <2>1 DEF ByHuman, Closes, OneAnswerer
<1>8. CASE ByModel(c)
  BY <1>8, <1>b DEF ByModel, Closes
<1>9. CASE Transferred(c)
  BY <1>2, <1>9, <1>b DEF Transferred, ReviewRecords
<1>10. CASE Reported(c)
  BY <1>2, <1>10, <1>b DEF Reported, ReviewRecords, OneAnswerer, LifeCycle
<1>11. CASE Withdrawn(c)
  BY <1>2, <1>11, <1>b DEF Withdrawn, Closes, OneAnswerer
<1> QED BY <1>1, <1>3, <1>4, <1>5, <1>6, <1>7, <1>8, <1>9, <1>10, <1>11 DEF Effect

(* Only a process that is up has requests out. *)
LEMMA CallingStep == (calling # {} => up) /\ [Next]_vars => (calling # {} => up)'
BY DEF Next, vars, Register, Heartbeat, Disconnect, Submit, SubmitByPolicy,
       SubmitToHuman, SubmitToModel, SubmitAccepted, Decide, Result, ModelReview,
       ModelTooLate, ModelTransfers, ModelDecides, ModelLost, ModelReturns, Expire,
       SaveSettings, Crash, Open, OpenFails, Tick

LEMMA InvStep == Inv /\ [Next]_vars => Inv'
BY TypeStep, LifeCycleStep, IncompleteNeedsHumanStep, DecidedInTimeStep,
   QueueConsistentStep, PendingOfThisRunStep, OneAnswererStep, CallingStep DEF Inv

THEOREM InvariantHolds == Spec => []Inv
<1>1. Init => Inv
  BY InvInit
<1>2. Inv /\ [Next]_vars => Inv'
  BY InvStep
<1> QED BY <1>1, <1>2, PTL DEF Spec

(* A call whose scripts were not all captured is allowed by a human only.  *)
THEOREM IncompleteIsForHumans == Spec => []IncompleteNeedsHuman
<1>1. Inv => IncompleteNeedsHuman
  BY DEF Inv
<1> QED BY <1>1, InvariantHolds, PTL

(* Human and model answer up to the deadline, the timeout comes after it.  *)
THEOREM DeadlinesHold == Spec => []DecidedInTime
<1>1. Inv => DecidedInTime
  BY DEF Inv
<1> QED BY <1>1, InvariantHolds, PTL

(* An engine that is up waits only for calls it accepted itself.           *)
THEOREM RestartLeavesNothingPending == Spec => []PendingOfThisRun
<1>1. Inv => PendingOfThisRun
  BY DEF Inv
<1> QED BY <1>1, InvariantHolds, PTL

(* The console's queue is exactly what a human may still decide.           *)
THEOREM QueueIsExact == Spec => []QueueConsistent
<1>1. Inv => QueueConsistent
  BY DEF Inv
<1> QED BY <1>1, InvariantHolds, PTL

(* While a model request is out nobody else permits the call, and without  *)
(* a lost write every review the model may answer has its request out.     *)
THEOREM ModelAnswersAlone == Spec => []OneAnswerer
<1>1. Inv => OneAnswerer
  BY DEF Inv
<1> QED BY <1>1, InvariantHolds, PTL

-----------------------------------------------------------------------------
(* Decisions are final *)

LEMMA FinalStep ==
    ASSUME Inv, [Next]_vars, NEW c \in Calls,
           reviews[c].decision \in {"approve", "reject"}
    PROVE  \/ reviews'[c] = reviews[c]
           \/ /\ reviews[c].execution = "awaiting_execution"
              /\ reviews'[c] = [reviews[c] EXCEPT !.execution = reviews'[c].execution]
<1>1. Effect(c)
  BY StepEffect DEF Inv
<1>2. Kept(c) \/ Reported(c)
  BY <1>1 DEF Effect, ByPolicy, QueuedForHuman, AskedOfModel, ByHuman, ByModel,
              Transferred, Withdrawn, StillAsked, Pending
<1>3. reviews[c] \in ReviewRecords
  BY DEF Inv, TypeOK
<1>4. CASE Kept(c)
  BY <1>4 DEF Kept
<1>5. CASE Reported(c)
  BY <1>3, <1>5 DEF Reported, ReviewRecords
<1> QED BY <1>2, <1>4, <1>5

(* No handler, retry, late answer, sweep or restart changes a decision, and *)
(* an execution result is reported once.                                    *)
THEOREM Finality == Spec => DecisionsAreFinal
<1> DEFINE A == \A c \in Calls :
          LET r == reviews[c] IN
          r.decision \in {"approve", "reject"} =>
              \/ reviews'[c] = r
              \/ /\ r.execution = "awaiting_execution"
                 /\ reviews'[c] = [r EXCEPT !.execution = reviews'[c].execution]
<1>1. Inv /\ [Next]_vars => A
  BY FinalStep
<1>2. Inv /\ [Next]_vars => [A]_vars
  BY <1>1
<1> HIDE DEF A
<1>3. Spec => [][A]_vars
  BY <1>2, InvariantHolds, PTL DEF Spec
<1> QED BY <1>3 DEF DecisionsAreFinal, A
=============================================================================
