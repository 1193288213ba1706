--------------------------- MODULE ReviewContract ---------------------------
(***************************************************************************)
(* What the review engine promises about each tool call, whatever happens  *)
(* to sessions, requests and processes: a call is submitted once; it is    *)
(* allowed or refused once, by a judge entitled to allow it; and only an   *)
(* allowed call gets an outcome, once.  Several calls may move in one step *)
(* because a sweep, a shutdown or a restart decides all it finds.          *)
(***************************************************************************)
CONSTANTS Calls, Payloads, Incomplete, NoPayload

VARIABLE call

States ==
    [stage   : {"unasked", "waiting", "allowed", "refused", "reported"},
     judge   : {"none", "policy", "human", "model", "engine"},
     payload : Payloads \cup {NoPayload},
     outcome : {"none", "succeeded", "failed", "not_executed"}]

At(stage, judge, payload, outcome) ==
    [stage |-> stage, judge |-> judge, payload |-> payload, outcome |-> outcome]

NotSubmitted == At("unasked", "none", NoPayload, "none")

(* A human may allow any call, the policy and the model only calls whose   *)
(* scripts were captured completely, the engine on its own none.           *)
MayAllow(judge, payload) ==
    \/ judge = "human"
    \/ judge \in {"policy", "model"} /\ payload \notin Incomplete

Ask(s, t) ==
    /\ s = NotSubmitted
    /\ \E p \in Payloads : t = At("waiting", "none", p, "none")

(* The policy answers as the call is submitted. *)
AskAndJudge(s, t) ==
    /\ s = NotSubmitted
    /\ \E p \in Payloads, stage \in {"allowed", "refused"} :
          /\ stage = "allowed" => MayAllow("policy", p)
          /\ t = At(stage, "policy", p, "none")

Judge(s, t) ==
    /\ s.stage = "waiting"
    /\ \E stage \in {"allowed", "refused"}, judge \in {"human", "model", "engine"} :
          /\ stage = "allowed" => MayAllow(judge, s.payload)
          /\ t = At(stage, judge, s.payload, "none")

Report(s, t) ==
    /\ s.stage = "allowed"
    /\ \E o \in {"succeeded", "failed", "not_executed"} :
          t = At("reported", s.judge, s.payload, o)

Moves(s, t) == Ask(s, t) \/ AskAndJudge(s, t) \/ Judge(s, t) \/ Report(s, t)

Init == call = [c \in Calls |-> NotSubmitted]

Next ==
    /\ call' \in [Calls -> States]
    /\ \A c \in Calls : call'[c] = call[c] \/ Moves(call[c], call'[c])

Safety == Init /\ [][Next]_call

(* Every submitted call gets its answer. *)
Answered == \A c \in Calls :
    call[c].stage = "waiting" ~> call[c].stage # "waiting"
=============================================================================
