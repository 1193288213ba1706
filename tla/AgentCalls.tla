----------------------------- MODULE AgentCalls -----------------------------
(***************************************************************************)
(* What an adapter inside an Agent deals with: the tool calls the Agent    *)
(* makes, and the review service, of which it may rely on the contract     *)
(* alone (ReviewContract, which the engine implements).  Any request may   *)
(* be lost before or after the service has served it.                      *)
(***************************************************************************)
EXTENDS Integers, Sequences, FiniteSets

CONSTANTS
    ToolCalls,      \* the tool call IDs of the Agent
    MaxSessions,    \* how many sessions the Agent goes through
    Payloads,       \* what a review can be asked for
    Incomplete,     \* those whose scripts were not captured completely
    NoPayload

(* What the adapters send is among the payloads; a captured command is whole *)
(* or partial, and arguments may be changed after they were captured.       *)
ASSUME AgentAssumption ==
    /\ IsFiniteSet(ToolCalls)
    /\ MaxSessions \in Nat \ {0}
    /\ {"whole", "partial", "changed"} \subseteq Payloads
    /\ NoPayload \notin Payloads

Sessions == 1..MaxSessions

(* A review is that of one call in one session. *)
Reviews == Sessions \X ToolCalls

VARIABLES
    call,       \* the reviews, as the contract has them
    tool        \* what became of each tool call in the Agent

Service == INSTANCE ReviewContract WITH Calls <- Reviews

AgentInit ==
    /\ Service!Init
    /\ tool = [t \in ToolCalls |-> "none"]

(* hookView: the decision, and nothing of the result. *)
Decision(r) ==
    CASE call[r].stage \in {"unasked", "waiting"} -> "pending"
      [] call[r].stage \in {"allowed", "reported"} -> "approve"
      [] OTHER -> "reject"

(* Submit: a new review waits or is answered by the policy at once; one that *)
(* exists is found again, for the same payload only.                         *)
Submitted(r, payload) ==
    \/ \E stage \in {"waiting", "allowed", "refused"} :
          LET s == Service!At(stage, IF stage = "waiting" THEN "none" ELSE "policy",
                              payload, "none")
          IN  /\ Service!Ask(call[r], s) \/ Service!AskAndJudge(call[r], s)
              /\ call' = [call EXCEPT ![r] = s]
    \/ call[r].payload = payload /\ UNCHANGED call

(* Result: accepted once, for an allowed call. *)
Reported(r, outcome) ==
    call' = IF call[r].stage = "allowed"
              THEN [call EXCEPT ![r].stage = "reported", ![r].outcome = outcome]
              ELSE call

ReportAccepted(r, outcome) ==
    \/ call[r].stage = "allowed"
    \/ call[r].stage = "reported" /\ call[r].outcome = outcome
    \/ call[r].stage = "refused" /\ outcome = "not_executed"

(* A waiting review is decided.  A human may allow it and the engine may     *)
(* refuse it; who it was makes no difference to an adapter.                  *)
ServiceJudges ==
    \E r \in Reviews, stage \in {"allowed", "refused"} :
        LET judge == IF stage = "allowed" THEN "human" ELSE "engine"
            s == Service!At(stage, judge, call[r].payload, "none")
        IN  /\ Service!Judge(call[r], s)
            /\ call' = [call EXCEPT ![r] = s]
            /\ UNCHANGED tool
=============================================================================
