------------------------------ MODULE Adapters ------------------------------
(***************************************************************************)
(* The adapters that run inside an Agent, against the review service's     *)
(* contract.  They share nothing else, so a machine runs one of them.      *)
(***************************************************************************)
EXTENDS PiAdapter, OpenCodePlugin

VARIABLE agent

vars == <<agent, serviceVars, piVars, pluginVars>>

Init == agent \in {"pi", "opencode"} /\ AgentInit /\ PiInit /\ PluginInit

Next ==
    /\ \/ agent = "pi" /\ PiNext /\ UNCHANGED pluginVars
       \/ agent = "opencode" /\ PluginNext /\ UNCHANGED piVars
       \/ ~Capturing /\ ServiceJudges /\ UNCHANGED <<piVars, pluginVars>>
    /\ UNCHANGED agent

(* Requests are answered or time out, intervals and timers fire, deadlines  *)
(* pass, a child ends (HookBridge, EveryHookEnds, and the plugin's timeout),*)
(* and the event loop runs what is ready.  Nobody has to decide a review.   *)
Fairness ==
    \A t \in ToolCalls :
        /\ WF_vars(CallSteps(t) /\ UNCHANGED <<agent, pluginVars>>)
        /\ WF_vars(CaptureGoesOn /\ UNCHANGED <<agent, pluginVars>>)
        /\ WF_vars(DeadlinePasses(t) /\ UNCHANGED <<agent, pluginVars>>)
        /\ WF_vars(HookSteps(t) /\ UNCHANGED <<agent, piVars>>)
        /\ WF_vars(ChildSteps(t) /\ UNCHANGED <<agent, piVars>>)

Spec == Init /\ [][Next]_vars /\ Fairness

-----------------------------------------------------------------------------
(* Properties. *)

(* The state has its kind, and the counter behind the state that heartbeats *)
(* report is the number of calls in hand, however sessions end.             *)
TypeOK ==
    /\ call \in [Reviews -> Service!States]
    /\ tool \in [ToolCalls -> {"none", "succeeded", "failed"}]
    /\ session \in 0..MaxSessions /\ joined \in BOOLEAN
    /\ pending = Cardinality({t \in ToolCalls : Handling(t)})
    /\ registered => live /\ configured
    /\ \A t \in ToolCalls :
          /\ handler[t].session \in 0..session /\ report[t] \in 0..3
          /\ promise[t].child \in {"none", "reading", "started", "asked"} \cup Settled
          /\ step[t].hook \in 0..Scopes

(* A tool runs only when the service has allowed this very call, of this    *)
(* session, with what the adapter sent or what the Agent runs it with: not  *)
(* on an error, nor in a session that has ended before the answer.          *)
RunsOnlyApproved ==
    \A t \in ToolCalls :
        /\ handler[t].at = "allowed" =>
              call[Of(t)].stage \in {"allowed", "reported"}
        /\ step[t].where \in {"run", "after"} =>
              /\ call[ReviewOf(t)].stage \in {"allowed", "reported"}
              /\ call[ReviewOf(t)].payload = step[t].args

(* A command of OpenCode that ended without an exit code: the plugin takes   *)
(* it for a success (opencode.mjs:151, README).                              *)
WithoutExitCode(t) == step[t].exit = "missing"

(* The audit never claims a success that was none, but for a command without *)
(* an exit code, and never a failure of what succeeded, whatever reports are *)
(* repeated, late or lost, and whether a tool returns, throws or is blocked. *)
OutcomesAreTrue ==
    \A t \in ToolCalls, s \in Sessions :
        LET outcome == call[<<s, t>>].outcome
        IN  /\ outcome = "succeeded" => tool[t] = "succeeded" \/ WithoutExitCode(t)
            /\ outcome \in {"failed", "not_executed"} => tool[t] # "succeeded"

(* A capture that is not reported as incomplete holds every file the        *)
(* command refers to to its last byte, within the limits, but for programs  *)
(* run directly, whatever the files' owners do meanwhile (captureScripts,   *)
(* CaptureScripts).                                                         *)
CompleteMeansWhole ==
    Capturing /\ AllRead /\ Status # "incomplete" =>
        /\ \A n \in DOMAIN capture.command.refs :
              LET path == capture.command.refs[n].path
              IN  /\ path # Problem
                  /\ path \in capture.skipped
                     \/ \E k \in DOMAIN capture.files :
                           /\ capture.files[k].path = path
                           /\ capture.files[k].complete /\ capture.files[k].whole
        /\ capture.total <= MaxBytes /\ Len(capture.files) <= MaxFiles

(* No call waits for ever: the adapter comes to an answer even if nobody    *)
(* decides the review, the service is gone or the session ends.             *)
EveryCallEnds ==
    \A t \in ToolCalls :
        /\ Handling(t) ~> ~Handling(t)
        /\ step[t].where = "await" ~> step[t].where # "await"
=============================================================================
