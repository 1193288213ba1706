----------------------------- MODULE PiAdapter ------------------------------
(***************************************************************************)
(* The extension in Pi (src/adapter/index.ts).  Handlers and callbacks run *)
(* one at a time and interleave wherever they await a request; capturing   *)
(* scripts is synchronous and lets nothing else of the adapter run.  Pi    *)
(* waits for the handlers of a session's start and end.                    *)
(***************************************************************************)
EXTENDS AgentCalls, ScriptCapture

ASSUME CommandAssumption ==
    /\ MaxFiles \in Nat /\ MaxBytes \in Nat
    /\ \A t \in ToolCalls : \A c \in Commands[t] :
          Len(c.refs) \in Nat /\ DOMAIN c.refs = 1..Len(c.refs)

VARIABLES
    session,        \* instanceId: the number of the session, 0 before the first
    live,           \* the session's AbortController has not been aborted
    configured,     \* connection.json could be read
    registered,
    joining,        \* session_start awaits its registration
    timer,          \* the heartbeat interval is set
    calls,          \* the map `calls`: the decision known of each call
    pending,        \* the counter `pending`
    handler,        \* the tool_call handler of each call
    report,         \* its tool_execution_end handler: attempts left
    joined,         \* the service takes calls from the session
    overdue         \* waiting calls whose deadline has passed by a second

piVars == <<session, live, configured, registered, joining, timer, calls,
            pending, handler, report, joined, overdue, capture>>
serviceVars == <<call, tool>>

Off == [at |-> "off", session |-> 0]
InHand == {"register", "capture", "submit", "sleep", "poll"}
Handling(t) == handler[t].at \in InHand
Of(t) == <<handler[t].session, t>>

PiInit ==
    /\ session = 0 /\ live = TRUE /\ configured = FALSE /\ registered = FALSE
    /\ joining = FALSE /\ timer = FALSE 
    /\ calls = [t \in ToolCalls |-> "none"] /\ pending = 0
    /\ handler = [t \in ToolCalls |-> Off] /\ report = [t \in ToolCalls |-> 0]
    /\ joined = FALSE /\ overdue = {} /\ capture = NotRunning

-----------------------------------------------------------------------------
(* Sessions. *)

SessionStart ==
    /\ session < MaxSessions
    /\ session = 0 \/ ~live
    /\ session' = session + 1
    /\ live' = TRUE /\ registered' = FALSE /\ timer' = FALSE /\ pending' = 0
    /\ calls' = [t \in ToolCalls |-> "none"]
    /\ configured' \in BOOLEAN
    /\ joining' = TRUE /\ joined' = FALSE
    /\ UNCHANGED <<serviceVars, handler, report, overdue, capture>>

(* The service may have registered a session whose answer is lost. *)
Registers == joined' \in {joined, joined \/ configured}
RegisterSucceeds == configured /\ joined' = TRUE /\ registered' = TRUE

(* Then the heartbeat starts, registered or not. *)
StartEnds ==
    /\ joining /\ joining' = FALSE /\ timer' = TRUE
    /\ RegisterSucceeds \/ (Registers /\ UNCHANGED registered)
    /\ UNCHANGED <<serviceVars, session, live, configured, calls, pending,
                   handler, report, overdue, capture>>

(* Whatever awaits a request or sleeps is rejected at once: the handlers in  *)
(* hand block their calls and report nothing, the map being empty.           *)
SessionShutdown ==
    /\ session > 0 /\ live /\ ~joining /\ ~Capturing
    /\ live' = FALSE /\ timer' = FALSE /\ registered' = FALSE 
    /\ calls' = [t \in ToolCalls |-> "none"]
    /\ handler' = [t \in ToolCalls |->
                      IF Handling(t) THEN [handler[t] EXCEPT !.at = "blocked"] ELSE handler[t]]
    /\ pending' = pending - Cardinality({t \in ToolCalls : Handling(t)})
    /\ report' = [t \in ToolCalls |-> 0]
    /\ joined' \in {joined, FALSE}
    /\ overdue' = {}
    /\ UNCHANGED <<serviceVars, session, configured, joining, capture>>

(* The service restarts, or the session's lease runs out. *)
ServiceForgets ==
    /\ joined /\ joined' = FALSE
    /\ UNCHANGED <<serviceVars, session, live, configured, registered, joining, timer,
                   calls, pending, handler, report, overdue, capture>>

-----------------------------------------------------------------------------
(* The heartbeat, one request at a time: a session that is not registered   *)
(* is registered again, and a failure has it registered again the next time. *)
(* What a request in hand would find at its answer is all that matters.      *)
Beat ==
    /\ timer /\ live /\ ~Capturing
    /\ \/ ~registered /\ RegisterSucceeds
       \/ ~registered /\ Registers /\ UNCHANGED registered
       \/ registered /\ registered' = FALSE /\ UNCHANGED joined
    /\ UNCHANGED <<serviceVars, session, live, configured, joining, timer, calls,
                   pending, handler, report, overdue, capture>>

-----------------------------------------------------------------------------
(* The tool_call handler.  Each step names what becomes of the handler; the *)
(* finally clause counts it out of `pending` when it ends.                   *)

(* Mutant: without the finally clause only the call that is let run is       *)
(* counted out.                                                              *)
GoesUncounted(t, at) ==
    /\ handler' = [handler EXCEPT ![t].at = at]
    /\ pending' = IF at = "allowed" THEN pending - 1 ELSE pending
    /\ overdue' = IF at \in InHand THEN overdue ELSE overdue \ {t}

Goes(t, at) ==
    /\ handler' = [handler EXCEPT ![t].at = at]
    /\ pending' = IF at \in InHand THEN pending ELSE pending - 1
    /\ overdue' = IF at \in InHand THEN overdue ELSE overdue \ {t}

(* Mutant: an error lets the tool run. *)
FailsOpen(t) == Goes(t, "allowed")

Fails(t) == Goes(t, "blocked")

sessionVars == <<session, live, configured, joining, timer>>

ToolCall(t) ==
    /\ session > 0 /\ live /\ ~joining /\ ~Capturing /\ handler[t] = Off
    /\ handler' = [handler EXCEPT ![t] =
                      [at |-> IF registered THEN "capture" ELSE "register", session |-> session]]
    /\ pending' = pending + 1
    /\ UNCHANGED <<serviceVars, sessionVars, registered, calls, report, joined, overdue, capture>>

RegisterForCall(t) ==
    /\ handler[t].at = "register" /\ ~Capturing
    /\ \/ RegisterSucceeds /\ Goes(t, "capture")
       \/ Registers /\ Fails(t) /\ UNCHANGED registered
    /\ UNCHANGED <<serviceVars, sessionVars, calls, report, capture>>

Capture(t) ==
    /\ handler[t].at = "capture" /\ ~Capturing
    /\ \E command \in Commands[t] : CaptureStarts(t, command)
    /\ UNCHANGED <<serviceVars, sessionVars, registered, calls, pending, handler,
                   report, joined, overdue>>

CaptureGoesOn ==
    /\ CaptureNext
    /\ UNCHANGED <<serviceVars, sessionVars, registered, calls, pending, handler,
                   report, joined, overdue>>

(* What the request carries; the handler awaits its answer. *)
CaptureEnds(t) ==
    /\ capture.of = {t} /\ AllRead
    /\ capture' = NotRunning
    /\ handler' = [handler EXCEPT ![t] =
          [at |-> "submit", session |-> @.session,
           payload |-> IF Status = "incomplete" THEN "partial" ELSE "whole"]]
    /\ UNCHANGED <<serviceVars, sessionVars, registered, calls, pending, report,
                   joined, overdue>>

(* Mutant: the deadline is left to the service. *)
WaitsOn(t) == Goes(t, "sleep")

Waits(t) == IF t \in overdue THEN Fails(t) ELSE Goes(t, "sleep")

(* What an answer means; the head of the loop looks at the deadline. *)
Answered(t, decision) ==
    /\ calls' = [calls EXCEPT ![t] = decision]
    /\ CASE decision = "pending" -> Waits(t)
         [] decision = "approve" -> Goes(t, "allowed")
         [] OTHER -> Goes(t, "blocked")

(* The request is refused or lost, or its answer is. *)
Submit(t) ==
    /\ handler[t].at = "submit" /\ ~Capturing
    /\ \/ /\ joined /\ Submitted(Of(t), handler[t].payload)
          /\ \/ \E r \in {Of(t)} : Answered(t, Decision(r)')
             \/ Fails(t) /\ UNCHANGED calls
       \/ Fails(t) /\ UNCHANGED <<call, calls>>
    /\ UNCHANGED <<tool, sessionVars, registered, report, joined, capture>>

Wake(t) ==
    /\ handler[t].at = "sleep" /\ ~Capturing
    /\ Goes(t, "poll")
    /\ UNCHANGED <<serviceVars, sessionVars, registered, calls, report, joined, capture>>

Poll(t) ==
    /\ handler[t].at = "poll" /\ ~Capturing
    /\ \/ Answered(t, Decision(Of(t)))
       \/ Fails(t) /\ UNCHANGED calls
    /\ UNCHANGED <<serviceVars, sessionVars, registered, report, joined, capture>>

DeadlinePasses(t) ==
    /\ handler[t].at \in {"sleep", "poll"} /\ t \notin overdue /\ ~Capturing
    /\ overdue' = overdue \cup {t}
    /\ UNCHANGED <<serviceVars, sessionVars, registered, calls, pending, handler, report,
                   joined, capture>>

-----------------------------------------------------------------------------
(* The tool and its end.  Pi reports the end of a blocked call as an error. *)

Outcome(t, isError) ==
    IF calls[t] = "reject" THEN "not_executed" ELSE IF isError THEN "failed" ELSE "succeeded"

ToolEnds(t) ==
    /\ handler[t].at \in {"allowed", "blocked"} /\ ~Capturing
    /\ \E isError \in BOOLEAN :
          /\ handler[t].at = "blocked" => isError
          /\ tool' = IF handler[t].at = "blocked" THEN tool
                     ELSE [tool EXCEPT ![t] = IF isError THEN "failed" ELSE "succeeded"]
          /\ handler' = [handler EXCEPT ![t] =
                [at |-> "ended", session |-> @.session, outcome |-> Outcome(t, isError)]]
    /\ report' = [report EXCEPT ![t] = IF calls[t] = "none" THEN 0 ELSE 3]
    /\ UNCHANGED <<call, sessionVars, registered, calls, pending, joined, overdue, capture>>

(* Three attempts, each of which may be lost either way; a failed one is    *)
(* followed by another as long as the session lives.                        *)
Report(t) ==
    /\ report[t] > 0 /\ ~Capturing
    /\ LET outcome == handler[t].outcome
       IN  \/ /\ ReportAccepted(Of(t), outcome) /\ Reported(Of(t), outcome)
              /\ report' = [report EXCEPT ![t] = 0]
           \/ /\ Reported(Of(t), outcome) \/ UNCHANGED call
              /\ report' = [report EXCEPT ![t] = @ - 1]
    /\ calls' = [calls EXCEPT ![t] = IF report'[t] = 0 THEN "none" ELSE @]
    /\ UNCHANGED <<tool, sessionVars, registered, pending, handler, joined, overdue, capture>>

CallSteps(t) ==
    \/ RegisterForCall(t) \/ Capture(t) \/ CaptureEnds(t)
    \/ Submit(t) \/ Wake(t) \/ Poll(t)

PiNext ==
    \/ SessionStart \/ StartEnds \/ SessionShutdown \/ ServiceForgets
    \/ Beat \/ CaptureGoesOn
    \/ \E t \in ToolCalls :
          ToolCall(t) \/ CallSteps(t) \/ DeadlinePasses(t) \/ ToolEnds(t) \/ Report(t)
=============================================================================
