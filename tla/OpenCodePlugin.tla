--------------------------- MODULE OpenCodePlugin ---------------------------
(***************************************************************************)
(* The plugin in OpenCode (src/adapter/opencode.mjs).  It runs the hook    *)
(* bridge as a child for every call and shares the child's answer among the*)
(* scopes it is installed in, each of which has the Agent call its hooks.  *)
(* The child does what the bridge does (HookBridge).  Other plugins may    *)
(* change a call's arguments between two of these hooks, but not after the *)
(* last of them: the adapter would not know (src/README.md:209 asks that   *)
(* only trusted extensions be loaded).                                     *)
(***************************************************************************)
EXTENDS AgentCalls

CONSTANT Scopes     \* in how many scopes the plugin is installed

ASSUME ScopeAssumption == Scopes \in Nat \ {0}

VARIABLES
    step,       \* the Agent's progress with each call
    promise,    \* the last entry of the map `calls` for each call
    mapped,     \* the calls that are in the map
    disposed

pluginVars == <<step, promise, mapped, disposed>>

(* One session; what a later one does is the same. *)
ReviewOf(t) == <<1, t>>

NoPromise == [child |-> "none", payload |-> NoPayload, reported |-> FALSE]
Settled == {"approved", "failed"}

(* metadata.exit of what the tool returned: "missing" if there is no number, *)
(* as for a tool that runs no command or a command that was killed.          *)
ExitCodes == {"zero", "nonzero", "missing"}

(* hook: how many scopes' hooks have been called. *)
At(where, hook, args, exit) ==
    [where |-> where, hook |-> hook, args |-> args, exit |-> exit]
NotAsked == At("off", 0, NoPayload, "none")

PluginInit ==
    /\ step = [t \in ToolCalls |-> NotAsked]
    /\ promise = [t \in ToolCalls |-> NoPromise]
    /\ mapped = {} /\ disposed = FALSE

Moves(t, where) == step' = [step EXCEPT ![t].where = where]

-----------------------------------------------------------------------------
(* The Agent. *)

AgentAsks(t) ==
    /\ step[t].where = "off"
    /\ step' = [step EXCEPT ![t] = At("before", 0, "whole", "none")]
    /\ UNCHANGED <<call, tool, promise, mapped, disposed>>

(* Another plugin's hook changes the arguments between two of this one's. *)
ArgumentsChange(t) ==
    /\ step[t].where = "before" /\ step[t].hook \in 1..(Scopes - 1)
    /\ step' = [step EXCEPT ![t].args = "changed"]
    /\ UNCHANGED <<call, tool, promise, mapped, disposed>>

(* The tool returns.  Without an exit code it may have ended either way.     *)
AgentRuns(t) ==
    /\ step[t].where = "run"
    /\ \E exit \in ExitCodes, outcome \in {"succeeded", "failed"} :
          /\ exit # "missing" => (outcome = "succeeded" <=> exit = "zero")
          /\ tool' = [tool EXCEPT ![t] = outcome]
          /\ step' = [step EXCEPT ![t] = At("after", 0, step[t].args, exit)]
    /\ UNCHANGED <<call, promise, mapped, disposed>>

(* The tool throws, and tool.execute.after is not called. *)
ToolThrows(t) ==
    /\ step[t].where = "run"
    /\ tool' = [tool EXCEPT ![t] = "failed"]
    /\ Moves(t, "threw")
    /\ UNCHANGED <<call, promise, mapped, disposed>>

-----------------------------------------------------------------------------
(* tool.execute.before. *)

(* Mutant: a call that is known is allowed to wait for its answer. *)
SharesAnyArguments(t) == TRUE

SharesArguments(t) == promise[t].payload = step[t].args

Before(t) ==
    /\ step[t].where = "before"
    /\ IF t \in mapped
         THEN /\ Moves(t, IF SharesArguments(t) THEN "await" ELSE "blocked")
              /\ UNCHANGED <<promise, mapped>>
         ELSE /\ promise' = [promise EXCEPT ![t] =
                    [child |-> IF disposed THEN "failed" ELSE "reading",
                     payload |-> step[t].args, reported |-> FALSE]]
              /\ mapped' = mapped \cup {t}
              /\ Moves(t, "await")
    /\ UNCHANGED <<call, tool, disposed>>

Awaited(t) ==
    /\ step[t].where = "await" /\ promise[t].child \in Settled
    /\ step' = [step EXCEPT ![t] =
          IF promise[t].child = "failed" THEN [@ EXCEPT !.where = "blocked"]
          ELSE At(IF step[t].hook + 1 = Scopes THEN "run" ELSE "before",
                  step[t].hook + 1, step[t].args, "none")]
    /\ UNCHANGED <<call, tool, promise, mapped, disposed>>

(* run: the configuration is read, then the child is started, disposed or not. *)
ChildIs(t, state) == promise' = [promise EXCEPT ![t].child = state]

Spawn(t) ==
    /\ promise[t].child = "reading"
    /\ ChildIs(t, "started") \/ ChildIs(t, "failed")
    /\ UNCHANGED <<call, tool, step, mapped, disposed>>

ChildAsks(t) ==
    /\ promise[t].child = "started"
    /\ Submitted(ReviewOf(t), promise[t].payload)
    /\ ChildIs(t, "asked")
    /\ UNCHANGED <<tool, step, mapped, disposed>>

(* An approval whose result is known is not good for another run. *)
ChildAnswers(t) ==
    /\ promise[t].child = "asked" /\ Decision(ReviewOf(t)) # "pending"
    /\ ChildIs(t, IF call[ReviewOf(t)].stage = "allowed" THEN "approved" ELSE "failed")
    /\ UNCHANGED <<call, tool, step, mapped, disposed>>

(* It cannot ask, its deadline passes, or it is killed. *)
ChildFails(t) ==
    /\ promise[t].child \in {"started", "asked"}
    /\ ChildIs(t, "failed")
    /\ UNCHANGED <<call, tool, step, mapped, disposed>>

-----------------------------------------------------------------------------
(* Reports.  A call is reported once, delivered or not; the child that       *)
(* delivers it is refused once the plugin is disposed.                       *)
Reports(t, outcome) ==
    IF t \in mapped /\ promise[t].child = "approved" /\ ~promise[t].reported
      THEN /\ promise' = [promise EXCEPT ![t].reported = TRUE]
           /\ \/ ~disposed /\ Reported(ReviewOf(t), outcome)
              \/ UNCHANGED call
      ELSE UNCHANGED <<call, promise>>

(* Mutant: the exit code is not looked at. *)
OutcomeOfAnyExit(exit) == "succeeded"

(* A tool that returned has succeeded unless its exit code says otherwise;  *)
(* a missing one is taken for success.                                      *)
OutcomeOfExit(exit) == IF exit = "nonzero" THEN "failed" ELSE "succeeded"

(* tool.execute.after, of each scope in turn. *)
After(t) ==
    /\ step[t].where = "after"
    /\ Reports(t, OutcomeOfExit(step[t].exit))
    /\ step' = [step EXCEPT ![t] =
          At(IF step[t].hook + 1 = Scopes THEN "done" ELSE "after",
             step[t].hook + 1, step[t].args, step[t].exit)]
    /\ UNCHANGED <<tool, mapped, disposed>>

(* message.part.updated with an error: of a tool that threw, and also of a   *)
(* call that was blocked.                                                    *)
PartFails(t) ==
    /\ step[t].where \in {"blocked", "threw"}
    /\ Reports(t, "failed")
    /\ Moves(t, "done")
    /\ UNCHANGED <<tool, mapped, disposed>>

-----------------------------------------------------------------------------
(* session.deleted: the calls are forgotten, their children go on. *)
SessionDeleted ==
    /\ mapped # {} /\ mapped' = {}
    /\ UNCHANGED <<call, tool, step, promise, disposed>>

(* dispose: the children that have been started are killed. *)
Dispose ==
    /\ ~disposed /\ disposed' = TRUE
    /\ promise' = [t \in ToolCalls |->
          IF promise[t].child \in {"started", "asked"}
            THEN [promise[t] EXCEPT !.child = "failed"] ELSE promise[t]]
    /\ mapped' = {}
    /\ UNCHANGED <<call, tool, step>>

ChildSteps(t) == Spawn(t) \/ ChildAsks(t) \/ ChildAnswers(t) \/ ChildFails(t)
HookSteps(t) == Before(t) \/ Awaited(t) \/ After(t) \/ PartFails(t)

PluginNext ==
    \/ SessionDeleted \/ Dispose
    \/ \E t \in ToolCalls :
          \/ AgentAsks(t) \/ ArgumentsChange(t) \/ AgentRuns(t) \/ ToolThrows(t)
          \/ HookSteps(t) \/ ChildSteps(t)
=============================================================================
