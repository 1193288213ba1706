--------------------------- MODULE Administration ---------------------------
(***************************************************************************)
(* The policy under administration: a console tab beside other             *)
(* administrators, restarts into the same or a newer release, and the calls*)
(* judged in between.                                                      *)
(***************************************************************************)
EXTENDS Console

CONSTANT Scenarios  \* how often each thing happens, from which tables

ASSUME ScenarioAssumption ==
    \A s \in Scenarios :
        /\ {"edits", "logins", "stops", "drafts"} \subseteq DOMAIN s
        /\ \A table \in s.tables : IsTable(table)
        /\ \A d \in s.drafts : IsDraft(d.rule)

VARIABLE left       \* how often each thing may still happen

vars == <<policyVars, consoleVars, left>>

Init ==
    /\ left \in Scenarios
    /\ rules \in left.tables /\ scopes = <<>> /\ up = FALSE
    /\ faults = left.faults
    /\ ConsoleInit

Spend(what) == left[what] > 0 /\ left' = [left EXCEPT ![what] = @ - 1]

(* Another console, or the same one's forms, whose content is the user's. *)
OtherEdit ==
    /\ \/ \E d \in left.drafts : SaveRule(d.id, d.rule)
       \/ \E i \in Customs \cap DOMAIN rules : DeleteRule(i)
       \/ \E d \in left.scopes : SaveScope(d[1], d[2])
       \/ \E k \in DOMAIN scopes : DeleteScope(k)
    /\ Publish
    /\ UNCHANGED <<session, wire, tabVars, faults>>

Next ==
    \/ OtherEdit /\ Spend("edits")
    \/ \E i \in DOMAIN view.rules : Toggle(i) /\ Spend("edits")
    \/ Login /\ Spend("logins")
    \/ OpenPage /\ Spend("logins")
    \/ ServerStops /\ Spend("stops")
    \/ SeedSome /\ Spend("stops") /\ UNCHANGED consoleVars
    \/ Open /\ UNCHANGED <<consoleVars, left>>
    \/ /\ \/ SendSignal \/ Tick \/ SessionExpires \/ Logout
          \/ StreamOpens \/ StreamFails \/ UpdateArrives \/ TimerFires
          \/ \E table \in DOMAIN view : Read(table)
          \/ ReadFails \/ Unauthorized
       /\ UNCHANGED left

(* The server serves its streams, the browser runs its timers and follows   *)
(* its connections, and every request is answered or fails.  Nobody has to  *)
(* start the service, log in or edit.                                       *)
Fairness ==
    /\ WF_vars(SendSignal /\ UNCHANGED left)
    /\ WF_vars(Tick /\ UNCHANGED left)
    /\ WF_vars(StreamOpens /\ UNCHANGED left)
    /\ WF_vars(StreamFails /\ UNCHANGED left)
    /\ WF_vars(UpdateArrives /\ UNCHANGED left)
    /\ WF_vars(TimerFires /\ UNCHANGED left)
    /\ WF_vars((\/ \E table \in DOMAIN view : Read(table)
                \/ ReadFails \/ Unauthorized) /\ UNCHANGED left)

Spec == Init /\ [][Next]_vars /\ Fairness

-----------------------------------------------------------------------------
(* Properties. *)

(* What the operator has forbidden stays forbidden: whatever other rules    *)
(* approve the call, with whatever priority, from whichever release they    *)
(* are and in whichever order they were saved, a call is refused just if an *)
(* enabled refusing rule recognises it or a scope it is covered by leaves it*)
(* out, and it is approved only when nothing refuses it.                    *)
StrictestRuleDecides ==
    \A call \in Calls :
        LET says(d) == {i \in DOMAIN rules :
                /\ rules[i].enabled /\ rules[i].decision = d
                /\ rules[i].tool # Anything => rules[i].tool = call.tool
                /\ \/ /\ Listed[i].matcher = "semantic" /\ i \in call.hits
                   \/ /\ Listed[i].matcher # "semantic" /\ rules[i].text \in call.found}
            covering == {s \in {scopes[k] : k \in DOMAIN scopes} :
                s.node = call.node /\ Within(s.project, call.cwd)}
            places == {p \in {call.path} \ {NoPath} :
                \A s \in covering : s.paths = {} \/ \E root \in s.paths : Within(root, p)}
            hosts == {h \in call.hosts :
                \A s \in covering : s.targets = {} \/ h \in s.targets}
            allowed == (call.path # NoPath => places # {}) /\ hosts = call.hosts
        IN  Verdict(call) = IF ~allowed \/ says("reject") # {} THEN "reject"
                            ELSE IF says("approve") # {} THEN "approve" ELSE "none"

(* rule_catalog.go: an upgrade does not silently re-enable a category the   *)
(* operator has switched off, replaced, allowed or limited.  A start gives  *)
(* a call another verdict only for a new rule whose category is in force or *)
(* which has none, whatever earlier starts were cut short.                  *)
ClosedCategoriesStayClosed ==
    [][~up /\ up' /\ rules # <<>> =>
          \A call \in Calls :
              Verdict(call)' # Verdict(call) =>
                  \E i \in call.hits \ DOMAIN rules :
                      (i \in DOMAIN ParentOf /\ ParentOf[i] \in DOMAIN rules) =>
                          InForce(ParentOf[i])]_vars

(* The tab does not show old tables for ever while it says that it is       *)
(* online: it learns of the last change although signals are merged, a      *)
(* refresh is skipped while another runs, requests fail, the session ends   *)
(* or the service is restarted.                                             *)
ConsoleCatchesUp ==
    []<>(authenticated /\ streamOnline => view = Tables)
=============================================================================
