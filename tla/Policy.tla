------------------------------- MODULE Policy -------------------------------
(***************************************************************************)
(* The deterministic policy: the tables of rules and scopes, how they are  *)
(* edited and brought up to date at start, and the verdict Submit takes    *)
(* from them before any human or model is asked.                           *)
(*                                                                         *)
(* What a command means is not modelled: a call is a record that says which*)
(* built-in rules recognise it (hits), which texts of custom rules find it *)
(* (found), and what it touches (path, hosts).  Rule IDs are numbers in    *)
(* the order of the strings they stand for.                                *)
(***************************************************************************)
EXTENDS Integers, FiniteSets, Functions

CONSTANTS
    Presets,        \* BuiltinRules(): the rules this release ships, by ID
    ParentOf,       \* the category of a detailed rule, by ID
    Customs,        \* the IDs of custom rules (U_...)
    ScopeIds,       \* the IDs of scopes
    ScopeDrafts,    \* what an administrator may send as a scope
    Calls,          \* the calls to be judged
    Within(_, _)    \* Within(root, p): p is root or lies in it

Builtins == DOMAIN Presets
NoText == "no text"
NoPath == "no path"
Anything == ""      \* no tool: the rule holds for all; no matcher: a legacy record

(* A rule as it is sent and saved, and what a saved one says. *)
IsDraft(r) ==
    /\ r = [decision |-> r.decision, enabled |-> r.enabled, builtin |-> r.builtin,
            tool |-> r.tool, priority |-> r.priority, matcher |-> r.matcher, text |-> r.text]
    /\ r.enabled \in BOOLEAN /\ r.priority \in Int

IsRule(r) == IsDraft(r) /\ r.decision \in {"approve", "reject"}

IsTable(table) ==
    /\ IsFiniteSet(DOMAIN table) /\ DOMAIN table \subseteq Builtins \cup Customs
    /\ \A i \in DOMAIN table : IsRule(table[i])

(* The rules that are shipped recognise a call by its meaning. *)
ASSUME PolicyAssumption ==
    /\ Builtins \cup Customs \subseteq Nat
    /\ Builtins \cap Customs = {}
    /\ DOMAIN ParentOf \subseteq Builtins
    /\ \A i \in DOMAIN ParentOf : ParentOf[i] \in Builtins \ DOMAIN ParentOf
    /\ IsTable(Presets) /\ \A i \in Builtins : Presets[i].matcher = "semantic"

VARIABLES
    rules,      \* the table of rules, a function on the saved IDs
    scopes,     \* the table of scopes, likewise
    up          \* whether the service runs

policyVars == <<rules, scopes, up>>

-----------------------------------------------------------------------------
(* Evaluation. *)

Normalize(r) ==
    [r EXCEPT !.matcher = IF @ # Anything THEN @
                          ELSE IF r.builtin THEN "semantic" ELSE "regex"]

(* Rules() as the console and the upgrade read it. *)
Listed == [i \in DOMAIN rules |-> Normalize(rules[i])]

(* Mutant: priority first. *)
BeforeByPriority(i, j) ==
    rules[i].priority > rules[j].priority \/ (rules[i].priority = rules[j].priority /\ i < j)

(* sortRules: refusals first, then by priority, then by ID. *)
Before(i, j) ==
    IF rules[i].decision # rules[j].decision THEN rules[i].decision = "reject"
    ELSE IF rules[i].priority # rules[j].priority
    THEN rules[i].priority > rules[j].priority
    ELSE i < j

Matches(i, call) ==
    /\ rules[i].enabled
    /\ rules[i].tool \in {Anything, call.tool}
    /\ IF Normalize(rules[i]).matcher = "semantic"
         THEN i \in call.hits
         ELSE rules[i].text \in call.found

(* The scan stops at the first rule that matches. *)
Evaluate(call) ==
    LET hits == {i \in DOMAIN rules : Matches(i, call)}
    IN  IF hits = {} THEN "none"
        ELSE rules[CHOOSE i \in hits : \A j \in hits \ {i} : Before(i, j)].decision

Covers(k, call) == scopes[k].node = call.node /\ Within(scopes[k].project, call.cwd)

(* Every scope that covers the call restricts it. *)
Refuses(k, call) ==
    LET s == scopes[k]
    IN  \/ s.paths # {} /\ call.path # NoPath
           /\ \A root \in s.paths : ~Within(root, call.path)
        \/ s.targets # {} /\ ~(call.hosts \subseteq s.targets)

OutOfScope(call) == \E k \in DOMAIN scopes : Covers(k, call) /\ Refuses(k, call)

Verdict(call) == IF OutOfScope(call) THEN "reject" ELSE Evaluate(call)

-----------------------------------------------------------------------------
(* Edits. *)

Kept(r, i) == Normalize([r EXCEPT !.builtin = i \in Builtins])

Acceptable(r, i) ==
    /\ i \in Builtins \cup Customs
    /\ r.builtin => i \in Builtins
    /\ r.decision \in {"approve", "reject"}
    /\ CASE Kept(r, i).matcher = "semantic" -> i \in Builtins /\ r.text = NoText
         [] Kept(r, i).matcher \in {"regex", "contains"} -> r.text # NoText
         [] OTHER -> FALSE

SaveRule(i, r) ==
    /\ up /\ Acceptable(r, i)
    /\ rules' = [j \in DOMAIN rules \cup {i} |-> IF j = i THEN Kept(r, i) ELSE rules[j]]
    /\ UNCHANGED <<scopes, up>>

(* Only custom rules: a built-in one can be switched off. *)
DeleteRule(i) ==
    /\ up /\ i \in Customs
    /\ rules' = Restrict(rules, DOMAIN rules \ {i})
    /\ UNCHANGED <<scopes, up>>

SaveScope(k, s) ==
    /\ up
    /\ scopes' = [l \in DOMAIN scopes \cup {k} |-> IF l = k THEN s ELSE scopes[l]]
    /\ UNCHANGED <<rules, up>>

DeleteScope(k) ==
    /\ up
    /\ scopes' = Restrict(scopes, DOMAIN scopes \ {k})
    /\ UNCHANGED <<rules, up>>

-----------------------------------------------------------------------------
(* Start. *)

(* The category is in force as it was shipped: enabled, refusing, by meaning *)
(* and for every tool.  Otherwise its state is a choice of the operator.     *)
InForce(parent) ==
    LET r == Listed[parent]
    IN  r.enabled /\ r.decision = "reject" /\ r.matcher = "semantic" /\ r.tool = Anything

ParentIsOff(i) ==
    i \in DOMAIN ParentOf /\ ParentOf[i] \in DOMAIN rules /\ ~InForce(ParentOf[i])

(* Mutant: every new rule as it is shipped. *)
AddedAsShipped(i) == Presets[i]

(* An entry of the catalog that the table lacks. *)
Added(i) == [Presets[i] EXCEPT !.enabled = @ /\ ~ParentIsOff(i)]

UpgradeRules ==
    rules' = [i \in DOMAIN rules \cup Builtins |->
                 IF i \in DOMAIN rules THEN rules[i] ELSE Added(i)]

Open ==
    /\ ~up /\ up' = TRUE
    /\ IF rules = <<>> THEN rules' = Presets ELSE UpgradeRules
    /\ UNCHANGED scopes

(* The table is seeded one write at a time, the details last; the process   *)
(* stops before it is done.                                                 *)
SeedSome ==
    /\ ~up /\ rules = <<>>
    /\ \E done \in SUBSET Builtins :
          /\ done \cap DOMAIN ParentOf # {} => Builtins \ DOMAIN ParentOf \subseteq done
          /\ rules' = Restrict(Presets, done)
    /\ UNCHANGED <<scopes, up>>

Crash == up /\ up' = FALSE /\ UNCHANGED <<rules, scopes>>
=============================================================================
