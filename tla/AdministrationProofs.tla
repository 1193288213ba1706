------------------------ MODULE AdministrationProofs ------------------------
(***************************************************************************)
(* Machine-checked proofs about the deterministic policy under             *)
(* administration, for every catalog, custom rule, scope, call and history *)
(* of edits and restarts: the strictest rule decides, and an upgrade leaves*)
(* a category that was closed closed.                                      *)
(***************************************************************************)
EXTENDS Administration, FiniteSetTheorems, SequenceTheorems, WellFoundedInduction, TLAPS

-----------------------------------------------------------------------------
(* The order of the rules. *)

LEMMA BeforeIsOrder ==
    ASSUME IsTable(rules), NEW i \in DOMAIN rules, NEW j \in DOMAIN rules, NEW k \in DOMAIN rules
    PROVE  /\ i # j => Before(i, j) \/ Before(j, i)
           /\ Before(i, j) /\ Before(j, k) => Before(i, k)
<1>1. /\ i \in Nat /\ j \in Nat /\ k \in Nat
      /\ rules[i].decision \in {"approve", "reject"} /\ rules[i].priority \in Int
      /\ rules[j].decision \in {"approve", "reject"} /\ rules[j].priority \in Int
      /\ rules[k].decision \in {"approve", "reject"} /\ rules[k].priority \in Int
  BY PolicyAssumption DEF IsTable, IsRule, IsDraft
<1> QED BY <1>1 DEF Before

First(S, i) == i \in S /\ \A j \in S \ {i} : Before(i, j)

(* Of any rules of the table one comes first; otherwise take a smallest set   *)
(* of rules in which none does.                                             *)
LEMMA OneIsFirst ==
    ASSUME IsTable(rules), NEW S \in SUBSET DOMAIN rules, S # {}
    PROVE  \E i \in S : First(S, i)
<1> DEFINE Bad == {T \in FiniteSubsetsOf(DOMAIN rules) : T # {} /\ \A i \in T : ~First(T, i)}
           R == StrictSubsetOrdering(DOMAIN rules)
<1>1. S \in FiniteSubsetsOf(DOMAIN rules)
  BY FS_Subset DEF FiniteSubsetsOf, IsTable
<1>2. SUFFICES ASSUME Bad # {} PROVE FALSE
  BY <1>1
<1>3. IsWellFoundedOn(R, FiniteSubsetsOf(DOMAIN rules))
  BY FS_StrictSubsetOrderingWellFounded
<1>4. Bad \subseteq FiniteSubsetsOf(DOMAIN rules)
  OBVIOUS
<1>5. \E T \in Bad : \A U \in Bad : ~(<<U, T>> \in R)
  <2> HIDE DEF Bad, R
  <2> QED BY <1>2, <1>3, <1>4, WFMin
<1>6. PICK T \in Bad : \A U \in Bad : ~(<<U, T>> \in R)
  BY <1>5
<1>7. /\ T \in SUBSET DOMAIN rules /\ IsFiniteSet(T) /\ T # {}
      /\ \A i \in T : ~First(T, i)
  BY <1>6 DEF FiniteSubsetsOf
<1>8. PICK x \in T : TRUE
  BY <1>7
<1> DEFINE U == T \ {x}
<1>9. U \in FiniteSubsetsOf(DOMAIN rules) /\ <<U, T>> \in R
  BY <1>7, <1>8, FS_Subset DEF FiniteSubsetsOf, StrictSubsetOrdering
<1>10. U # {}
  BY <1>7, <1>8 DEF First
<1>11. PICK f \in U : First(U, f)
  BY <1>6, <1>9, <1>10
<1>12. Before(x, f) \/ Before(f, x)
  BY <1>7, <1>11, BeforeIsOrder
<1>13. CASE Before(f, x)
  BY <1>7, <1>11, <1>13 DEF First
<1>14. CASE Before(x, f)
  <2>1. \A j \in T \ {x} : Before(x, j)
    BY <1>7, <1>11, <1>14, BeforeIsOrder DEF First
  <2> QED BY <1>7, <2>1 DEF First
<1> QED BY <1>12, <1>13, <1>14

(* What the scan decides: a refusal if any matching rule refuses. *)
Says(d, call) == \E i \in DOMAIN rules : Matches(i, call) /\ rules[i].decision = d

Decided(call) ==
    Evaluate(call) = IF Says("reject", call) THEN "reject"
                     ELSE IF Says("approve", call) THEN "approve" ELSE "none"

AllDecided == \A call \in Calls : Decided(call)

LEMMA EvaluateDecides ==
    ASSUME IsTable(rules)
    PROVE  \A call \in Calls : Decided(call)
<1> SUFFICES ASSUME NEW call \in Calls PROVE Decided(call)
  OBVIOUS
<1> DEFINE hits == {i \in DOMAIN rules : Matches(i, call)}
<1>1. CASE hits = {}
  BY <1>1 DEF Decided, Evaluate, Says
<1>2. CASE hits # {}
  <2> DEFINE i == CHOOSE i \in hits : \A j \in hits \ {i} : Before(i, j)
  <2>1. \E k \in hits : \A j \in hits \ {k} : Before(k, j)
    <3>1. hits \in SUBSET DOMAIN rules
      OBVIOUS
    <3> HIDE DEF hits
    <3> QED BY <1>2, <3>1, OneIsFirst DEF First
  <2>2. i \in hits /\ \A j \in hits \ {i} : Before(i, j)
    BY <2>1
  <2>3. Evaluate(call) = rules[i].decision
    BY <1>2 DEF Evaluate
  <2> HIDE DEF i
  <2>4. rules[i].decision \in {"approve", "reject"}
    BY <2>2 DEF IsTable, IsRule
  <2>5. Says("reject", call) => rules[i].decision = "reject"
    <3> SUFFICES ASSUME NEW j \in hits, rules[j].decision = "reject"
                 PROVE  rules[i].decision = "reject"
      BY DEF Says
    <3> QED BY <2>2, <2>4 DEF Before
  <2> QED BY <2>2, <2>3, <2>4, <2>5 DEF Decided, Says
<1> QED BY <1>1, <1>2

-----------------------------------------------------------------------------
(* The tables. *)

(* What the tab shows and what it has read of a refresh are rules as they    *)
(* are saved, too: a switch sends one of them back.                         *)
ShownRules(table) == \A i \in DOMAIN table : IsRule(table[i])

LoadedRules(l) ==
    /\ "got" \in DOMAIN l
    /\ "rules" \in DOMAIN l.got => ShownRules(l.got["rules"])

TabInv == ShownRules(view.rules) /\ LoadedRules(load)

ScenarioInv ==
    /\ {"edits", "logins", "stops", "drafts"} \subseteq DOMAIN left
    /\ \A d \in left.drafts : IsDraft(d.rule)

TableInv == IsTable(rules) /\ TabInv /\ ScenarioInv

LEMMA NormalizedRule ==
    ASSUME NEW r, IsRule(r)
    PROVE  IsRule(Normalize(r)) /\ Normalize(r).decision = r.decision
BY DEF IsRule, IsDraft, Normalize

LEMMA KeptRule ==
    ASSUME NEW r, NEW i, IsDraft(r), Acceptable(r, i)
    PROVE  IsRule(Kept(r, i)) /\ i \in Builtins \cup Customs
<1> DEFINE k == [r EXCEPT !.builtin = i \in Builtins]
<1>1. IsRule(k)
  BY DEF IsRule, IsDraft, Acceptable
<1> HIDE DEF k
<1>2. Kept(r, i) = Normalize(k)
  BY DEF Kept, k
<1> QED BY <1>1, <1>2, NormalizedRule DEF Acceptable

LEMMA ListedRules ==
    ASSUME IsTable(rules)
    PROVE  ShownRules(Listed)
BY NormalizedRule DEF ShownRules, Listed, IsTable

LEMMA SaveKeepsTable ==
    ASSUME IsTable(rules), NEW i, NEW r, IsDraft(r), SaveRule(i, r)
    PROVE  IsTable(rules')
<1>1. IsRule(Kept(r, i)) /\ i \in Builtins \cup Customs
  BY KeptRule DEF SaveRule
<1>2. rules' = [j \in DOMAIN rules \cup {i} |-> IF j = i THEN Kept(r, i) ELSE rules[j]]
  BY DEF SaveRule
<1>3. IsFiniteSet(DOMAIN rules \cup {i})
  BY FS_AddElement DEF IsTable
<1> QED BY <1>1, <1>2, <1>3 DEF IsTable

LEMMA DeleteKeepsTable ==
    ASSUME IsTable(rules), NEW i, DeleteRule(i)
    PROVE  IsTable(rules')
<1>1. rules' = [j \in DOMAIN rules \ {i} |-> rules[j]]
  BY DEF DeleteRule, Restrict
<1>2. IsFiniteSet(DOMAIN rules \ {i})
  BY FS_RemoveElement DEF IsTable
<1> QED BY <1>1, <1>2 DEF IsTable

LEMMA AddedRule ==
    ASSUME NEW i \in Builtins
    PROVE  /\ IsRule(Added(i)) /\ Added(i).matcher = "semantic"
           /\ ParentIsOff(i) => ~Added(i).enabled
<1>1. IsRule(Presets[i]) /\ Presets[i].matcher = "semantic"
  BY PolicyAssumption DEF IsTable, Builtins
<1>2. (Presets[i].enabled /\ ~ParentIsOff(i)) \in BOOLEAN
  OBVIOUS
<1> DEFINE on == Presets[i].enabled /\ ~ParentIsOff(i)
<1>3. Added(i) = [Presets[i] EXCEPT !.enabled = on]
  BY DEF Added
<1>4. on \in BOOLEAN /\ (ParentIsOff(i) => ~on)
  OBVIOUS
<1> HIDE DEF on
<1>5. IsRule(Added(i)) /\ Added(i).matcher = "semantic" /\ Added(i).enabled = on
  BY <1>1, <1>3, <1>4 DEF IsRule, IsDraft
<1> QED BY <1>4, <1>5

LEMMA OpenKeepsTable ==
    ASSUME IsTable(rules), Open
    PROVE  IsTable(rules')
<1>1. CASE rules' = Presets
  BY <1>1, PolicyAssumption
<1>2. CASE UpgradeRules
  <2>1. rules' = [i \in DOMAIN rules \cup Builtins |-> IF i \in DOMAIN rules THEN rules[i] ELSE Added(i)]
    BY <1>2 DEF UpgradeRules
  <2>2. IsFiniteSet(DOMAIN rules \cup Builtins)
    BY PolicyAssumption, FS_Union DEF IsTable, Builtins
  <2> QED BY <2>1, <2>2, AddedRule DEF IsTable
<1> QED BY <1>1, <1>2 DEF Open

LEMMA SeedKeepsTable ==
    ASSUME SeedSome
    PROVE  IsTable(rules')
<1>1. PICK done \in SUBSET Builtins : rules' = [i \in done |-> Presets[i]]
  BY DEF SeedSome, Restrict
<1>2. IsFiniteSet(done)
  BY PolicyAssumption, FS_Subset DEF IsTable, Builtins
<1> QED BY <1>1, <1>2, PolicyAssumption DEF IsTable, Builtins

LEMMA NothingRead ==
    /\ LoadedRules(Idle) /\ LoadedRules([Idle EXCEPT !.busy = TRUE])
    /\ LoadedRules([Idle EXCEPT !.busy = TRUE, !.connect = TRUE])
<1>1. <<>> \in Seq(Nat) /\ Len(<<>>) = 0
  OBVIOUS
<1>2. "rules" \notin DOMAIN <<>>
  BY <1>1, LenProperties
<1>3. /\ Idle.got = <<>> /\ [Idle EXCEPT !.busy = TRUE].got = <<>>
      /\ [Idle EXCEPT !.busy = TRUE, !.connect = TRUE].got = <<>>
  BY DEF Idle
<1>4. /\ "got" \in DOMAIN Idle /\ "got" \in DOMAIN [Idle EXCEPT !.busy = TRUE]
      /\ "got" \in DOMAIN [Idle EXCEPT !.busy = TRUE, !.connect = TRUE]
  BY DEF Idle
<1> QED BY <1>2, <1>3, <1>4 DEF LoadedRules

LEMMA ReadKeepsTab ==
    ASSUME IsTable(rules), TabInv, NEW table, Read(table)
    PROVE  TabInv'
<1> DEFINE got == [t \in DOMAIN load.got \cup {table} |->
                     IF t = table THEN Tables[t] ELSE load.got[t]]
<1>1. ShownRules(Tables["rules"]) /\ DOMAIN Tables = {"rules", "scopes"}
  BY ListedRules DEF Tables
<1>2. "rules" \in DOMAIN got => ShownRules(got["rules"])
  BY <1>1 DEF TabInv, LoadedRules
<1>3. IF DOMAIN got = DOMAIN Tables
        THEN load' = Idle /\ view' = got
        ELSE load' = [load EXCEPT !.got = got] /\ UNCHANGED view
  BY DEF Read, EndLoad
<1> HIDE DEF got
<1>4. CASE DOMAIN got = DOMAIN Tables
  <2>1. ShownRules(got["rules"]) /\ load' = Idle /\ view' = got
    BY <1>1, <1>2, <1>3, <1>4
  <2>2. ShownRules(view'.rules)
    BY <2>1
  <2> QED BY <2>1, <2>2, NothingRead DEF TabInv, ShownRules, LoadedRules
<1>5. CASE DOMAIN got # DOMAIN Tables
  <2>1. load' = [load EXCEPT !.got = got] /\ UNCHANGED view
    BY <1>3, <1>5
  <2>2. load'.got = got /\ "got" \in DOMAIN load'
    BY <2>1 DEF TabInv, LoadedRules
  <2>3. LoadedRules(load')
    BY <1>2, <2>2 DEF LoadedRules
  <2> QED BY <2>1, <2>3 DEF TabInv, ShownRules, LoadedRules
<1> QED BY <1>4, <1>5

(* Every step of the tab leaves it what it had, what it has read, or nothing. *)
LEMMA TabKept ==
    ASSUME TableInv, Next
    PROVE  TabInv'
<1>1. ASSUME view' = view, load' \in {load, Idle, [Idle EXCEPT !.busy = TRUE],
                                     [Idle EXCEPT !.busy = TRUE, !.connect = TRUE]}
      PROVE  TabInv'
  <2>1. LoadedRules(load')
    BY <1>1, NothingRead DEF TableInv, TabInv
  <2> QED BY <1>1, <2>1 DEF TableInv, TabInv, ShownRules, LoadedRules
<1>2. CASE \/ OtherEdit \/ ServerStops \/ UNCHANGED consoleVars \/ SendSignal \/ Tick
           \/ SessionExpires \/ Logout \/ StreamOpens \/ UpdateArrives
  BY <1>1, <1>2 DEF OtherEdit, ServerStops, consoleVars, tabVars, SendSignal, Tick,
     SessionExpires, Logout, StreamOpens, UpdateArrives
<1>3. CASE \/ \E i \in DOMAIN view.rules : Toggle(i)
           \/ StreamFails \/ TimerFires \/ Login \/ ReadFails \/ Unauthorized
  BY <1>1, <1>3 DEF Toggle, Refresh, StreamFails, TimerFires, Login, Enter, ReadFails,
     Unauthorized, EndLoad
<1>4. CASE OpenPage
  <2>1. view' = Empty /\ load' = [Idle EXCEPT !.busy = TRUE, !.connect = TRUE]
    BY <1>4 DEF OpenPage
  <2>2. ShownRules(view'.rules)
    <3>1. <<>> \in Seq(Nat) /\ Len(<<>>) = 0
      OBVIOUS
    <3>2. DOMAIN <<>> = {}
      BY <3>1, LenProperties
    <3> QED BY <2>1, <3>2 DEF Empty, ShownRules
  <2> QED BY <2>1, <2>2, NothingRead DEF TabInv, ShownRules, LoadedRules
<1>5. CASE \E table \in DOMAIN view : Read(table)
  BY <1>5, ReadKeepsTab DEF TableInv
<1> QED BY <1>2, <1>3, <1>4, <1>5 DEF Next

LEMMA RulesKept ==
    ASSUME TableInv, Next
    PROVE  IsTable(rules')
<1>1. CASE UNCHANGED rules
  BY <1>1 DEF TableInv, IsTable
<1>2. CASE OtherEdit
  <2>1. CASE \E d \in left.drafts : SaveRule(d.id, d.rule)
    BY <2>1, SaveKeepsTable DEF TableInv, ScenarioInv
  <2>2. CASE \E i \in Customs \cap DOMAIN rules : DeleteRule(i)
    BY <2>2, DeleteKeepsTable DEF TableInv
  <2>3. CASE \/ \E d \in left.scopes : SaveScope(d[1], d[2])
             \/ \E k \in DOMAIN scopes : DeleteScope(k)
    BY <1>1, <2>3 DEF SaveScope, DeleteScope
  <2> QED BY <1>2, <2>1, <2>2, <2>3 DEF OtherEdit
<1>3. ASSUME NEW i \in DOMAIN view.rules, Toggle(i)
      PROVE  IsTable(rules')
  <2> DEFINE r == [view.rules[i] EXCEPT !.enabled = ~@]
  <2>1. IsRule(view.rules[i])
    BY DEF TableInv, TabInv, ShownRules
  <2>2. IsDraft(r)
    BY <2>1 DEF IsRule, IsDraft
  <2>3. SaveRule(i, r)
    BY <1>3 DEF Toggle
  <2> HIDE DEF r
  <2> QED BY <2>2, <2>3, SaveKeepsTable DEF TableInv
<1>4. CASE Open \/ SeedSome
  BY <1>4, OpenKeepsTable, SeedKeepsTable DEF TableInv
<1>5. CASE Login \/ OpenPage \/ ServerStops \/ SendSignal \/ Tick \/ SessionExpires \/ Logout
  BY <1>1, <1>5 DEF Login, Enter, OpenPage, ServerStops, Crash, SendSignal, Tick, SessionExpires,
     Logout, policyVars
<1>6. CASE \/ StreamOpens \/ StreamFails \/ UpdateArrives \/ TimerFires \/ ReadFails \/ Unauthorized
           \/ \E table \in DOMAIN view : Read(table)
  BY <1>1, <1>6 DEF StreamOpens, StreamFails, UpdateArrives, TimerFires, ReadFails, Unauthorized,
     Read, policyVars
<1> QED BY <1>2, <1>3, <1>4, <1>5, <1>6 DEF Next

LEMMA ScenarioKept ==
    ASSUME TableInv, Next
    PROVE  ScenarioInv'
<1>1. CASE UNCHANGED left
  BY <1>1 DEF TableInv, ScenarioInv
<1>2. ASSUME NEW what \in {"edits", "logins", "stops"}, Spend(what)
      PROVE  ScenarioInv'
  <2>1. left' = [left EXCEPT ![what] = left[what] - 1]
    BY <1>2 DEF Spend
  <2>2. DOMAIN left' = DOMAIN left /\ left'["drafts"] = left["drafts"]
    BY <2>1 DEF TableInv, ScenarioInv
  <2> QED BY <2>2 DEF TableInv, ScenarioInv
<1> QED BY <1>1, <1>2 DEF Next

(* The tables are well formed in every state: what the scan relies on when   *)
(* it stops at the first match.                                             *)
THEOREM TablesAreWellFormed == Spec => []TableInv
<1>1. Init => TableInv
  <2> SUFFICES ASSUME Init PROVE TableInv
    OBVIOUS
  <2>1. left \in Scenarios /\ rules \in left.tables /\ load = Idle /\ view = Tables
    BY DEF Init, ConsoleInit
  <2>2. IsTable(rules) /\ ScenarioInv
    BY <2>1, ScenarioAssumption DEF ScenarioInv
  <2>3. ShownRules(view.rules)
    BY <2>1, <2>2, ListedRules DEF Tables
  <2> QED BY <2>1, <2>2, <2>3, NothingRead DEF TableInv, TabInv
<1>2. TableInv /\ [Next]_vars => TableInv'
  <2> SUFFICES ASSUME TableInv, [Next]_vars PROVE TableInv'
    OBVIOUS
  <2>1. CASE UNCHANGED vars
    BY <2>1 DEF vars, policyVars, consoleVars, tabVars, TableInv, TabInv, ScenarioInv, IsTable,
       ShownRules, LoadedRules
  <2>2. CASE Next
    BY <2>2, TabKept, RulesKept, ScenarioKept DEF TableInv
  <2> QED BY <2>1, <2>2
<1> QED BY <1>1, <1>2, PTL DEF Spec

-----------------------------------------------------------------------------
(* The strictest rule decides. *)

(* The rules that say something of a call, in the words of the property.     *)
Sayers(d, call) ==
    {i \in DOMAIN rules :
        /\ rules[i].enabled /\ rules[i].decision = d
        /\ rules[i].tool # Anything => rules[i].tool = call.tool
        /\ \/ /\ Listed[i].matcher = "semantic" /\ i \in call.hits
           \/ /\ Listed[i].matcher # "semantic" /\ rules[i].text \in call.found}

LEMMA SayersSay ==
    ASSUME NEW call \in Calls, NEW d
    PROVE  Sayers(d, call) # {} <=> Says(d, call)
<1>1. \A i \in DOMAIN rules : Listed[i] = Normalize(rules[i])
  BY DEF Listed
<1>2. \A i \in DOMAIN rules :
         i \in Sayers(d, call) <=> Matches(i, call) /\ rules[i].decision = d
  BY <1>1 DEF Sayers, Matches
<1>3. Sayers(d, call) \subseteq DOMAIN rules
  BY DEF Sayers
<1> QED BY <1>2, <1>3 DEF Says

(* A call is within every scope that covers it just if none leaves it out.   *)
Covering(call) ==
    {s \in {scopes[k] : k \in DOMAIN scopes} : s.node = call.node /\ Within(s.project, call.cwd)}

PlacesLeft(call) ==
    {p \in {call.path} \ {NoPath} :
        \A s \in Covering(call) : s.paths = {} \/ \E root \in s.paths : Within(root, p)}

HostsLeft(call) ==
    {h \in call.hosts : \A s \in Covering(call) : s.targets = {} \/ h \in s.targets}

LEMMA ScopesLeave ==
    ASSUME NEW call \in Calls
    PROVE  OutOfScope(call) <=>
              ~((call.path # NoPath => PlacesLeft(call) # {}) /\ HostsLeft(call) = call.hosts)
<1>1. ASSUME NEW k \in DOMAIN scopes, Covers(k, call), Refuses(k, call)
      PROVE  ~((call.path # NoPath => PlacesLeft(call) # {}) /\ HostsLeft(call) = call.hosts)
  <2>1. scopes[k] \in Covering(call)
    BY <1>1 DEF Covers, Covering
  <2>2. CASE scopes[k].paths # {} /\ call.path # NoPath
             /\ \A root \in scopes[k].paths : ~Within(root, call.path)
    BY <2>1, <2>2 DEF PlacesLeft
  <2>3. CASE scopes[k].targets # {} /\ ~(call.hosts \subseteq scopes[k].targets)
    BY <2>1, <2>3 DEF HostsLeft
  <2> QED BY <1>1, <2>2, <2>3 DEF Refuses
<1>2. ASSUME ~OutOfScope(call)
      PROVE  (call.path # NoPath => PlacesLeft(call) # {}) /\ HostsLeft(call) = call.hosts
  <2>1. ASSUME NEW s \in Covering(call)
        PROVE  /\ s.paths = {} \/ call.path = NoPath \/ \E root \in s.paths : Within(root, call.path)
               /\ s.targets = {} \/ call.hosts \subseteq s.targets
    <3>1. PICK k \in DOMAIN scopes : s = scopes[k] /\ Covers(k, call)
      BY DEF Covering, Covers
    <3>2. ~Refuses(k, call)
      BY <1>2, <3>1 DEF OutOfScope
    <3> QED BY <3>1, <3>2 DEF Refuses
  <2>2. call.path # NoPath => call.path \in PlacesLeft(call)
    BY <2>1 DEF PlacesLeft
  <2>3. HostsLeft(call) = call.hosts
    BY <2>1 DEF HostsLeft
  <2> QED BY <2>2, <2>3
<1> QED BY <1>1, <1>2 DEF OutOfScope

LEMMA StrictestHolds ==
    ASSUME IsTable(rules)
    PROVE  StrictestRuleDecides
<1> SUFFICES ASSUME NEW call \in Calls
             PROVE  Verdict(call) =
                      IF ~((call.path # NoPath => PlacesLeft(call) # {}) /\ HostsLeft(call) = call.hosts)
                         \/ Sayers("reject", call) # {} THEN "reject"
                      ELSE IF Sayers("approve", call) # {} THEN "approve" ELSE "none"
  BY DEF StrictestRuleDecides, Sayers, PlacesLeft, HostsLeft, Covering
<1>1. Decided(call)
  BY EvaluateDecides
<1>2. /\ Sayers("reject", call) # {} <=> Says("reject", call)
      /\ Sayers("approve", call) # {} <=> Says("approve", call)
  BY SayersSay
<1> QED BY <1>1, <1>2, ScopesLeave DEF Verdict, Decided

(* What the operator has forbidden stays forbidden: for every table of rules *)
(* the scan's first match is a refusal if there is one, and no approval      *)
(* outweighs a scope (Engine.evaluate, sortRules and the scope check).       *)
THEOREM StrictestAlwaysDecides == Spec => []StrictestRuleDecides
<1>1. TableInv => StrictestRuleDecides
  BY StrictestHolds DEF TableInv
<1> QED BY <1>1, TablesAreWellFormed, PTL

-----------------------------------------------------------------------------
(* An upgrade. *)

LEMMA OnlyOpenStarts ==
    ASSUME Next, ~up, up'
    PROVE  Open
BY DEF Next, OtherEdit, SaveRule, DeleteRule, SaveScope, DeleteScope, Toggle, Login, Enter,
   OpenPage, ServerStops, Crash, SeedSome, SendSignal, Tick, SessionExpires, Logout, StreamOpens,
   StreamFails, UpdateArrives, TimerFires, Read, ReadFails, Unauthorized, policyVars

(* A new rule that comes disabled, or does not recognise the call, says      *)
(* nothing of it.                                                           *)
LEMMA UpgradeSaysTheSame ==
    ASSUME UpgradeRules, NEW call \in Calls, NEW d,
           \A i \in call.hits \ DOMAIN rules :
              /\ i \in DOMAIN ParentOf /\ ParentOf[i] \in DOMAIN rules
              /\ ~InForce(ParentOf[i])
    PROVE  Says(d, call)' <=> Says(d, call)
<1>1. rules' = [i \in DOMAIN rules \cup Builtins |-> IF i \in DOMAIN rules THEN rules[i] ELSE Added(i)]
  BY DEF UpgradeRules
<1>2. ASSUME NEW i \in DOMAIN rules
      PROVE  /\ i \in DOMAIN rules' /\ rules'[i] = rules[i]
             /\ Matches(i, call)' <=> Matches(i, call)
  <2>1. i \in DOMAIN rules' /\ rules'[i] = rules[i]
    BY <1>1
  <2> QED BY <2>1 DEF Matches
<1>3. ASSUME NEW i \in DOMAIN rules', i \notin DOMAIN rules
      PROVE  ~Matches(i, call)'
  <2>1. i \in Builtins /\ rules'[i] = Added(i)
    BY <1>1, <1>3
  <2>2. Added(i).matcher = "semantic" /\ (ParentIsOff(i) => ~Added(i).enabled) /\ IsRule(Added(i))
    BY <2>1, AddedRule
  <2>3. Normalize(Added(i)).matcher = "semantic"
    BY <2>2 DEF Normalize, IsRule, IsDraft, Anything
  <2>4. CASE i \in call.hits
    <3>1. ParentIsOff(i)
      BY <1>3, <2>4 DEF ParentIsOff
    <3> QED BY <2>1, <2>2, <3>1 DEF Matches
  <2>5. CASE i \notin call.hits
    BY <2>1, <2>3, <2>5 DEF Matches
  <2> QED BY <2>4, <2>5
<1> QED BY <1>2, <1>3 DEF Says

LEMMA TablesDecide ==
    TableInv => AllDecided
BY EvaluateDecides DEF TableInv, AllDecided

LEMMA ClosedStaysClosed ==
    ASSUME TableInv, TableInv', [Next]_vars, ~up, up', rules # <<>>,
           NEW call \in Calls,
           \A i \in call.hits \ DOMAIN rules :
              /\ i \in DOMAIN ParentOf /\ ParentOf[i] \in DOMAIN rules
              /\ ~InForce(ParentOf[i])
    PROVE  Verdict(call)' = Verdict(call)
<1>1. Open
  BY OnlyOpenStarts DEF vars, policyVars
<1>2. UpgradeRules /\ UNCHANGED scopes
  BY <1>1 DEF Open
<1>3. /\ Says("reject", call)' <=> Says("reject", call)
      /\ Says("approve", call)' <=> Says("approve", call)
  BY <1>2, UpgradeSaysTheSame
<1>4. Decided(call)
  BY TablesDecide DEF AllDecided
<1>5. Decided(call)'
  <2>1. (TableInv => AllDecided)'
    BY TablesDecide, PTL
  <2> QED BY <2>1 DEF AllDecided
<1>6. OutOfScope(call)' <=> OutOfScope(call)
  BY <1>2 DEF OutOfScope, Covers, Refuses
<1> QED BY <1>3, <1>4, <1>5, <1>6 DEF Verdict, Decided

(* An upgrade does not re-enable what the operator has switched off,         *)
(* replaced, allowed or limited: a start gives a call another verdict only   *)
(* for a new rule that recognises it and whose category is in force, or      *)
(* which has none (upgradeBuiltinRules).                                    *)
THEOREM ClosedCategoriesKept == Spec => ClosedCategoriesStayClosed
<1>1. TableInv /\ TableInv' /\ [Next]_vars =>
        [~up /\ up' /\ rules # <<>> =>
          \A call \in Calls :
              Verdict(call)' # Verdict(call) =>
                  \E i \in call.hits \ DOMAIN rules :
                      (i \in DOMAIN ParentOf /\ ParentOf[i] \in DOMAIN rules) =>
                          InForce(ParentOf[i])]_vars
  <2> SUFFICES ASSUME TableInv, TableInv', [Next]_vars, ~up, up', rules # <<>>,
                      NEW call \in Calls, Verdict(call)' # Verdict(call)
               PROVE  \E i \in call.hits \ DOMAIN rules :
                        (i \in DOMAIN ParentOf /\ ParentOf[i] \in DOMAIN rules) =>
                            InForce(ParentOf[i])
    OBVIOUS
  <2> QED BY ClosedStaysClosed
<1> QED BY <1>1, TablesAreWellFormed, PTL DEF Spec, ClosedCategoriesStayClosed
=============================================================================
