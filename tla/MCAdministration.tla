-------------------------- MODULE MCAdministration --------------------------
(* Four built-in rules, A7, R4 with one of its details and the optional      *)
(* R_NET_PIPE, and one custom rule; a project with a directory in it.        *)
EXTENDS Administration, TLC

Rule(decision, priority, matcher, text) ==
    [decision |-> decision, enabled |-> TRUE, builtin |-> FALSE, tool |-> Anything,
     priority |-> priority, matcher |-> matcher, text |-> text]
Shipped(decision, priority, enabled) ==
    [Rule(decision, priority, "semantic", NoText) EXCEPT
        !.builtin = TRUE, !.enabled = enabled]

A7 == 1
R4 == 2
RmRecursive == 3
NetPipe == 4
U1 == 5

MCPresets == (A7 :> Shipped("approve", 0, TRUE)) @@ (R4 :> Shipped("reject", 0, TRUE))
    @@ (RmRecursive :> Shipped("reject", 2, TRUE)) @@ (NetPipe :> Shipped("reject", 1, FALSE))
MCParentOf == (RmRecursive :> R4)

MCDrafts ==
    {Rule("approve", 3, "regex", "rm"), Rule("reject", 0, "contains", "rm"),
     Rule("approve", 3, "semantic", NoText), Rule("reject", 3, "", NoText),
     Rule("reject", 3, "", "rm"), [Rule("approve", 1, "", "rm") EXCEPT !.builtin = TRUE],
     [Shipped("reject", 0, TRUE) EXCEPT !.tool = "read"],
     Shipped("reject", 0, FALSE), Shipped("approve", 3, TRUE)}

(* "project" holds "project/data" and a call outside both is possible. *)
MCWithin(root, p) == root = p \/ (root = "project" /\ p = "data")

OneScopeDraft == [project |-> "project", node |-> "here", paths |-> {"data"}, targets |-> {}]
MCScopeDrafts ==
    {OneScopeDraft,
     [project |-> "data", node |-> "here", paths |-> {"project"}, targets |-> {"h1"}],
     [project |-> "project", node |-> "there", paths |-> {"project"}, targets |-> {}]}

MCCalls ==
    [tool : {"shell"}, node : {"here"}, cwd : {"data"}, path : {NoPath}, hosts : {{}, {"h1", "h2"}},
     hits : SUBSET {R4, RmRecursive}, found : {{}, {"rm"}}]
    \cup [tool : {"read"}, node : {"here", "there"}, cwd : {"project", "data"},
          path : {"project", "data", "else"}, hosts : {{}}, hits : {{A7}, {A7, NetPipe}},
          found : {{"rm"}}]

Edit(i, r) == [id |-> i, rule |-> r]
AllEdits == {Edit(i, r) : i \in DOMAIN MCPresets \cup {U1}, r \in MCDrafts}

(* What releases without the catalog of details left, and a first start. *)
Earlier ==
    {(A7 :> MCPresets[A7]) @@ (R4 :> r) : r \in {MCPresets[R4],
        [MCPresets[R4] EXCEPT !.enabled = FALSE], [MCPresets[R4] EXCEPT !.matcher = ""],
        [MCPresets[R4] EXCEPT !.decision = "approve"]}}

(* Many tables without a tab, or a tab with few edits. *)
MCScenarios ==
    {[edits |-> 2, logins |-> 0, stops |-> 2, faults |-> 0, drafts |-> AllEdits,
      scopes |-> {"s1", "s2"} \X MCScopeDrafts, tables |-> Earlier \cup {<<>>}],
     [edits |-> 2, logins |-> 2, stops |-> 1, faults |-> 1,
      drafts |-> {Edit(U1, Rule("reject", 0, "contains", "rm"))},
      scopes |-> {<<"s1", OneScopeDraft>>}, tables |-> {MCPresets}]}
=============================================================================
