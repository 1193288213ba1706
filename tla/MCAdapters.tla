----------------------------- MODULE MCAdapters -----------------------------
(* Two calls in two sessions; commands with a repeated, a directly run, too  *)
(* many and unclear scripts.                                                 *)
EXTENDS Adapters, TLC

CONSTANTS t1, t2, p1, p2, p3

By(path) == [path |-> path, direct |-> FALSE]
Directly(path) == [path |-> path, direct |-> TRUE]
Command(via, refs) == [via |-> via, refs |-> refs]

MCCommands ==
    t1 :> {Command("shell", refs) : refs \in
        {<<>>, <<By(p1), Directly(p2), By(p1)>>, <<By(p1), By(p2), By(p3)>>,
         <<Directly(p1), By(Problem)>>}}
    \cup {Command("shell_send", <<Directly(p1)>>)}
    @@ t2 :> {Command("shell", <<>>)}
=============================================================================
