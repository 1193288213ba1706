---------------------------- MODULE MCHookBridge ----------------------------
(* One call of one session, seen by a global and a project hook. *)
EXTENDS HookBridge, TLC

CONSTANTS i1, c1, global, project

EitherOrder == Permutations({global, project})
OneOwner == [c \in {c1} |-> i1]
BothOnOneCall == [h \in {global, project} |-> c1]
GlobalOnOneCall == [h \in {global} |-> c1]
=============================================================================
