--------------------------- MODULE MCReviewEngine ---------------------------
(* The instances TLC checks: one session with two calls, or two sessions   *)
(* with one call each.                                                     *)
EXTENDS ReviewEngine

CONSTANTS i1, i2, c1, c2

OneSession == [c \in {c1, c2} |-> i1]
OneCall == [c \in {c1} |-> i1]
TwoSessions == [c \in {c1, c2} |-> IF c = c1 THEN i1 ELSE i2]
=============================================================================
