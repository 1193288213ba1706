-------------------------- MODULE MCReviewSettings --------------------------
(* Two endpoints, one key beside the empty one. *)
EXTENDS ReviewSettings

CONSTANTS e1, e2, k1
=============================================================================
