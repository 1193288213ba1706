---------------------------- MODULE MCEnrollment ----------------------------
(* Two devices that compete for one code and for the quotas. *)
EXTENDS Enrollment, TLC

CONSTANTS d1, d2, s1, s2, k1

Alike == Permutations({d1, d2}) \cup Permutations({s1, s2})
=============================================================================
