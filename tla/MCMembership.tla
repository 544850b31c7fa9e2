---------------------------- MODULE MCMembership ----------------------------
(* Admission and addressing on a small instance for TLC. *)
EXTENDS Membership, TLC

\* Request slots are interchangeable (used by the safety run only).
RequestSymmetry == Permutations(Requests)
=============================================================================
