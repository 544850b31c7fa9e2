------------------------------ MODULE MCRelay ------------------------------
(* The relay on a small instance for TLC. *)
EXTENDS Relay, TLC

\* Addresses, tokens and session IDs are only compared: safety runs may permute them.
Symmetry == Permutations(Addrs) \cup Permutations(Tokens) \cup Permutations(SessionIds)
=============================================================================
