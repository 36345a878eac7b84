----------------------------- MODULE MCSaleSync -----------------------------
(* Instances of SaleSync for TLC. *)
EXTENDS SaleSync, TLC

CONSTANTS s1, s2, h1, h2, j1, j2

Symmetry == Permutations({s1, s2}) \cup Permutations({h1, h2}) \cup Permutations({j1, j2})
=============================================================================
