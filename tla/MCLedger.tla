------------------------------ MODULE MCLedger ------------------------------
(* Instances of Ledger for TLC. *)
EXTENDS Ledger, TLC

CONSTANTS e1, e2, e3, e4, p1, p2, y1, y2, k1, k2, r1, r2, r3

SinglePeriod == p1 :> y1

Symmetry3 == Permutations({e1, e2, e3}) \cup Permutations({r1, r2})
Symmetry4 == Permutations({e1, e2, e3, e4}) \cup Permutations({r1, r2})
=============================================================================
