-------------------------- MODULE MCReconciliation --------------------------
(* Instances of Reconciliation for TLC. *)
EXTENDS Reconciliation, TLC

CONSTANTS e1, e2, p1, y1, r1, A, B, s1, s2, f1, f2

SinglePeriod == p1 :> y1

\* An inflow of 1 or of 2 on one bank, and a transfer of 1 from the other bank.
Inflows == {(A :> 1) @@ (B :> 0), (A :> 2) @@ (B :> 0), (A :> 1) @@ (B :> -1)}

\* A file with an inflow of 2, which one leg or the sum of two explains, and a
\* file with an outflow of 1.
BothWays == (f1 :> <<2>>) @@ (f2 :> <<-1>>)

Symmetry == Permutations({e1, e2}) \cup Permutations({s1, s2})
=============================================================================
