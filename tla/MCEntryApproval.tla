--------------------------- MODULE MCEntryApproval ---------------------------
(* Instances of EntryApproval for TLC. *)
EXTENDS EntryApproval, TLC

CONSTANTS e1, p1, p2, y1, y2, r1, c1, c2, owner, u1, a

TwoYears == (p1 :> y1) @@ (p2 :> y2)

Commands == Permutations({c1, c2})
\* Each period with its year.
Years == {(p1 :> p2) @@ (p2 :> p1) @@ (y1 :> y2) @@ (y2 :> y1)}
Symmetry == Commands \cup Years
=============================================================================
